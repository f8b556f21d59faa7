----------------------------- MODULE ConfigProofs -----------------------------
(***************************************************************************)
(* Proofs about Config, for any table of items and files of any length:    *)
(* the strings of a configuration always have an owner (ConfigInv), and    *)
(* the scanner takes from a file what its lines say (LinesInv).            *)
(***************************************************************************)
EXTENDS Config, FiniteSetTheorems, SequenceTheorems, WellFoundedInduction, TLAPS

(* The definitions that only group variables or name sets.                 *)
USE DEF vars, scanner, settings, Place, States

(***************************************************************************)
(* Lemmas about sets of places.                                            *)
(***************************************************************************)

(* Numbers have a least one.                                               *)
LEMMA HasLeast ==
  ASSUME NEW T \in SUBSET Nat, T # {}
  PROVE  \E x \in T : \A y \in T : x <= y
<1> DEFINE R == OpToRel(<, Nat)
<1>1. IsWellFoundedOn(R, Nat)
  BY NatLessThanWellFounded
<1>2. \A x, y \in Nat : y < x => <<y, x>> \in R
  BY DEF OpToRel
<1> HIDE DEF R
<1>3. PICK x \in T : \A y \in T : ~(<<y, x>> \in R)
  BY <1>1, WFMin
<1>4. \A y \in T : ~(y < x)
  BY <1>2, <1>3
<1>5. QED
  BY <1>4

(* Bounded numbers have a greatest one.                                    *)
LEMMA HasGreatest ==
  ASSUME NEW n \in Nat, NEW T \in SUBSET (1..n), T # {}
  PROVE  \E x \in T : \A y \in T : y <= x
<1> DEFINE U == {n - i : i \in T}
<1>1. U \in SUBSET Nat /\ U # {}
  <2>1. \A i \in T : i \in 1..n
    OBVIOUS
  <2>2. \A i \in T : n - i \in Nat
    BY <2>1
  <2>3. QED
    BY <2>2
<1>2. PICK u \in U : \A v \in U : u <= v
  BY <1>1, HasLeast
<1>3. PICK x \in T : u = n - x
  BY <1>2
<1>4. ASSUME NEW y \in T
      PROVE  y <= x
  <2>1. u <= n - y
    BY <1>2
  <2>2. QED
    BY <1>3, <2>1
<1>5. QED
  BY <1>4

(* Sets of items are finite, and all the facts about an item.              *)
LEMMA Items ==
  /\ IsFiniteSet(Place) /\ Place \subseteq Nat
  /\ \A i \in Place : Item[i].plain \in BOOLEAN /\ Item[i].dflt \in Word
<1>1. Len(Item) \in Nat /\ Place = 1..Len(Item)
  BY ConfigAssumption, LenProperties
<1>2. IsFiniteSet(Place)
  BY <1>1, FS_Interval
<1>3. ASSUME NEW i \in Place
      PROVE  Item[i].plain \in BOOLEAN /\ Item[i].dflt \in Word
  <2>1. Item[i] \in [name : Seq(Letter), plain : BOOLEAN,
                     good : SUBSET Word, dflt : Word]
    BY <1>1, ConfigAssumption, ElementOfSeq
  <2>2. QED
    BY <2>1
<1>4. QED
  BY <1>1, <1>2, <1>3

(***************************************************************************)
(* The argument of a line is a word.                                       *)
(***************************************************************************)

(* When an argument has begun in buffer b, before its last place, and this *)
(* place is where it ends, the string that rie_conf_strip_tail() leaves is *)
(* a word.                                                                 *)
LEMMA ArgumentIsWord ==
  ASSUME NEW n \in Nat, NEW b \in Seq(Char \union {NUL}), Len(b) = n + 1,
         NEW a \in 1..n, b[a] \in Letter
  PROVE  /\ Terminated(b, n + 1) \in Seq(Char \union {NUL})
         /\ Len(Terminated(b, n + 1)) = n + 1
         /\ String(Terminated(b, n + 1), a) \in Word
<1> DEFINE solid == {i \in 1..((n + 1) - 1) : ~IsSpace(b[i])}
           last  == CHOOSE i \in solid : \A j \in solid : j <= i
           t     == Terminated(b, n + 1)
           ends  == {i \in a..Len(t) : t[i] = NUL}
           e     == CHOOSE i \in ends : \A f \in ends : i <= f
<1>1. a \in solid /\ solid \subseteq 1..n
  BY ConfigAssumption DEF IsSpace
<1>2. last \in solid
  <2>1. \E x \in solid : \A y \in solid : y <= x
    BY <1>1, HasGreatest
  <2> HIDE DEF solid
  <2>2. QED
    BY <2>1
<1>3. t = [i \in DOMAIN b |-> IF i \in (last + 1)..(n + 1) THEN NUL ELSE b[i]]
  BY DEF Terminated
<1>4. last \in 1..n
  BY <1>1, <1>2
<1> HIDE DEF last, solid
<1>5. DOMAIN b = 1..(n + 1) /\ \A i \in 1..(n + 1) : b[i] \in Char \union {NUL}
  BY LenProperties, ElementOfSeq
<1>6. t \in [1..(n + 1) -> Char \union {NUL}] /\ t[n + 1] = NUL
  BY <1>3, <1>4, <1>5
<1> HIDE DEF t
<1>7. t \in Seq(Char \union {NUL}) /\ Len(t) = n + 1
  BY <1>6
<1>8. n + 1 \in ends /\ ends \in SUBSET Nat
  BY <1>6, <1>7
<1>9. e \in ends /\ \A f \in ends : e <= f
  <2>1. \E x \in ends : \A y \in ends : x <= y
    BY <1>8, HasLeast
  <2> HIDE DEF ends
  <2>2. QED
    BY <2>1
<1>10. e \in a..(n + 1)
  BY <1>7, <1>9
<1>11. String(t, a) = SubSeq(t, a, e - 1)
  BY DEF String
<1> HIDE DEF e
<1>12. ASSUME NEW i \in a..(e - 1)
       PROVE  t[i] \in Char
  <2>1. i \in 1..(n + 1) /\ i < e /\ i \in a..Len(t)
    BY <1>7, <1>10
  <2>2. t[i] \in Char \union {NUL}
    BY <1>6, <2>1
  <2>3. t[i] # NUL
    <3>1. i \notin ends
      BY <1>8, <1>9, <1>10, <2>1
    <3>2. QED
      BY <2>1, <3>1
  <2>4. QED
    BY <2>2, <2>3
<1>13. SubSeq(t, a, e - 1) \in Seq(Char)
  <2>1. a \in Int /\ e - 1 \in Int
    BY <1>10
  <2>2. QED
    BY <1>12, <2>1, SubSeqProperties
<1>14. QED
  BY <1>7, <1>11, <1>13 DEF t, Word

(***************************************************************************)
(* The inductive invariant.                                                *)
(***************************************************************************)
ScanTypes ==
  /\ text \in Word /\ Len(text) <= MaxChars
  /\ buf \in Seq(Char \union {NUL})
  /\ state \in States
  /\ key \in Nat /\ arg \in Nat
  /\ at \in {"scan", "defaults", "ok", "error"}
ItemTypes ==
  /\ value \in [Place -> Word \union {Unset}]
  /\ initialized \subseteq Place
  /\ strings \in Nat /\ lost \in Nat

(* The buffer is as long as what has been read, and in an argument arg is  *)
(* the place of a character that is no blank.                              *)
ScanInv == at = "scan" =>
  /\ Len(buf) = Len(text)
  /\ state = "ARG" => arg \in 1..Len(buf) /\ buf[arg] \in Letter

ConfigInv == ScanTypes /\ ItemTypes /\ ScanInv /\ StringsOwned /\ NothingLeftBehind

(* The items whose strings are owned.                                      *)
Owned == {i \in Place : Item[i].plain /\ value[i] # Unset}

LEMMA OwnedFinite == IsFiniteSet(Owned) /\ Cardinality(Owned) \in Nat
  BY Items, FS_Subset, FS_CardinalityType DEF Owned

(* Setting an item keeps account of its string and of the one before it.   *)
LEMMA ProcessItemOwned ==
  ASSUME ItemTypes, StringsOwned, NEW i \in Place, NEW word \in Word,
         ProcessItem(i, word)
  PROVE  ItemTypes' /\ StringsOwned'
<1>1. /\ value' = [value EXCEPT ![i] = word]
      /\ initialized' = initialized \union {i}
      /\ strings' = IF Item[i].plain THEN strings + 1 ELSE strings
      /\ lost' = IF Item[i].plain /\ value[i] # Unset THEN lost + 1 ELSE lost
  BY DEF ProcessItem
<1>2. word # Unset /\ Item[i].plain \in BOOLEAN
  BY ConfigAssumption, Items
<1>3. /\ strings \in Nat /\ lost \in Nat
      /\ value \in [Place -> Word \union {Unset}] /\ initialized \subseteq Place
  BY DEF ItemTypes
<1>4. value' \in [Place -> Word \union {Unset}] /\ initialized' \subseteq Place
  BY <1>1, <1>3
<1>5. strings' \in Nat /\ lost' \in Nat
  BY <1>1, <1>2, <1>3
<1>6. /\ value'[i] = word
      /\ \A j \in Place : j # i => value'[j] = value[j]
  BY <1>1, <1>3
<1>7. strings = lost + Cardinality(Owned)
  BY DEF StringsOwned, Owned
<1>8. IsFiniteSet(Owned) /\ Cardinality(Owned) \in Nat
  BY OwnedFinite
<1>9. strings' = lost' + Cardinality(Owned')
  <2>1. CASE ~Item[i].plain
    <3>1. Owned' = Owned
      BY <1>6, <2>1 DEF Owned
    <3>2. QED
      BY <1>1, <1>7, <2>1, <3>1
  <2>2. CASE Item[i].plain /\ value[i] # Unset
    <3>1. Owned' = Owned
      BY <1>2, <1>6, <2>2 DEF Owned
    <3>2. QED
      BY <1>1, <1>3, <1>7, <1>8, <2>2, <3>1
  <2>3. CASE Item[i].plain /\ value[i] = Unset
    <3>1. Owned' = Owned \union {i} /\ i \notin Owned
      BY <1>2, <1>6, <2>3 DEF Owned
    <3>2. Cardinality(Owned') = Cardinality(Owned) + 1
      BY <1>8, <3>1, FS_AddElement
    <3>3. QED
      BY <1>1, <1>3, <1>7, <1>8, <2>3, <3>2
  <2>4. QED
    BY <1>2, <2>1, <2>2, <2>3
<1>10. \A j \in Place : Item[j].plain => (value'[j] # Unset <=> j \in initialized')
  BY <1>1, <1>2, <1>6 DEF StringsOwned
<1>11. QED
  BY <1>4, <1>5, <1>9, <1>10 DEF ItemTypes, StringsOwned, Owned

(* Taking back what was read frees all that is owned.                      *)
LEMMA FailedOwned ==
  ASSUME ItemTypes, StringsOwned, Failed
  PROVE  ItemTypes' /\ StringsOwned' /\ NothingLeftBehind' /\ at' = "error"
<1> DEFINE freed == {i \in initialized : Item[i].plain}
<1>1. /\ at' = "error" /\ initialized' = {} /\ lost' = lost
      /\ value' = [i \in Place |-> IF i \in freed THEN Unset ELSE value[i]]
      /\ strings' = strings - Cardinality(freed)
  BY DEF Failed
<1>2. freed = Owned
  BY DEF StringsOwned, Owned, ItemTypes
<1>3. /\ strings = lost + Cardinality(Owned)
      /\ Cardinality(Owned) \in Nat /\ lost \in Nat
      /\ value \in [Place -> Word \union {Unset}]
  BY OwnedFinite DEF StringsOwned, Owned, ItemTypes
<1> HIDE DEF freed
<1>4. strings' = lost
  <2>1. strings' = strings - Cardinality(Owned)
    BY <1>1, <1>2
  <2>2. QED
    BY <1>3, <2>1
<1>5. value' \in [Place -> Word \union {Unset}]
  BY <1>1, <1>3
<1>6. \A i \in Place : Item[i].plain => value'[i] = Unset
  BY <1>1, <1>2 DEF Owned
<1>7. Owned' = {} /\ Cardinality(Owned') = 0
  BY <1>6, FS_EmptySet DEF Owned
<1>8. ItemTypes'
  BY <1>1, <1>3, <1>4, <1>5 DEF ItemTypes
<1>9. StringsOwned'
  <2>1. strings' = lost' + Cardinality(Owned')
    BY <1>1, <1>3, <1>4, <1>7
  <2>2. QED
    BY <1>1, <1>6, <2>1 DEF StringsOwned, Owned
<1>10. QED
  BY <1>1, <1>4, <1>8, <1>9 DEF NothingLeftBehind

(* A line whose argument is a word.                                        *)
LEMMA HandleKeyOwned ==
  ASSUME ItemTypes, StringsOwned, NEW b, String(b, arg) \in Word,
         NEW then \in {"scan", "defaults"}, HandleKey(b, then)
  PROVE  /\ ItemTypes' /\ StringsOwned' /\ NothingLeftBehind'
         /\ at' \in {then, "error"}
<1>1. CASE Failed
  BY <1>1, FailedOwned
<1>2. CASE ~Failed
  <2>1. PICK i \in Place : ProcessItem(i, String(b, arg))
    BY <1>2 DEF HandleKey
  <2>2. at' = then
    BY <1>2 DEF HandleKey
  <2>3. QED
    BY <2>1, <2>2, ProcessItemOwned DEF NothingLeftBehind
<1>3. QED
  BY <1>1, <1>2

(***************************************************************************)
(* The scanner.                                                            *)
(***************************************************************************)

(* What reading a character does to the text.                              *)
LEMMA ReadsTypes ==
  ASSUME ConfigInv, NEW c \in Char, Reads(c)
  PROVE  /\ at = "scan" /\ text' \in Word /\ Len(text') <= MaxChars
         /\ Len(text') = Len(text) + 1 /\ Len(text) \in Nat
         /\ Len(buf) = Len(text) /\ p = Len(buf) + 1
         /\ \A x \in Char \union {NUL} :
              /\ Append(buf, x) \in Seq(Char \union {NUL})
              /\ Len(Append(buf, x)) = Len(text) + 1
              /\ \A i \in 1..Len(buf) : Append(buf, x)[i] = buf[i]
              /\ Append(buf, x)[p] = x
<1>1. text \in Seq(Char) /\ buf \in Seq(Char \union {NUL}) /\ MaxChars \in Nat
  BY ConfigAssumption DEF ConfigInv, ScanTypes, Word
<1>2. at = "scan" /\ Len(text) < MaxChars /\ text' = Append(text, c)
  BY DEF Reads
<1>3. /\ text' \in Seq(Char) /\ Len(text') = Len(text) + 1
      /\ Len(text) \in Nat
  BY <1>1, <1>2, AppendProperties, LenProperties
<1>4. Len(buf) = Len(text)
  BY <1>2 DEF ConfigInv, ScanInv
<1>5. \A x \in Char \union {NUL} :
        /\ Append(buf, x) \in Seq(Char \union {NUL})
        /\ Len(Append(buf, x)) = Len(buf) + 1
        /\ \A i \in 1..Len(buf) : Append(buf, x)[i] = buf[i]
        /\ Append(buf, x)[Len(buf) + 1] = x
  BY <1>1, AppendProperties
<1>6. QED
  BY <1>1, <1>2, <1>3, <1>4, <1>5 DEF p, Word

(* A character that goes to the buffer while no line is complete.          *)
LEMMA PlainRead ==
  ASSUME ConfigInv, NEW c \in Char, Reads(c), NEW x \in Char \union {NUL},
         buf' = Append(buf, x), Goes(state'), state' \in States,
         key' \in Nat, arg' \in Nat,
         state' = "ARG" => \/ state = "ARG" /\ UNCHANGED arg
                           \/ arg' = p /\ x \in Letter
  PROVE  ConfigInv'
<1>1. /\ at = "scan" /\ text' \in Word /\ Len(text') <= MaxChars
      /\ Len(text') = Len(text) + 1 /\ Len(text) \in Nat
      /\ Len(buf) = Len(text) /\ p = Len(buf) + 1
      /\ buf' \in Seq(Char \union {NUL}) /\ Len(buf') = Len(text) + 1
      /\ \A i \in 1..Len(buf) : buf'[i] = buf[i]
      /\ buf'[p] = x
  BY ReadsTypes
<1>2. UNCHANGED <<settings, at>>
  BY DEF Goes
<1>3. ScanTypes'
  BY <1>1, <1>2 DEF ScanTypes, ConfigInv
<1>4. ScanInv'
  <2>1. state' = "ARG" => arg' \in 1..Len(buf') /\ buf'[arg'] \in Letter
    <3>1. CASE state = "ARG" /\ UNCHANGED arg
      <4>1. arg \in 1..Len(buf) /\ buf[arg] \in Letter
        BY <1>1, <3>1 DEF ConfigInv, ScanInv
      <4>2. QED
        BY <1>1, <3>1, <4>1
    <3>2. CASE arg' = p /\ x \in Letter
      BY <1>1, <3>2
    <3>3. QED
      BY <3>1, <3>2
  <2>2. QED
    BY <1>1, <2>1 DEF ScanInv
<1>5. ItemTypes' /\ StringsOwned' /\ NothingLeftBehind'
  BY <1>2 DEF ConfigInv, ItemTypes, StringsOwned, NothingLeftBehind
<1>6. QED
  BY <1>3, <1>4, <1>5 DEF ConfigInv

(* A character that the scanner refuses.                                   *)
LEMMA ErrorRead ==
  ASSUME ConfigInv, NEW c \in Char, Reads(c), Error(c), UNCHANGED <<key, arg>>
  PROVE  ConfigInv'
<1>1. /\ ItemTypes' /\ StringsOwned' /\ NothingLeftBehind' /\ at' = "error"
  BY FailedOwned DEF Error, ConfigInv
<1>2. /\ text' \in Word /\ Len(text') <= MaxChars
      /\ buf' \in Seq(Char \union {NUL}) /\ state' = state
  BY ReadsTypes DEF Error, Consume
<1>3. QED
  BY <1>1, <1>2 DEF ConfigInv, ScanTypes, ScanInv

LEMMA PreConfig ==
  ASSUME ConfigInv, NEW c \in Char, Pre(c)
  PROVE  ConfigInv'
<1>1. Reads(c) /\ UNCHANGED arg
  BY DEF Pre
<1>2. p \in Nat /\ key \in Nat /\ arg \in Nat
  BY <1>1, ReadsTypes DEF ConfigInv, ScanTypes
<1>3. CASE Error(c) /\ UNCHANGED key
  BY <1>1, <1>3, ErrorRead
<1>4. CASE ~(Error(c) /\ UNCHANGED key)
  <2>1. /\ Consume(c) /\ Goes(state') /\ state' \in {"TAIL", "KEY", "PRE"}
        /\ key' \in {key, p}
    BY <1>4 DEF Pre, Goes
  <2>2. QED
    BY <1>1, <1>2, <2>1, PlainRead DEF Consume
<1>5. QED
  BY <1>3, <1>4

LEMMA KeyConfig ==
  ASSUME ConfigInv, NEW c \in Char, Key(c)
  PROVE  ConfigInv'
<1>1. Reads(c) /\ UNCHANGED <<key, arg>>
  BY DEF Key
<1>2. key \in Nat /\ arg \in Nat
  BY DEF ConfigInv, ScanTypes
<1>3. CASE Error(c)
  BY <1>1, <1>3, ErrorRead
<1>4. CASE ~Error(c)
  <2>1. PICK x \in {c, NUL} : buf' = Append(buf, x) /\ Goes(state')
                              /\ state' \in {"DIV", "KEY"}
    BY <1>4 DEF Key, Goes, Consume
  <2>2. QED
    BY <1>1, <1>2, <2>1, PlainRead
<1>5. QED
  BY <1>3, <1>4

LEMMA DivConfig ==
  ASSUME ConfigInv, NEW c \in Char, Div(c)
  PROVE  ConfigInv'
<1>1. Reads(c) /\ UNCHANGED key
  BY DEF Div
<1>2. p \in Nat /\ key \in Nat /\ arg \in Nat
  BY <1>1, ReadsTypes DEF ConfigInv, ScanTypes
<1>3. CASE Error(c) /\ UNCHANGED arg
  BY <1>1, <1>3, ErrorRead
<1>4. CASE ~(Error(c) /\ UNCHANGED arg)
  <2>1. /\ Consume(c) /\ Goes(state')
        /\ \/ state' = "DIV" /\ UNCHANGED arg
           \/ state' = "ARG" /\ arg' = p /\ c \in Letter
    BY <1>4 DEF Div, Goes
  <2>2. QED
    BY <1>1, <1>2, <2>1, PlainRead DEF Consume
<1>5. QED
  BY <1>3, <1>4

LEMMA CommentConfig ==
  ASSUME ConfigInv, NEW c \in Char, Comment(c)
  PROVE  ConfigInv'
<1>1. /\ Reads(c) /\ UNCHANGED <<key, arg>> /\ Consume(c)
      /\ Goes(state') /\ state' \in {"PRE", "TAIL"}
  BY DEF Comment, Goes
<1>2. key \in Nat /\ arg \in Nat
  BY DEF ConfigInv, ScanTypes
<1>3. QED
  BY <1>1, <1>2, PlainRead DEF Consume

(* The argument that ends with the character x: a word, as it has begun    *)
(* with a character that is no blank.                                      *)
LEMMA ArgumentEnds ==
  ASSUME ConfigInv, at = "scan", state = "ARG", NEW x \in Char \union {NUL},
         NEW b, b = Terminated(Append(buf, x), p)
  PROVE  /\ b \in Seq(Char \union {NUL}) /\ Len(b) = Len(text) + 1
         /\ String(b, arg) \in Word
<1>1. /\ buf \in Seq(Char \union {NUL}) /\ Len(buf) = Len(text)
      /\ arg \in 1..Len(buf) /\ buf[arg] \in Letter
  BY DEF ConfigInv, ScanTypes, ScanInv
<1> DEFINE a == Append(buf, x)
<1>2. /\ a \in Seq(Char \union {NUL}) /\ Len(a) = Len(buf) + 1
      /\ a[arg] \in Letter /\ Len(buf) \in Nat
  BY <1>1, AppendProperties, LenProperties
<1>3. b = Terminated(a, Len(buf) + 1)
  BY <1>1 DEF p
<1> HIDE DEF a
<1>4. QED
  BY <1>1, <1>2, <1>3, ArgumentIsWord

LEMMA ArgConfig ==
  ASSUME ConfigInv, NEW c \in Char, Arg(c)
  PROVE  ConfigInv'
<1>1. Reads(c) /\ state = "ARG" /\ UNCHANGED <<key, arg>>
  BY DEF Arg
<1>2. key \in Nat /\ arg \in Nat
  BY DEF ConfigInv, ScanTypes
<1>3. CASE c \in {NL, Hash} /\ buf' = Terminated(Append(buf, c), p)
           /\ state' = (IF c = NL THEN "PRE" ELSE "TAIL")
           /\ HandleKey(buf', "scan")
  <2>1. /\ at = "scan" /\ text' \in Word /\ Len(text') <= MaxChars
        /\ Len(text') = Len(text) + 1
    BY <1>1, ReadsTypes
  <2>2. /\ buf' \in Seq(Char \union {NUL}) /\ Len(buf') = Len(text) + 1
        /\ String(buf', arg) \in Word
    BY <1>1, <1>3, <2>1, ArgumentEnds
  <2>3. /\ ItemTypes' /\ StringsOwned' /\ NothingLeftBehind'
        /\ at' \in {"scan", "error"}
    BY <1>3, <2>2, HandleKeyOwned DEF ConfigInv
  <2>4. ScanTypes' /\ ScanInv'
    BY <1>1, <1>2, <1>3, <2>1, <2>2, <2>3 DEF ScanTypes, ScanInv
  <2>5. QED
    BY <2>3, <2>4 DEF ConfigInv
<1>4. CASE Consume(c) /\ Goes("ARG")
  <2>1. Goes(state') /\ state' = "ARG" /\ buf' = Append(buf, c)
    BY <1>4 DEF Goes, Consume
  <2>2. QED
    BY <1>1, <1>2, <2>1, PlainRead
<1>5. CASE Error(c)
  BY <1>1, <1>5, ErrorRead
<1>6. QED
  BY <1>3, <1>4, <1>5 DEF Arg

(***************************************************************************)
(* The end of the file.                                                    *)
(***************************************************************************)
LEMMA EndOfFileConfig ==
  ASSUME ConfigInv, EndOfFile
  PROVE  ConfigInv'
<1>1. at = "scan" /\ UNCHANGED <<text, state, key, arg>>
  BY DEF EndOfFile
<1>2. CASE state \in {"PRE", "TAIL"}
  <2>1. at' = "defaults" /\ UNCHANGED <<buf, settings>>
    BY <1>2 DEF EndOfFile
  <2>2. QED
    BY <1>1, <2>1 DEF ConfigInv, ScanTypes, ItemTypes, ScanInv, StringsOwned,
                      NothingLeftBehind
<1>3. CASE state \in {"KEY", "DIV"}
  <2>1. Failed /\ UNCHANGED buf
    BY <1>3 DEF EndOfFile
  <2>2. ItemTypes' /\ StringsOwned' /\ NothingLeftBehind' /\ at' = "error"
    BY <2>1, FailedOwned DEF ConfigInv
  <2>3. QED
    BY <1>1, <2>1, <2>2 DEF ConfigInv, ScanTypes, ScanInv
<1>4. CASE state = "ARG"
  <2>1. buf' = Terminated(Append(buf, NUL), p) /\ HandleKey(buf', "defaults")
    BY <1>4 DEF EndOfFile
  <2>2. buf' \in Seq(Char \union {NUL}) /\ String(buf', arg) \in Word
    BY <1>1, <1>4, <2>1, ArgumentEnds
  <2>3. /\ ItemTypes' /\ StringsOwned' /\ NothingLeftBehind'
        /\ at' \in {"defaults", "error"}
    BY <2>1, <2>2, HandleKeyOwned DEF ConfigInv
  <2>4. QED
    BY <1>1, <2>2, <2>3 DEF ConfigInv, ScanTypes, ScanInv
<1>5. QED
  BY <1>2, <1>3, <1>4 DEF ConfigInv, ScanTypes

LEMMA DefaultConfig ==
  ASSUME ConfigInv, Default
  PROVE  ConfigInv'
<1> DEFINE open == Place \ initialized
           next == CHOOSE i \in open : \A j \in open : i <= j
<1>1. at = "defaults" /\ UNCHANGED scanner
  BY DEF Default
<1>2. CASE open = {}
  <2>1. at' = "ok" /\ UNCHANGED settings
    BY <1>2 DEF Default
  <2>2. QED
    BY <1>1, <2>1 DEF ConfigInv, ScanTypes, ItemTypes, ScanInv, StringsOwned,
                      NothingLeftBehind
<1>3. CASE open # {}
  <2>1. next \in Place
    <3>1. open \in SUBSET Nat /\ open \subseteq Place
      BY Items
    <3>2. \E i \in open : \A j \in open : i <= j
      BY <1>3, <3>1, HasLeast
    <3> HIDE DEF open
    <3>3. next \in open
      BY <3>2
    <3>4. QED
      BY <3>1, <3>3
  <2>2. ProcessItem(next, Item[next].dflt) /\ UNCHANGED at
    BY <1>3 DEF Default
  <2> HIDE DEF next
  <2>3. Item[next].dflt \in Word
    BY <2>1, Items
  <2>4. ItemTypes' /\ StringsOwned'
    BY <2>1, <2>2, <2>3, ProcessItemOwned DEF ConfigInv
  <2>5. QED
    BY <1>1, <2>2, <2>4 DEF ConfigInv, ScanTypes, ScanInv, NothingLeftBehind
<1>4. QED
  BY <1>2, <1>3

LEMMA InitConfig ==
  ASSUME Init
  PROVE  ConfigInv
<1>1. {i \in Place : Item[i].plain /\ value[i] # Unset} = {}
  BY DEF Init
<1>2. /\ strings = 0 /\ lost = 0 /\ initialized = {}
      /\ \A i \in Place : value[i] = Unset
  BY DEF Init
<1>3. StringsOwned
  BY <1>1, <1>2, FS_EmptySet DEF StringsOwned
<1>4. ScanTypes /\ ScanInv
  BY ConfigAssumption DEF Init, ScanTypes, ScanInv, Word
<1>5. ItemTypes /\ NothingLeftBehind
  BY DEF Init, ItemTypes, NothingLeftBehind
<1>6. QED
  BY <1>3, <1>4, <1>5 DEF ConfigInv

(* Every step keeps the invariant.                                         *)
LEMMA NextConfig ==
  ASSUME ConfigInv, [Next]_vars
  PROVE  ConfigInv'
<1>1. CASE UNCHANGED vars
  BY <1>1 DEF ConfigInv, ScanTypes, ItemTypes, ScanInv, StringsOwned,
              NothingLeftBehind
<1>2. QED
  BY <1>1, PreConfig, KeyConfig, DivConfig, ArgConfig, CommentConfig,
     EndOfFileConfig, DefaultConfig DEF Next

(***************************************************************************)
(* The theorems.                                                           *)
(***************************************************************************)

(* What the scanner and the table of items are at every character.         *)
THEOREM ConfigInvariant == Spec => []ConfigInv
<1>1. Init => ConfigInv
  BY InitConfig
<1>2. ConfigInv /\ [Next]_vars => ConfigInv'
  BY NextConfig
<1>3. QED
  BY <1>1, <1>2, PTL DEF Spec

(* The variables have their types; in particular every value that an item  *)
(* is given is a word of the file, without the zeros put into it.          *)
THEOREM TypeCorrect == Spec => []TypeOK
<1>1. ConfigInv => TypeOK
  BY DEF ConfigInv, ScanTypes, ItemTypes, TypeOK
<1>2. QED
  BY <1>1, ConfigInvariant, PTL

(* Every string of a configuration has one owner that a cleanup finds, or  *)
(* was replaced by a later line.                                           *)
THEOREM StringsHaveOwners == Spec => []StringsOwned
<1>1. ConfigInv => StringsOwned
  BY DEF ConfigInv
<1>2. QED
  BY <1>1, ConfigInvariant, PTL

(* rie_conf_cleanup() after a parse that failed takes back all that was    *)
(* set, wherever in the file the error is.                                 *)
THEOREM RefusedFileLeavesNothing == Spec => []NothingLeftBehind
<1>1. ConfigInv => NothingLeftBehind
  BY DEF ConfigInv
<1>2. QED
  BY <1>1, ConfigInvariant, PTL

(***************************************************************************)
(* What has been read.  The lines of a file w and what is in a line, as in *)
(* ReadsLines.                                                             *)
(***************************************************************************)
StartsOf(w)   == {1} \union {i + 1 : i \in {j \in DOMAIN w : w[j] = NL}}
LineOf(w, s)  == Trimmed(Until(Until(From(w, s), {NL}), {Hash}))
KeyIn(line)   == Until(line, {Blank})
ValueIn(line) == Trimmed(From(line, Len(KeyIn(line)) + 1))
FineLine(line) ==
  /\ Odd \notin {line[i] : i \in DOMAIN line}
  /\ ValueIn(line) # <<>>
  /\ \E i \in Place : KeyIn(line) = Item[i].name /\ Accepts(i, ValueIn(line))

(* Those of the lines beginning at S that name an item.                    *)
Naming(w, S, i) ==
  {s \in S : LineOf(w, s) # <<>> /\ KeyIn(LineOf(w, s)) = Item[i].name}

(* The lines beginning at S are in order, and nothing but them is in the   *)
(* settings v and the table, where the items of marked are set.            *)
Done(w, S, v, marked) ==
  /\ \A s \in S : LineOf(w, s) # <<>> => FineLine(LineOf(w, s))
  /\ \A i \in Place :
       IF Naming(w, S, i) = {} THEN v[i] = Unset /\ i \notin marked
       ELSE /\ v[i] = ValueIn(LineOf(w, Greatest(Naming(w, S, i))))
            /\ i \in marked

(* The line that is being read begins at s.                                *)
Current(w, s) ==
  /\ s \in StartsOf(w) /\ s \in 1..(Len(w) + 1)
  /\ \A t \in StartsOf(w) : t <= s
  /\ \A j \in s..Len(w) : w[j] # NL

(* The key of the line that begins at s ends before k.                     *)
KeyEnds(s, k) ==
  /\ key \in s..(k - 1) /\ k <= Len(text) + 1
  /\ \A j \in s..(key - 1) : text[j] = Blank
  /\ \A j \in key..(k - 1) : text[j] \in Letter /\ buf[j] = text[j]

(* A zero ends the key, and blanks follow it up to a.                      *)
KeyDone(s, k, a) ==
  /\ KeyEnds(s, k) /\ k \in 1..a /\ a <= Len(text) /\ buf[k] = NUL
  /\ \A j \in k..a : text[j] = Blank

(* The argument has begun behind those blanks.                             *)
ArgBegun(s, k) ==
  /\ KeyDone(s, k, arg - 1) /\ arg \in 2..Len(text) /\ text[arg] \in Letter
  /\ \A j \in arg..Len(text) : text[j] \in Letter \union {Blank} /\ buf[j] = text[j]

(* How far the line that begins at s has been read.                        *)
LineOpen(s) ==
  \/ state = "PRE" /\ \A j \in s..Len(text) : text[j] = Blank
  \/ state = "KEY" /\ KeyEnds(s, Len(text) + 1)
  \/ state = "DIV" /\ \E k \in 1..Len(text) : KeyDone(s, k, Len(text))
  \/ state = "ARG" /\ \E k \in 1..Len(text) : ArgBegun(s, k)

ScanLines == at = "scan" =>
  \E s \in StartsOf(text) :
    /\ Current(text, s)
    /\ \/ /\ LineOpen(s)
          /\ Done(text, StartsOf(text) \ {s}, value, initialized)
       \/ /\ state = "TAIL" /\ \E j \in s..Len(text) : text[j] = Hash
          /\ Done(text, StartsOf(text), value, initialized)

(* The lines are in order, and every item that is set has the value of the *)
(* last line that names it, or its default.                                *)
Defaulted == at \in {"defaults", "ok"} =>
  /\ \A s \in StartsOf(text) :
       LineOf(text, s) # <<>> => FineLine(LineOf(text, s))
  /\ \A i \in Place :
       LET N == Naming(text, StartsOf(text), i)
       IN  IF N # {} THEN value[i] = ValueIn(LineOf(text, Greatest(N)))
           ELSE i \in initialized => value[i] = Item[i].dflt
  /\ \A i \in Place : Naming(text, StartsOf(text), i) # {} => i \in initialized
  /\ at = "ok" => initialized = Place

Refused == at = "error" =>
  \E s \in StartsOf(text) :
    LineOf(text, s) # <<>> /\ ~FineLine(LineOf(text, s))

LinesInv == ScanLines /\ Defaulted /\ Refused

(***************************************************************************)
(* Lemmas about pieces of a word.                                          *)
(***************************************************************************)

(* The least and the greatest number of a set.                             *)
LEMMA LeastIs ==
  ASSUME NEW T \in SUBSET Nat, NEW x \in T, \A y \in T : x <= y
  PROVE  Least(T) = x
<1>1. Least(T) \in T /\ \A y \in T : Least(T) <= y
  BY DEF Least
<1>2. Least(T) <= x /\ x <= Least(T) /\ Least(T) \in Nat
  BY <1>1
<1>3. QED
  BY <1>2

LEMMA GreatestIs ==
  ASSUME NEW T \in SUBSET Nat, NEW x \in T, \A y \in T : y <= x
  PROVE  Greatest(T) = x
<1>1. Greatest(T) \in T /\ \A y \in T : y <= Greatest(T)
  BY DEF Greatest
<1>2. Greatest(T) <= x /\ x <= Greatest(T) /\ Greatest(T) \in Nat
  BY <1>1
<1>3. QED
  BY <1>2

(* A piece of a word.                                                      *)
LEMMA Piece ==
  ASSUME NEW w \in Word, NEW s \in 1..(Len(w) + 1), NEW m \in (s - 1)..Len(w)
  PROVE  /\ SubSeq(w, s, m) \in Word /\ Len(SubSeq(w, s, m)) = m - s + 1
         /\ DOMAIN SubSeq(w, s, m) = 1..(m - s + 1)
         /\ \A i \in 1..(m - s + 1) :
              SubSeq(w, s, m)[i] = w[s + i - 1] /\ s + i - 1 \in s..m
         /\ Len(w) \in Nat /\ s \in Nat /\ m \in Nat
<1>1. w \in Seq(Char) /\ Len(w) \in Nat
  BY LenProperties DEF Word
<1>2. \A i \in s..m : w[i] \in Char
  <2>1. \A i \in s..m : i \in 1..Len(w)
    BY <1>1
  <2>2. QED
    BY <1>1, <2>1, ElementOfSeq
<1>3. s \in Int /\ m \in Int /\ m - s + 1 >= 0 /\ m >= 0
  BY <1>1
<1>4. /\ SubSeq(w, s, m) \in Seq(Char)
      /\ Len(SubSeq(w, s, m)) = IF s <= m THEN m - s + 1 ELSE 0
      /\ \A i \in 1..(m - s + 1) : SubSeq(w, s, m)[i] = w[s + i - 1]
  BY <1>2, <1>3, SubSeqProperties
<1>5. Len(SubSeq(w, s, m)) = m - s + 1
  BY <1>3, <1>4
<1>6. \A i \in 1..(m - s + 1) : s + i - 1 \in s..m
  BY <1>3
<1>7. DOMAIN SubSeq(w, s, m) = 1..Len(SubSeq(w, s, m))
  BY <1>4, LenProperties
<1>8. QED
  BY <1>1, <1>3, <1>4, <1>5, <1>6, <1>7 DEF Word

(* A piece of a piece.                                                     *)
LEMMA PieceOfPiece ==
  ASSUME NEW w \in Word, NEW s \in 1..(Len(w) + 1), NEW m \in (s - 1)..Len(w),
         NEW x \in s..(m + 1), NEW y \in (x - 1)..m
  PROVE  SubSeq(SubSeq(w, s, m), x - s + 1, y - s + 1) = SubSeq(w, x, y)
<1> DEFINE u == SubSeq(w, s, m)
           v == SubSeq(u, x - s + 1, y - s + 1)
           z == SubSeq(w, x, y)
<1>1. /\ u \in Word /\ Len(u) = m - s + 1
      /\ \A i \in 1..(m - s + 1) : u[i] = w[s + i - 1]
      /\ Len(w) \in Nat /\ s \in Nat /\ m \in Nat
  BY Piece
<1>2. /\ x \in 1..(Len(w) + 1) /\ y \in (x - 1)..Len(w)
      /\ x - s + 1 \in 1..(Len(u) + 1)
      /\ y - s + 1 \in ((x - s + 1) - 1)..Len(u)
      /\ (y - s + 1) - (x - s + 1) + 1 = y - x + 1
      /\ x \in Int /\ y \in Int
  BY <1>1
<1>3. /\ z \in Word /\ Len(z) = y - x + 1
      /\ \A i \in 1..(y - x + 1) : z[i] = w[x + i - 1]
  BY <1>2, Piece
<1> HIDE DEF u
<1>4. /\ v \in Word /\ Len(v) = (y - s + 1) - (x - s + 1) + 1
      /\ \A i \in 1..((y - s + 1) - (x - s + 1) + 1) : v[i] = u[(x - s + 1) + i - 1]
  BY <1>1, <1>2, Piece
<1> HIDE DEF v, z
<1>5. ASSUME NEW i \in 1..(y - x + 1)
      PROVE  v[i] = z[i]
  <2>1. v[i] = u[(x - s + 1) + i - 1] /\ z[i] = w[x + i - 1]
    BY <1>2, <1>3, <1>4
  <2>2. /\ (x - s + 1) + i - 1 \in 1..(m - s + 1)
        /\ s + ((x - s + 1) + i - 1) - 1 = x + i - 1
    BY <1>1, <1>2
  <2>3. u[(x - s + 1) + i - 1] = w[x + i - 1]
    BY <1>1, <2>2
  <2>4. QED
    BY <2>1, <2>3
<1>6. v \in Seq(Char) /\ z \in Seq(Char) /\ Len(v) = Len(z) /\ Len(v) = y - x + 1
  BY <1>2, <1>3, <1>4 DEF Word
<1>7. v = z
  BY <1>5, <1>6, SeqEqual
<1>8. QED
  BY <1>7 DEF u, v, z

(* A piece up to its first stop.                                           *)
LEMMA UntilPiece ==
  ASSUME NEW w \in Word, NEW s \in 1..(Len(w) + 1), NEW m \in (s - 1)..Len(w),
         NEW stops, NEW f \in s..(m + 1), \A j \in s..(f - 1) : w[j] \notin stops,
         f = m + 1 \/ w[f] \in stops
  PROVE  Until(SubSeq(w, s, m), stops) = SubSeq(w, s, f - 1)
<1> DEFINE u == SubSeq(w, s, m)
           T == {i \in DOMAIN u : u[i] \in stops} \union {Len(u) + 1}
<1>1. /\ Len(u) = m - s + 1 /\ DOMAIN u = 1..(m - s + 1)
      /\ \A i \in 1..(m - s + 1) : u[i] = w[s + i - 1] /\ s + i - 1 \in s..m
      /\ Len(w) \in Nat /\ s \in Nat /\ m \in Nat
  BY Piece
<1>2. f \in Int /\ f - s + 1 \in Nat /\ s + (f - s + 1) - 1 = f /\ f - s = (f - 1) - s + 1
  BY <1>1
<1>3. Until(u, stops) = SubSeq(u, 1, Least(T) - 1)
  BY DEF Until
<1> HIDE DEF u
<1>4. T \in SUBSET Nat
  BY <1>1
<1>5. f - s + 1 \in T
  <2>1. CASE f = m + 1
    BY <1>1, <2>1
  <2>2. CASE f # m + 1 /\ w[f] \in stops
    <3>1. f - s + 1 \in 1..(m - s + 1)
      BY <1>1, <1>2, <2>2
    <3>2. u[f - s + 1] = w[f]
      BY <1>1, <1>2, <3>1
    <3>3. QED
      BY <1>1, <2>2, <3>1, <3>2
  <2>3. QED
    BY <2>1, <2>2
<1>6. ASSUME NEW i \in T
      PROVE  f - s + 1 <= i
  <2>1. CASE i = Len(u) + 1
    BY <1>1, <1>2, <2>1
  <2>2. CASE i # Len(u) + 1
    <3>1. i \in 1..(m - s + 1) /\ w[s + i - 1] \in stops
      BY <1>1, <2>2
    <3>2. s + i - 1 \notin s..(f - 1)
      BY <3>1
    <3>3. QED
      BY <1>1, <1>2, <3>1, <3>2
  <2>3. QED
    BY <2>1, <2>2
<1> HIDE DEF T
<1>7. Least(T) = f - s + 1
  BY <1>4, <1>5, <1>6, LeastIs
<1>8. Least(T) - 1 = (f - 1) - s + 1 /\ s - s + 1 = 1
  BY <1>1, <1>2, <1>7
<1>9. SubSeq(u, s - s + 1, (f - 1) - s + 1) = SubSeq(w, s, f - 1)
  <2>1. s \in s..(m + 1) /\ f - 1 \in (s - 1)..m
    BY <1>1, <1>2
  <2>2. QED
    BY <2>1, PieceOfPiece DEF u
<1>10. QED
  BY <1>3, <1>8, <1>9 DEF u

(* A piece without the blanks at its ends,                                 *)
LEMMA TrimmedPiece ==
  ASSUME NEW w \in Word, NEW s \in 1..(Len(w) + 1), NEW m \in (s - 1)..Len(w),
         NEW x \in s..m, NEW y \in x..m, w[x] # Blank, w[y] # Blank,
         \A j \in s..(x - 1) : w[j] = Blank, \A j \in (y + 1)..m : w[j] = Blank
  PROVE  Trimmed(SubSeq(w, s, m)) = SubSeq(w, x, y)
<1> DEFINE u     == SubSeq(w, s, m)
           solid == {i \in DOMAIN u : u[i] # Blank}
<1>1. /\ Len(u) = m - s + 1 /\ DOMAIN u = 1..(m - s + 1)
      /\ \A i \in 1..(m - s + 1) : u[i] = w[s + i - 1] /\ s + i - 1 \in s..m
      /\ Len(w) \in Nat /\ s \in Nat /\ m \in Nat
  BY Piece
<1>2. Trimmed(u) = IF solid = {} THEN <<>>
                   ELSE SubSeq(u, Least(solid), Greatest(solid))
  BY DEF Trimmed
<1> HIDE DEF u
<1>3. /\ x - s + 1 \in 1..(m - s + 1) /\ s + (x - s + 1) - 1 = x
      /\ y - s + 1 \in 1..(m - s + 1) /\ s + (y - s + 1) - 1 = y
      /\ x \in Int /\ y \in Int
  BY <1>1
<1>4. u[x - s + 1] = w[x] /\ u[y - s + 1] = w[y]
  BY <1>1, <1>3
<1>5. x - s + 1 \in solid /\ y - s + 1 \in solid /\ solid \in SUBSET Nat
  BY <1>1, <1>3, <1>4
<1>6. ASSUME NEW i \in solid
      PROVE  x - s + 1 <= i /\ i <= y - s + 1
  <2>1. i \in 1..(m - s + 1) /\ w[s + i - 1] # Blank /\ s + i - 1 \in s..m
    BY <1>1
  <2>2. s + i - 1 \notin s..(x - 1) /\ s + i - 1 \notin (y + 1)..m
    BY <2>1
  <2>3. QED
    BY <1>1, <1>3, <2>1, <2>2
<1> HIDE DEF solid
<1>7. Least(solid) = x - s + 1 /\ Greatest(solid) = y - s + 1
  BY <1>5, <1>6, LeastIs, GreatestIs
<1>8. Trimmed(u) = SubSeq(u, x - s + 1, y - s + 1)
  BY <1>2, <1>5, <1>7
<1>9. x \in s..(m + 1) /\ y \in (x - 1)..m
  BY <1>1, <1>3
<1>10. QED
  BY <1>8, <1>9, PieceOfPiece DEF u

(* of which a blank piece leaves nothing.                                  *)
LEMMA TrimmedBlank ==
  ASSUME NEW w \in Word, NEW s \in 1..(Len(w) + 1), NEW m \in (s - 1)..Len(w),
         \A j \in s..m : w[j] = Blank
  PROVE  Trimmed(SubSeq(w, s, m)) = <<>>
<1>1. {i \in DOMAIN SubSeq(w, s, m) : SubSeq(w, s, m)[i] # Blank} = {}
  BY Piece
<1>2. QED
  BY <1>1 DEF Trimmed

(***************************************************************************)
(* Lemmas about lines, by the places where their parts begin and end.      *)
(***************************************************************************)

(* The line that begins at s ends before e: with a newline, with a comment *)
(* or with the file.                                                       *)
LineEnds(w, s, e) ==
  /\ s \in 1..(Len(w) + 1) /\ e \in s..(Len(w) + 1)
  /\ \A j \in s..(e - 1) : w[j] \notin {NL, Hash}
  /\ e = Len(w) + 1 \/ w[e] \in {NL, Hash}

LEMMA LinePiece ==
  ASSUME NEW w \in Word, NEW s, NEW e, LineEnds(w, s, e)
  PROVE  LineOf(w, s) = Trimmed(SubSeq(w, s, e - 1))
<1>1. Len(w) \in Nat
  BY LenProperties DEF Word
<1>2. /\ s \in 1..(Len(w) + 1) /\ e \in s..(Len(w) + 1)
      /\ \A j \in s..(e - 1) : w[j] \notin {NL, Hash}
      /\ e = Len(w) + 1 \/ w[e] \in {NL, Hash}
      /\ s \in Nat /\ e \in Nat
  BY <1>1 DEF LineEnds
<1> DEFINE T == {j \in e..Len(w) : w[j] = NL} \union {Len(w) + 1}
<1>3. T \in SUBSET Nat /\ T # {}
  BY <1>1, <1>2
<1>4. PICK f \in T : \A g \in T : f <= g
  <2> HIDE DEF T
  <2>1. QED
    BY <1>3, HasLeast
<1>5. f \in e..(Len(w) + 1) /\ (f = Len(w) + 1 \/ w[f] = NL)
  BY <1>1, <1>2
<1>6. ASSUME NEW j \in s..(f - 1)
      PROVE  w[j] \notin {NL}
  <2>1. j \in s..(e - 1) \/ (j \in e..Len(w) /\ j < f)
    BY <1>1, <1>2, <1>5
  <2>2. QED
    BY <1>2, <1>4, <2>1
<1>7. Until(From(w, s), {NL}) = SubSeq(w, s, f - 1)
  <2>1. /\ Len(w) \in (s - 1)..Len(w) /\ f \in s..(Len(w) + 1)
        /\ f = Len(w) + 1 \/ w[f] \in {NL}
    BY <1>1, <1>2, <1>5
  <2>2. QED
    BY <1>2, <1>6, <2>1, UntilPiece DEF From
<1>8. Until(SubSeq(w, s, f - 1), {Hash}) = SubSeq(w, s, e - 1)
  <2>1. f - 1 \in (s - 1)..Len(w) /\ e \in s..((f - 1) + 1)
    BY <1>1, <1>2, <1>5
  <2>2. e = (f - 1) + 1 \/ w[e] \in {Hash}
    <3>1. e = f \/ e \in s..(f - 1)
      BY <1>2, <1>5
    <3>2. CASE e \in s..(f - 1)
      <4>1. e # Len(w) + 1
        BY <1>1, <1>5, <3>2
      <4>2. w[e] \in {NL, Hash} /\ w[e] \notin {NL}
        BY <1>2, <1>6, <3>2, <4>1
      <4>3. QED
        BY <4>2
    <3>3. QED
      BY <1>2, <3>1, <3>2
  <2>3. \A j \in s..(e - 1) : w[j] \notin {Hash}
    BY <1>2
  <2>4. QED
    BY <1>2, <2>1, <2>2, <2>3, UntilPiece
<1>9. QED
  BY <1>7, <1>8 DEF LineOf

(* A line that has ended stays as it is.                                   *)
LEMMA SameLine ==
  ASSUME NEW w \in Word, NEW c \in Char, NEW s \in 1..(Len(w) + 1),
         NEW q \in s..Len(w), w[q] \in {NL, Hash}
  PROVE  LineOf(Append(w, c), s) = LineOf(w, s)
<1> DEFINE u == Append(w, c)
           T == {j \in s..Len(w) : w[j] \in {NL, Hash}}
<1>1. /\ Len(w) \in Nat /\ u \in Word /\ Len(u) = Len(w) + 1
      /\ \A j \in 1..Len(w) : u[j] = w[j]
  BY LenProperties, AppendProperties DEF Word
<1> HIDE DEF u
<1>2. T \in SUBSET Nat /\ T # {}
  BY <1>1
<1>3. PICK e \in T : \A g \in T : e <= g
  <2> HIDE DEF T
  <2>1. QED
    BY <1>2, HasLeast
<1>4. /\ e \in s..Len(w) /\ w[e] \in {NL, Hash}
      /\ \A j \in s..(e - 1) : w[j] \notin {NL, Hash}
  <2>1. ASSUME NEW j \in s..(e - 1)
        PROVE  w[j] \notin {NL, Hash}
    <3>1. j \in s..Len(w) /\ j < e
      BY <1>1
    <3>2. QED
      BY <1>3, <3>1
  <2>2. QED
    BY <2>1
<1> HIDE DEF T
<1>5. LineEnds(w, s, e)
  BY <1>1, <1>4 DEF LineEnds
<1>6. LineEnds(u, s, e)
  BY <1>1, <1>4 DEF LineEnds
<1>7. SubSeq(u, s, e - 1) = SubSeq(w, s, e - 1)
  <2>1. /\ e - 1 \in (s - 1)..Len(w) /\ s \in 1..(Len(u) + 1)
        /\ e - 1 \in (s - 1)..Len(u)
        /\ \A i \in s..(e - 1) : i \in 1..Len(w)
    BY <1>1, <1>4
  <2>2. /\ SubSeq(u, s, e - 1) \in Seq(Char) /\ SubSeq(w, s, e - 1) \in Seq(Char)
        /\ Len(SubSeq(u, s, e - 1)) = (e - 1) - s + 1
        /\ Len(SubSeq(w, s, e - 1)) = (e - 1) - s + 1
        /\ \A i \in 1..((e - 1) - s + 1) :
             /\ SubSeq(u, s, e - 1)[i] = u[s + i - 1]
             /\ SubSeq(w, s, e - 1)[i] = w[s + i - 1]
             /\ s + i - 1 \in s..(e - 1)
    BY <1>1, <2>1, Piece DEF Word
  <2>3. \A i \in 1..((e - 1) - s + 1) :
          SubSeq(u, s, e - 1)[i] = SubSeq(w, s, e - 1)[i]
    BY <1>1, <2>1, <2>2
  <2>4. QED
    BY <2>2, <2>3, SeqEqual
<1>8. LineOf(u, s) = LineOf(w, s)
  BY <1>1, <1>5, <1>6, <1>7, LinePiece
<1>9. QED
  BY <1>8 DEF u

(* A line with nothing but blanks.                                         *)
LEMMA BlankLine ==
  ASSUME NEW w \in Word, NEW s, NEW e, LineEnds(w, s, e),
         \A j \in s..(e - 1) : w[j] = Blank
  PROVE  LineOf(w, s) = <<>>
<1>1. Len(w) \in Nat
  BY LenProperties DEF Word
<1>2. s \in 1..(Len(w) + 1) /\ e - 1 \in (s - 1)..Len(w)
  BY <1>1 DEF LineEnds
<1>3. QED
  BY <1>2, LinePiece, TrimmedBlank

(* A line without the blanks at its ends.                                  *)
LEMMA TrimmedLine ==
  ASSUME NEW w \in Word, NEW s, NEW e, LineEnds(w, s, e),
         NEW x \in s..(e - 1), NEW y \in x..(e - 1), w[x] # Blank, w[y] # Blank,
         \A j \in s..(x - 1) : w[j] = Blank, \A j \in (y + 1)..(e - 1) : w[j] = Blank
  PROVE  LineOf(w, s) = SubSeq(w, x, y)
<1> DEFINE m == e - 1
<1>1. Len(w) \in Nat
  BY LenProperties DEF Word
<1>2. s \in 1..(Len(w) + 1) /\ m \in (s - 1)..Len(w)
  BY <1>1 DEF LineEnds
<1>3. LineOf(w, s) = Trimmed(SubSeq(w, s, m))
  BY LinePiece
<1>4. /\ x \in s..m /\ y \in x..m
      /\ \A j \in s..(x - 1) : w[j] = Blank
      /\ \A j \in (y + 1)..m : w[j] = Blank
  OBVIOUS
<1> HIDE DEF m
<1>5. Trimmed(SubSeq(w, s, m)) = SubSeq(w, x, y)
  BY <1>2, <1>4, TrimmedPiece
<1>6. QED
  BY <1>3, <1>5

(* A line with a key at x, which ends before k, and with a value from a to *)
(* y.                                                                      *)
LineParts(w, s, e, x, k, a, y) ==
  /\ LineEnds(w, s, e)
  /\ x \in s..(e - 1) /\ y \in x..(e - 1) /\ a \in x..y /\ k \in (x + 1)..a /\ k < a
  /\ \A j \in s..(x - 1) : w[j] = Blank
  /\ \A j \in x..(k - 1) : w[j] # Blank
  /\ \A j \in k..(a - 1) : w[j] = Blank
  /\ w[a] # Blank /\ w[y] # Blank
  /\ \A j \in (y + 1)..(e - 1) : w[j] = Blank

LEMMA FullLine ==
  ASSUME NEW w \in Word, NEW s, NEW e, NEW x, NEW k, NEW a, NEW y,
         LineParts(w, s, e, x, k, a, y)
  PROVE  /\ LineOf(w, s) = SubSeq(w, x, y)
         /\ KeyIn(LineOf(w, s)) = SubSeq(w, x, k - 1)
         /\ ValueIn(LineOf(w, s)) = SubSeq(w, a, y)
<1>1. /\ LineEnds(w, s, e)
      /\ x \in s..(e - 1) /\ y \in x..(e - 1) /\ a \in x..y /\ k \in (x + 1)..a /\ k < a
      /\ \A j \in s..(x - 1) : w[j] = Blank
      /\ \A j \in x..(k - 1) : w[j] # Blank
      /\ \A j \in k..(a - 1) : w[j] = Blank
      /\ w[a] # Blank /\ w[y] # Blank
      /\ \A j \in (y + 1)..(e - 1) : w[j] = Blank
  BY DEF LineParts
<1>2. Len(w) \in Nat
  BY LenProperties DEF Word
<1>3. /\ s \in 1..(Len(w) + 1) /\ e \in s..(Len(w) + 1)
      /\ e - 1 \in (s - 1)..Len(w)
  BY <1>1, <1>2 DEF LineEnds
<1>4. /\ s \in Nat /\ e \in Nat /\ x \in Nat /\ y \in Nat /\ a \in Nat /\ k \in Nat
      /\ s <= x /\ x < k /\ k < a /\ a <= y /\ y < e /\ 1 <= s /\ e <= Len(w) + 1
  BY <1>1, <1>2, <1>3
<1> DEFINE line == LineOf(w, s)
<1>5. line = SubSeq(w, x, y)
  <2>1. w[x] # Blank
    BY <1>1, <1>4
  <2>2. QED
    BY <1>1, <2>1, TrimmedLine
<1>6. KeyIn(line) = SubSeq(w, x, k - 1)
  <2>1. /\ x \in 1..(Len(w) + 1) /\ y \in (x - 1)..Len(w) /\ k \in x..(y + 1)
        /\ \A j \in x..(k - 1) : w[j] \notin {Blank}
        /\ w[k] \in {Blank}
    BY <1>1, <1>2, <1>4
  <2> HIDE DEF line
  <2>2. Until(SubSeq(w, x, y), {Blank}) = SubSeq(w, x, k - 1)
    BY <2>1, UntilPiece
  <2>3. QED
    BY <1>5, <2>2 DEF KeyIn
<1>7. ValueIn(line) = Trimmed(SubSeq(w, k, y))
  <2>1. /\ x \in 1..(Len(w) + 1) /\ y \in (x - 1)..Len(w)
        /\ k - 1 \in (x - 1)..Len(w)
        /\ k \in x..(y + 1) /\ y \in (k - 1)..y
    BY <1>2, <1>4
  <2>2. Len(SubSeq(w, x, k - 1)) = (k - 1) - x + 1 /\ Len(SubSeq(w, x, y)) = y - x + 1
    BY <2>1, Piece
  <2>3. (k - 1) - x + 1 + 1 = k - x + 1
    BY <1>4
  <2>4. SubSeq(SubSeq(w, x, y), k - x + 1, y - x + 1) = SubSeq(w, k, y)
    BY <2>1, PieceOfPiece
  <2> HIDE DEF line
  <2>5. QED
    BY <1>5, <1>6, <2>2, <2>3, <2>4 DEF ValueIn, From
<1>8. Trimmed(SubSeq(w, k, y)) = SubSeq(w, a, y)
  <2>1. /\ k \in 1..(Len(w) + 1) /\ y \in (k - 1)..Len(w)
        /\ a \in k..y /\ y \in a..y
        /\ \A j \in (y + 1)..y : w[j] = Blank
    BY <1>2, <1>4
  <2>2. QED
    BY <1>1, <2>1, TrimmedPiece
<1>9. QED
  BY <1>5, <1>6, <1>7, <1>8

(* A line with a key and no value.                                         *)
LEMMA LoneKey ==
  ASSUME NEW w \in Word, NEW s, NEW e, LineEnds(w, s, e),
         NEW x \in s..(e - 1), NEW k \in (x + 1)..e,
         \A j \in s..(x - 1) : w[j] = Blank,
         \A j \in x..(k - 1) : w[j] # Blank,
         \A j \in k..(e - 1) : w[j] = Blank
  PROVE  LineOf(w, s) # <<>> /\ ~FineLine(LineOf(w, s))
<1>1. Len(w) \in Nat
  BY LenProperties DEF Word
<1>2. /\ s \in 1..(Len(w) + 1) /\ e \in s..(Len(w) + 1)
      /\ e - 1 \in (s - 1)..Len(w)
  BY <1>1 DEF LineEnds
<1>3. /\ s \in Nat /\ e \in Nat /\ x \in Nat /\ k \in Nat
      /\ s <= x /\ x < k /\ k <= e /\ 1 <= s /\ e <= Len(w) + 1
  BY <1>1, <1>2
<1> DEFINE line == LineOf(w, s)
<1>4. line = SubSeq(w, x, k - 1)
  <2>1. /\ k - 1 \in x..(e - 1) /\ w[x] # Blank /\ w[k - 1] # Blank
        /\ (k - 1) + 1 = k
    BY <1>3
  <2>2. QED
    BY <2>1, TrimmedLine
<1>5. /\ x \in 1..(Len(w) + 1) /\ k - 1 \in (x - 1)..Len(w)
      /\ k \in x..((k - 1) + 1) /\ k = (k - 1) + 1 /\ k - 1 \in (k - 1)..(k - 1)
      /\ k \in 1..(Len(w) + 1) /\ (k - 1) - x + 1 # 0
      /\ \A j \in k..(k - 1) : w[j] = Blank
  BY <1>1, <1>3
<1>6. Len(SubSeq(w, x, k - 1)) = (k - 1) - x + 1
  BY <1>5, Piece
<1>7. KeyIn(line) = SubSeq(w, x, k - 1)
  <2>1. \A j \in x..(k - 1) : w[j] \notin {Blank}
    OBVIOUS
  <2> HIDE DEF line
  <2>2. Until(SubSeq(w, x, k - 1), {Blank}) = SubSeq(w, x, k - 1)
    BY <1>5, <2>1, UntilPiece
  <2>3. QED
    BY <1>4, <2>2 DEF KeyIn
<1>8. ValueIn(line) = <<>>
  <2>1. SubSeq(SubSeq(w, x, k - 1), k - x + 1, (k - 1) - x + 1) = SubSeq(w, k, k - 1)
    BY <1>5, PieceOfPiece
  <2>2. Trimmed(SubSeq(w, k, k - 1)) = <<>>
    <3>1. k - 1 \in (k - 1)..Len(w)
      BY <1>1, <1>3
    <3>2. QED
      BY <1>5, <3>1, TrimmedBlank
  <2>3. (k - 1) - x + 1 + 1 = k - x + 1
    BY <1>3
  <2> HIDE DEF line
  <2>4. QED
    BY <1>4, <1>6, <1>7, <2>1, <2>2, <2>3 DEF ValueIn, From
<1>9. line # <<>>
  <2>1. Len(<<>>) = 0
    OBVIOUS
  <2> HIDE DEF line
  <2>2. QED
    BY <1>4, <1>5, <1>6, <2>1
<1>10. QED
  BY <1>8, <1>9 DEF FineLine

(* A line with a character that is refused.                                *)
LEMMA OddLine ==
  ASSUME NEW w \in Word, NEW s, NEW e, LineEnds(w, s, e),
         NEW q \in s..(e - 1), w[q] = Odd
  PROVE  LineOf(w, s) # <<>> /\ ~FineLine(LineOf(w, s))
<1>1. Len(w) \in Nat
  BY LenProperties DEF Word
<1>2. /\ s \in 1..(Len(w) + 1) /\ e \in s..(Len(w) + 1)
      /\ e - 1 \in (s - 1)..Len(w) /\ e - 1 \in Nat
  BY <1>1 DEF LineEnds
<1> DEFINE solid == {i \in s..(e - 1) : w[i] # Blank}
<1>3. q \in solid
  BY DEF Odd, Blank
<1>4. solid \in SUBSET Nat /\ solid \in SUBSET (1..(e - 1)) /\ solid # {}
  BY <1>2, <1>3
<1>5. PICK x \in solid : \A i \in solid : x <= i
  <2> HIDE DEF solid
  <2>1. QED
    BY <1>4, HasLeast
<1>6. PICK y \in solid : \A i \in solid : i <= y
  <2> HIDE DEF solid
  <2>1. QED
    BY <1>2, <1>4, HasGreatest
<1>7. /\ x \in s..(e - 1) /\ y \in x..(e - 1) /\ w[x] # Blank /\ w[y] # Blank
      /\ q \in x..y
  BY <1>2, <1>3, <1>5, <1>6
<1>8. ASSUME NEW j \in s..(e - 1), j < x \/ y < j
      PROVE  w[j] = Blank
  <2>1. j \notin solid
    BY <1>2, <1>5, <1>6, <1>7, <1>8
  <2>2. QED
    BY <2>1
<1> HIDE DEF solid
<1>9. LineOf(w, s) = SubSeq(w, x, y)
  <2>1. \A j \in s..(x - 1) : j \in s..(e - 1) /\ j < x
    BY <1>2, <1>7
  <2>2. \A j \in (y + 1)..(e - 1) : j \in s..(e - 1) /\ y < j
    BY <1>2, <1>7
  <2>3. QED
    BY <1>7, <1>8, <2>1, <2>2, TrimmedLine
<1>10. x \in 1..(Len(w) + 1) /\ y \in (x - 1)..Len(w)
  BY <1>1, <1>2, <1>7
<1>11. q - x + 1 \in 1..(y - x + 1) /\ x + (q - x + 1) - 1 = q /\ y - x + 1 # 0
  BY <1>1, <1>2, <1>7
<1>12. /\ DOMAIN SubSeq(w, x, y) = 1..(y - x + 1)
       /\ SubSeq(w, x, y)[q - x + 1] = Odd /\ Len(SubSeq(w, x, y)) # 0
  BY <1>10, <1>11, Piece
<1>13. q - x + 1 \in DOMAIN LineOf(w, s) /\ LineOf(w, s)[q - x + 1] = Odd
  BY <1>9, <1>11, <1>12
<1>14. LineOf(w, s) # <<>>
  <2>1. Len(<<>>) = 0
    OBVIOUS
  <2>2. QED
    BY <1>9, <1>12, <2>1
<1>15. QED
  BY <1>13, <1>14 DEF FineLine

(***************************************************************************)
(* Lemmas about the lines that have been read.                             *)
(***************************************************************************)

(* What the scanner tells apart is different.                              *)
LEMMA Characters ==
  /\ Blank \notin {NL, Hash, Odd, NUL} /\ NL \notin {Hash, Odd, NUL}
  /\ Hash \notin {Odd, NUL} /\ Odd # NUL
  /\ \A x \in Letter : x \notin {NL, Hash, Odd, NUL, Blank}
  /\ \A x \in Char : x # NUL
<1>1. /\ Blank \notin {NL, Hash, Odd, NUL} /\ NL \notin {Hash, Odd, NUL}
      /\ Hash \notin {Odd, NUL} /\ Odd # NUL
  BY DEF Blank, NL, Hash, Odd, NUL
<1>2. \A x \in Letter : x \notin {NL, Hash, Odd, NUL, Blank}
  BY ConfigAssumption
<1>3. QED
  BY <1>1, <1>2 DEF Char

(* Lines begin in the file or right behind it.                             *)
LEMMA StartsInFile ==
  ASSUME NEW w \in Word
  PROVE  /\ Len(w) \in Nat /\ DOMAIN w = 1..Len(w)
         /\ StartsOf(w) \subseteq 1..(Len(w) + 1) /\ StartsOf(w) \in SUBSET Nat
<1>1. Len(w) \in Nat /\ DOMAIN w = 1..Len(w)
  BY LenProperties DEF Word
<1>2. StartsOf(w) \subseteq 1..(Len(w) + 1)
  BY <1>1 DEF StartsOf
<1>3. QED
  BY <1>1, <1>2

(* The line that is read when a character has been read.                   *)
LEMMA NextStart ==
  ASSUME NEW w \in Word, NEW c \in Char, NEW s, Current(w, s)
  PROVE  /\ c = NL => /\ StartsOf(Append(w, c)) = StartsOf(w) \union {Len(w) + 2}
                      /\ Current(Append(w, c), Len(w) + 2)
         /\ c # NL => /\ StartsOf(Append(w, c)) = StartsOf(w)
                      /\ Current(Append(w, c), s)
<1> DEFINE u == Append(w, c)
<1>1. /\ Len(w) \in Nat /\ DOMAIN w = 1..Len(w) /\ StartsOf(w) \subseteq 1..(Len(w) + 1)
  BY StartsInFile
<1>2. /\ u \in Word /\ Len(u) = Len(w) + 1 /\ \A j \in 1..Len(w) : u[j] = w[j]
      /\ u[Len(w) + 1] = c
  BY AppendProperties DEF Word
<1>3. DOMAIN u = 1..(Len(w) + 1)
  BY <1>1, <1>2, StartsInFile
<1>4. /\ s \in StartsOf(w) /\ s \in 1..(Len(w) + 1)
      /\ \A t \in StartsOf(w) : t <= s
      /\ \A j \in s..Len(w) : w[j] # NL
  BY DEF Current
<1> HIDE DEF u
<1>5. {j \in DOMAIN u : u[j] = NL}
        = {j \in DOMAIN w : w[j] = NL} \union {j \in {Len(w) + 1} : c = NL}
  BY <1>1, <1>2, <1>3
<1>6. ASSUME c = NL
      PROVE  StartsOf(u) = StartsOf(w) \union {Len(w) + 2} /\ Current(u, Len(w) + 2)
  <2>1. {j \in DOMAIN u : u[j] = NL}
          = {j \in DOMAIN w : w[j] = NL} \union {Len(w) + 1}
    BY <1>5, <1>6
  <2>2. StartsOf(u) = StartsOf(w) \union {Len(w) + 1 + 1}
    BY <2>1 DEF StartsOf
  <2>3. Len(w) + 1 + 1 = Len(w) + 2
    BY <1>1
  <2>4. QED
    BY <1>1, <1>2, <2>2, <2>3 DEF Current
<1>7. ASSUME c # NL
      PROVE  StartsOf(u) = StartsOf(w) /\ Current(u, s)
  <2>1. {j \in DOMAIN u : u[j] = NL} = {j \in DOMAIN w : w[j] = NL}
    BY <1>5, <1>7
  <2>2. StartsOf(u) = StartsOf(w)
    BY <2>1 DEF StartsOf
  <2>3. \A j \in s..Len(u) : u[j] # NL
    <3>1. ASSUME NEW j \in s..Len(u)
          PROVE  u[j] # NL
      <4>1. j = Len(w) + 1 \/ (j \in s..Len(w) /\ j \in 1..Len(w))
        BY <1>1, <1>2, <1>4
      <4>2. QED
        BY <1>2, <1>4, <1>7, <4>1
    <3>2. QED
      BY <3>1
  <2>4. s \in 1..(Len(u) + 1)
    BY <1>1, <1>2, <1>4
  <2>5. QED
    BY <1>4, <2>2, <2>3, <2>4 DEF Current
<1>8. QED
  BY <1>6, <1>7 DEF u

(* The lines before the one that is read have ended.                       *)
LEMMA EarlierLines ==
  ASSUME NEW w \in Word, NEW c \in Char, NEW s, Current(w, s),
         NEW t \in StartsOf(w) \ {s}
  PROVE  t < s /\ LineOf(Append(w, c), t) = LineOf(w, t)
<1>1. /\ Len(w) \in Nat /\ DOMAIN w = 1..Len(w) /\ StartsOf(w) \subseteq 1..(Len(w) + 1)
  BY StartsInFile
<1>2. s \in StartsOf(w) /\ s \in 1..(Len(w) + 1) /\ t \in 1..(Len(w) + 1) /\ t < s
  BY <1>1 DEF Current
<1>3. s - 1 \in t..Len(w) /\ w[s - 1] = NL
  <2>1. s # 1
    BY <1>1, <1>2
  <2>2. PICK j \in 1..Len(w) : w[j] = NL /\ s = j + 1
    BY <1>1, <1>2, <2>1 DEF StartsOf
  <2>3. s - 1 = j
    BY <2>2
  <2>4. QED
    BY <1>1, <1>2, <2>2, <2>3
<1>4. QED
  BY <1>2, <1>3, SameLine

(* Where the line that is read ends, when it has no comment.               *)
LEMMA LineEndsHere ==
  ASSUME NEW w \in Word, NEW c \in Char, NEW s, Current(w, s),
         \A j \in s..Len(w) : w[j] # Hash
  PROVE  /\ LineEnds(w, s, Len(w) + 1)
         /\ c \in {NL, Hash} => LineEnds(Append(w, c), s, Len(w) + 1)
         /\ c \notin {NL, Hash} => LineEnds(Append(w, c), s, Len(w) + 2)
<1> DEFINE u == Append(w, c)
<1>1. Len(w) \in Nat
  BY StartsInFile
<1>2. /\ u \in Word /\ Len(u) = Len(w) + 1 /\ \A j \in 1..Len(w) : u[j] = w[j]
      /\ u[Len(w) + 1] = c
  BY AppendProperties DEF Word
<1>3. s \in 1..(Len(w) + 1) /\ \A j \in s..Len(w) : w[j] \notin {NL, Hash}
  BY DEF Current
<1> HIDE DEF u
<1>4. \A j \in s..Len(w) : u[j] \notin {NL, Hash}
  <2>1. \A j \in s..Len(w) : j \in 1..Len(w)
    BY <1>1, <1>3
  <2>2. QED
    BY <1>2, <1>3, <2>1
<1>5. LineEnds(w, s, Len(w) + 1)
  BY <1>1, <1>3 DEF LineEnds
<1>6. ASSUME c \in {NL, Hash}
      PROVE  LineEnds(u, s, Len(w) + 1)
  BY <1>1, <1>2, <1>3, <1>4, <1>6 DEF LineEnds
<1>7. ASSUME c \notin {NL, Hash}
      PROVE  LineEnds(u, s, Len(w) + 2)
  <2>1. ASSUME NEW j \in s..((Len(w) + 2) - 1)
        PROVE  u[j] \notin {NL, Hash}
    <3>1. j = Len(w) + 1 \/ j \in s..Len(w)
      BY <1>1, <1>3
    <3>2. QED
      BY <1>2, <1>4, <1>7, <3>1
  <2>2. s \in 1..(Len(u) + 1) /\ Len(w) + 2 \in s..(Len(u) + 1) /\ Len(w) + 2 = Len(u) + 1
    BY <1>1, <1>2, <1>3
  <2>3. QED
    BY <2>1, <2>2 DEF LineEnds
<1>8. QED
  BY <1>5, <1>6, <1>7 DEF u

(* What is done stays done while the lines are the same,                   *)
LEMMA DoneKept ==
  ASSUME NEW w, NEW u, NEW n \in Nat, NEW S \in SUBSET (1..n), NEW v, NEW m,
         Done(w, S, v, m),
         \A s \in S : LineOf(u, s) = LineOf(w, s)
  PROVE  Done(u, S, v, m)
<1>1. \A i \in Place : Naming(u, S, i) = Naming(w, S, i)
  BY DEF Naming
<1>2. ASSUME NEW i \in Place, Naming(w, S, i) # {}
      PROVE  LineOf(u, Greatest(Naming(w, S, i))) = LineOf(w, Greatest(Naming(w, S, i)))
  <2> DEFINE N == Naming(w, S, i)
  <2>1. N \subseteq S /\ N # {}
    BY <1>2 DEF Naming
  <2> HIDE DEF N
  <2>2. N \in SUBSET (1..n)
    BY <2>1
  <2>3. N \in SUBSET Nat
    BY <2>2
  <2>4. PICK x \in N : \A y \in N : y <= x
    BY <2>1, <2>2, HasGreatest
  <2>5. Greatest(N) = x
    BY <2>3, <2>4, GreatestIs
  <2>6. LineOf(u, Greatest(N)) = LineOf(w, Greatest(N))
    BY <2>1, <2>5
  <2>7. QED
    BY <2>6 DEF N
<1>3. QED
  BY <1>1, <1>2 DEF Done

(* and when a line with nothing in it follows;                             *)
LEMMA DoneBlank ==
  ASSUME NEW w, NEW S, NEW v, NEW m, Done(w, S, v, m), NEW s, LineOf(w, s) = <<>>
  PROVE  Done(w, S \union {s}, v, m)
<1>1. \A i \in Place : Naming(w, S \union {s}, i) = Naming(w, S, i)
  BY DEF Naming
<1>2. QED
  BY <1>1 DEF Done

(* a line that names an item gives it its value.                           *)
LEMMA DoneNext ==
  ASSUME NEW w, NEW S \in SUBSET Nat, NEW v, NEW m, Done(w, S, v, m),
         NEW s \in Nat, \A t \in S : t < s,
         LineOf(w, s) # <<>>, FineLine(LineOf(w, s)),
         NEW i \in Place, KeyIn(LineOf(w, s)) = Item[i].name,
         DOMAIN v = Place
  PROVE  Done(w, S \union {s}, [v EXCEPT ![i] = ValueIn(LineOf(w, s))], m \union {i})
<1> DEFINE T  == S \union {s}
           v1 == [v EXCEPT ![i] = ValueIn(LineOf(w, s))]
<1>1. v1[i] = ValueIn(LineOf(w, s)) /\ \A j \in Place : j # i => v1[j] = v[j]
  OBVIOUS
<1>2. \A j \in Place : j # i => Naming(w, T, j) = Naming(w, S, j)
  <2>1. \A j \in Place : j # i => Item[j].name # Item[i].name
    BY ConfigAssumption
  <2>2. QED
    BY <2>1 DEF Naming
<1>3. Naming(w, T, i) = Naming(w, S, i) \union {s}
  BY DEF Naming
<1>4. Greatest(Naming(w, T, i)) = s
  <2>1. Naming(w, S, i) \subseteq S
    BY DEF Naming
  <2>2. Naming(w, T, i) \in SUBSET Nat /\ s \in Naming(w, T, i)
    BY <1>3, <2>1
  <2>3. \A t \in Naming(w, T, i) : t <= s
    <3>1. \A t \in S \union {s} : t <= s
      OBVIOUS
    <3>2. Naming(w, T, i) \subseteq S \union {s}
      BY <1>3, <2>1
    <3>3. QED
      BY <3>1, <3>2
  <2>4. QED
    BY <2>2, <2>3, GreatestIs
<1>5. \A t \in T : LineOf(w, t) # <<>> => FineLine(LineOf(w, t))
  BY DEF Done
<1> HIDE DEF T, v1
<1>6. ASSUME NEW j \in Place
      PROVE  IF Naming(w, T, j) = {} THEN v1[j] = Unset /\ j \notin m \union {i}
             ELSE /\ v1[j] = ValueIn(LineOf(w, Greatest(Naming(w, T, j))))
                  /\ j \in m \union {i}
  <2>1. CASE j = i
    BY <1>1, <1>3, <1>4, <2>1
  <2>2. CASE j # i
    BY <1>1, <1>2, <2>2 DEF Done
  <2>3. QED
    BY <2>1, <2>2
<1>7. Done(w, T, v1, m \union {i})
  BY <1>5, <1>6 DEF Done
<1>8. QED
  BY <1>7 DEF T, v1

(***************************************************************************)
(* The strings that are cut out of the buffer.                             *)
(***************************************************************************)

(* Pieces of the same characters.                                          *)
LEMMA SamePiece ==
  ASSUME NEW b, NEW w, NEW x \in Nat, NEW y \in Nat,
         \A j \in x..y : b[j] = w[j] /\ w[j] \in Char
  PROVE  SubSeq(b, x, y) = SubSeq(w, x, y)
<1>1. x \in Int /\ y \in Int /\ \A j \in x..y : b[j] \in Char
  OBVIOUS
<1>2. /\ SubSeq(b, x, y) \in Seq(Char)
      /\ Len(SubSeq(b, x, y)) = IF x <= y THEN y - x + 1 ELSE 0
      /\ \A i \in 1..(y - x + 1) : SubSeq(b, x, y)[i] = b[x + i - 1]
  BY <1>1, SubSeqProperties
<1>3. /\ SubSeq(w, x, y) \in Seq(Char)
      /\ Len(SubSeq(w, x, y)) = IF x <= y THEN y - x + 1 ELSE 0
      /\ \A i \in 1..(y - x + 1) : SubSeq(w, x, y)[i] = w[x + i - 1]
  BY <1>1, SubSeqProperties
<1>4. ASSUME NEW i \in 1..Len(SubSeq(b, x, y))
      PROVE  SubSeq(b, x, y)[i] = SubSeq(w, x, y)[i]
  <2>1. i \in 1..(y - x + 1)
    BY <1>2
  <2>2. x + i - 1 \in x..y
    BY <2>1
  <2>3. QED
    BY <1>2, <1>3, <2>1, <2>2
<1>5. QED
  BY <1>2, <1>3, <1>4, SeqEqual

(* A string ends at the first zero.                                        *)
LEMMA StringIs ==
  ASSUME NEW b \in Seq(Char \union {NUL}), NEW a \in 1..Len(b), NEW e \in a..Len(b),
         b[e] = NUL, \A j \in a..(e - 1) : b[j] # NUL
  PROVE  String(b, a) = SubSeq(b, a, e - 1)
<1> DEFINE ends == {i \in a..Len(b) : b[i] = NUL}
<1>1. Len(b) \in Nat
  BY LenProperties
<1>2. e \in ends /\ ends \in SUBSET Nat
  BY <1>1
<1>3. \A i \in ends : e <= i
  <2>1. ASSUME NEW i \in ends
        PROVE  e <= i
    <3>1. i \notin a..(e - 1) /\ i \in a..Len(b)
      OBVIOUS
    <3>2. QED
      BY <1>1, <3>1
  <2>2. QED
    BY <2>1
<1>4. String(b, a) = SubSeq(b, a, Least(ends) - 1)
  BY DEF String, Least
<1> HIDE DEF ends
<1>5. Least(ends) = e
  BY <1>2, <1>3, LeastIs
<1>6. QED
  BY <1>4, <1>5

(* The key and the argument of a line are what stands in the file.         *)
LEMMA ArgumentRead ==
  ASSUME ConfigInv, at = "scan", state = "ARG", NEW s, Current(text, s),
         NEW k \in 1..Len(text), ArgBegun(s, k),
         NEW x \in Char \union {NUL}, NEW b, b = Terminated(Append(buf, x), p)
  PROVE  \E y \in arg..Len(text) :
           /\ text[y] # Blank
           /\ \A j \in (y + 1)..Len(text) : text[j] = Blank
           /\ String(b, arg) = SubSeq(text, arg, y)
           /\ String(b, key) = SubSeq(text, key, k - 1)
<1> DEFINE n     == Len(text)
           a     == Append(buf, x)
           Y     == {j \in arg..n : text[j] # Blank}
           solid == {i \in 1..((n + 1) - 1) : ~IsSpace(a[i])}
           last  == CHOOSE i \in solid : \A j \in solid : j <= i
<1>1. /\ text \in Word /\ n \in Nat /\ Len(buf) = n /\ p = n + 1
      /\ buf \in Seq(Char \union {NUL}) /\ s \in 1..(n + 1)
      /\ \A j \in 1..n : text[j] \in Char
  BY LenProperties, ElementOfSeq DEF ConfigInv, ScanTypes, ScanInv, Word, p, Current
<1>2. /\ arg \in 2..n /\ key \in s..(k - 1) /\ k \in 1..(arg - 1) /\ buf[k] = NUL
      /\ text[arg] \in Letter
      /\ \A j \in arg..n : text[j] \in Letter \union {Blank} /\ buf[j] = text[j]
      /\ \A j \in key..(k - 1) : text[j] \in Letter /\ buf[j] = text[j]
  BY DEF ArgBegun, KeyDone, KeyEnds
<1>3. /\ a \in Seq(Char \union {NUL}) /\ Len(a) = n + 1 /\ DOMAIN a = 1..(n + 1)
      /\ \A j \in 1..n : a[j] = buf[j]
  <2>1. a \in Seq(Char \union {NUL}) /\ Len(a) = n + 1
    BY <1>1, AppendProperties
  <2>2. \A j \in 1..n : a[j] = buf[j]
    BY <1>1, AppendProperties
  <2> HIDE DEF a
  <2>3. QED
    BY <2>1, <2>2, LenProperties
<1>4. /\ b \in Seq(Char \union {NUL}) /\ Len(b) = n + 1
  BY <1>1, ArgumentEnds
<1>5. b = [i \in DOMAIN a |-> IF i \in (last + 1)..(n + 1) THEN NUL ELSE a[i]]
  BY <1>1 DEF Terminated
<1>6. arg \in Y /\ Y \in SUBSET (1..n)
  BY <1>1, <1>2, Characters
<1>7. PICK y \in Y : \A j \in Y : j <= y
  <2> HIDE DEF Y
  <2>1. QED
    BY <1>1, <1>6, HasGreatest
<1>8. /\ y \in arg..n /\ text[y] # Blank
      /\ \A j \in (y + 1)..n : text[j] = Blank
  <2>1. ASSUME NEW j \in (y + 1)..n
        PROVE  text[j] = Blank
    <3>1. j \in arg..n /\ ~(j <= y)
      BY <1>1, <1>2
    <3>2. j \notin Y
      BY <1>7, <3>1
    <3>3. QED
      BY <3>1, <3>2
  <2>2. QED
    BY <2>1
<1> HIDE DEF Y, a
<1>9. y \in solid
  <2>1. y \in 1..n /\ a[y] = text[y] /\ text[y] \in Letter
    BY <1>1, <1>2, <1>3, <1>8
  <2>2. QED
    BY <1>1, <2>1, Characters DEF IsSpace
<1>10. ASSUME NEW i \in solid
       PROVE  i <= y
  <2>1. SUFFICES ASSUME ~(i <= y) PROVE FALSE
    OBVIOUS
  <2>2. i \in 1..n /\ i \in arg..n /\ i \in (y + 1)..n
    BY <1>1, <1>2, <1>8, <2>1
  <2>3. a[i] = Blank
    BY <1>2, <1>3, <1>8, <2>2
  <2>4. QED
    BY <2>3 DEF IsSpace
<1>11. last = y
  <2>1. solid \in SUBSET Nat
    BY <1>1
  <2>2. last = Greatest(solid)
    BY DEF Greatest
  <2> HIDE DEF solid, last
  <2>3. QED
    BY <1>9, <1>10, <2>1, <2>2, GreatestIs
<1> HIDE DEF solid, last
<1>12. \A j \in 1..(n + 1) : b[j] = IF j \in (y + 1)..(n + 1) THEN NUL ELSE a[j]
  BY <1>3, <1>5, <1>11
<1>13. \A j \in 1..y : b[j] = buf[j]
  <2>1. \A j \in 1..y : j \in 1..n /\ j \in 1..(n + 1) /\ j \notin (y + 1)..(n + 1)
    BY <1>1, <1>2, <1>8
  <2>2. QED
    BY <1>3, <1>12, <2>1
<1>14. /\ 1 <= key /\ key < k /\ k < arg /\ arg <= y /\ y <= n
       /\ key \in Nat /\ k \in Nat /\ arg \in Nat /\ y \in Nat
  BY <1>1, <1>2, <1>8
<1>15. String(b, arg) = SubSeq(text, arg, y)
  <2>1. \A j \in arg..y : b[j] = text[j] /\ text[j] \in Char /\ b[j] # NUL
    <3>1. \A j \in arg..y : j \in 1..y /\ j \in arg..n /\ j \in 1..n
      BY <1>1, <1>14
    <3>2. QED
      BY <1>1, <1>2, <1>13, <3>1, Characters
  <2>2. PICK e \in Nat : e = y + 1
    BY <1>14
  <2>3. /\ b[e] = NUL /\ e \in arg..Len(b) /\ arg \in 1..Len(b) /\ e - 1 = y
    BY <1>1, <1>4, <1>12, <1>14, <2>2
  <2>4. String(b, arg) = SubSeq(b, arg, e - 1)
    <3>1. \A j \in arg..(e - 1) : b[j] # NUL
      BY <2>1, <2>3
    <3>2. QED
      BY <1>4, <2>3, <3>1, StringIs
  <2>5. SubSeq(b, arg, y) = SubSeq(text, arg, y)
    BY <1>14, <2>1, SamePiece
  <2>6. QED
    BY <2>3, <2>4, <2>5
<1>16. String(b, key) = SubSeq(text, key, k - 1)
  <2>1. \A j \in key..(k - 1) : b[j] = text[j] /\ text[j] \in Char /\ b[j] # NUL
    <3>1. \A j \in key..(k - 1) : j \in 1..y /\ j \in 1..n
      BY <1>1, <1>14
    <3>2. QED
      BY <1>1, <1>2, <1>13, <3>1, Characters
  <2>2. b[k] = NUL /\ k \in key..(n + 1) /\ key \in 1..(n + 1)
    <3>1. k \in 1..y
      BY <1>14
    <3>2. b[k] = NUL
      BY <1>2, <1>13, <3>1
    <3>3. QED
      BY <1>1, <1>14, <3>2
  <2>3. String(b, key) = SubSeq(b, key, k - 1)
    BY <1>4, <2>1, <2>2, StringIs
  <2>4. SubSeq(b, key, k - 1) = SubSeq(text, key, k - 1)
    <3>1. k - 1 \in Nat
      BY <1>14
    <3>2. QED
      BY <1>14, <2>1, <3>1, SamePiece
  <2>5. QED
    BY <2>3, <2>4
<1>17. QED
  BY <1>8, <1>15, <1>16

(***************************************************************************)
(* Lines that end.                                                         *)
(***************************************************************************)

(* A line without a comment, as far as it has been read.                   *)
LEMMA OpenPlain ==
  ASSUME ConfigInv, at = "scan", NEW s, Current(text, s), LineOpen(s)
  PROVE  \A j \in s..Len(text) : text[j] \in Letter \union {Blank}
<1> DEFINE n == Len(text)
<1>1. n \in Nat /\ s \in 1..(n + 1)
  BY StartsInFile DEF ConfigInv, ScanTypes, Current
<1>2. CASE state = "PRE"
  BY <1>2 DEF LineOpen
<1>3. ASSUME NEW k \in 1..(n + 1), KeyEnds(s, k)
      PROVE  \A j \in s..(k - 1) : text[j] \in Letter \union {Blank}
  <2>1. \A j \in s..(k - 1) : j \in s..(key - 1) \/ j \in key..(k - 1)
    BY <1>1, <1>3 DEF KeyEnds
  <2>2. QED
    BY <1>3, <2>1 DEF KeyEnds
<1>4. CASE state = "KEY"
  <2>1. KeyEnds(s, n + 1) /\ n + 1 \in 1..(n + 1) /\ (n + 1) - 1 = n
    BY <1>1, <1>4 DEF LineOpen
  <2>2. QED
    BY <1>3, <2>1
<1>5. CASE state = "DIV"
  <2>1. PICK k \in 1..n : KeyDone(s, k, n)
    BY <1>5 DEF LineOpen
  <2>2. k \in 1..(n + 1) /\ KeyEnds(s, k) /\ \A j \in k..n : text[j] = Blank
    BY <1>1, <2>1 DEF KeyDone
  <2>3. \A j \in s..n : j \in s..(k - 1) \/ j \in k..n
    BY <1>1, <2>1
  <2>4. QED
    BY <1>3, <2>2, <2>3
<1>6. CASE state = "ARG"
  <2>1. PICK k \in 1..n : ArgBegun(s, k)
    BY <1>6 DEF LineOpen
  <2>2. /\ k \in 1..(n + 1) /\ KeyEnds(s, k) /\ arg \in 2..n
        /\ \A j \in k..(arg - 1) : text[j] = Blank
        /\ \A j \in arg..n : text[j] \in Letter \union {Blank}
    BY <1>1, <2>1 DEF ArgBegun, KeyDone
  <2>3. \A j \in s..n : j \in s..(k - 1) \/ j \in k..(arg - 1) \/ j \in arg..n
    BY <1>1, <2>1, <2>2
  <2>4. QED
    BY <1>3, <2>2, <2>3
<1>7. QED
  BY <1>2, <1>4, <1>5, <1>6 DEF LineOpen

(* A line that ends before it has an argument.                             *)
LEMMA NoArgument ==
  ASSUME ConfigInv, at = "scan", NEW s, Current(text, s), LineOpen(s),
         state \in {"KEY", "DIV"},
         NEW w \in Word, \A j \in 1..Len(text) : w[j] = text[j],
         LineEnds(w, s, Len(text) + 1)
  PROVE  LineOf(w, s) # <<>> /\ ~FineLine(LineOf(w, s))
<1> DEFINE n == Len(text)
<1>1. n \in Nat /\ s \in 1..(n + 1)
  BY StartsInFile DEF ConfigInv, ScanTypes, Current
<1>2. PICK k \in 1..(n + 1) : KeyEnds(s, k) /\ \A j \in k..n : text[j] = Blank
  <2>1. CASE state = "KEY"
    <3>1. KeyEnds(s, n + 1) /\ \A j \in (n + 1)..n : text[j] = Blank
      BY <1>1, <2>1 DEF LineOpen
    <3>2. n + 1 \in 1..(n + 1)
      BY <1>1
    <3>3. QED
      BY <3>1, <3>2
  <2>2. CASE state = "DIV"
    <3>1. PICK k \in 1..n : KeyDone(s, k, n)
      BY <2>2 DEF LineOpen
    <3>2. k \in 1..(n + 1) /\ KeyEnds(s, k) /\ \A j \in k..n : text[j] = Blank
      BY <1>1, <3>1 DEF KeyDone
    <3>3. QED
      BY <3>2
  <2>3. QED
    BY <2>1, <2>2
<1>3. /\ key \in s..(k - 1)
      /\ \A j \in s..(key - 1) : text[j] = Blank
      /\ \A j \in key..(k - 1) : text[j] \in Letter
  BY <1>2 DEF KeyEnds
<1>4. PICK e \in Nat : e = n + 1
  BY <1>1
<1>5. LineEnds(w, s, e) /\ key \in s..(e - 1) /\ k \in (key + 1)..e
  BY <1>1, <1>2, <1>3, <1>4
<1>6. \A j \in s..(key - 1) : w[j] = Blank
  <2>1. \A j \in s..(key - 1) : j \in 1..n
    BY <1>1, <1>2, <1>3
  <2>2. QED
    BY <1>3, <2>1
<1>7. \A j \in key..(k - 1) : w[j] # Blank
  <2>1. \A j \in key..(k - 1) : j \in 1..n
    BY <1>1, <1>2, <1>3
  <2>2. QED
    BY <1>3, <2>1, Characters
<1>8. \A j \in k..(e - 1) : w[j] = Blank
  <2>1. \A j \in k..(e - 1) : j \in 1..n /\ j \in k..n
    BY <1>1, <1>2, <1>4
  <2>2. QED
    BY <1>2, <2>1
<1>9. QED
  BY <1>5, <1>6, <1>7, <1>8, LoneKey

(* A line that ends in its argument: it is read into the settings, or it   *)
(* is one that no file may have.                                           *)
LEMMA ArgumentHandled ==
  ASSUME ConfigInv, at = "scan", NEW s, Current(text, s), LineOpen(s), state = "ARG",
         NEW x \in Char \union {NUL}, NEW b, b = Terminated(Append(buf, x), p),
         NEW then \in {"scan", "defaults"}, HandleKey(b, then),
         NEW w \in Word, \A j \in 1..Len(text) : w[j] = text[j],
         LineEnds(w, s, Len(text) + 1),
         Done(w, StartsOf(text) \ {s}, value, initialized)
  PROVE  \/ at' = "error" /\ LineOf(w, s) # <<>> /\ ~FineLine(LineOf(w, s))
         \/ at' = then /\ Done(w, StartsOf(text), value', initialized')
<1> DEFINE n    == Len(text)
           line == LineOf(w, s)
<1>1. n \in Nat /\ s \in 1..(n + 1) /\ text \in Word /\ \A j \in 1..n : text[j] \in Char
  BY StartsInFile, ElementOfSeq DEF ConfigInv, ScanTypes, Current, Word
<1>2. PICK k \in 1..n : ArgBegun(s, k)
  BY DEF LineOpen
<1>3. PICK y \in arg..n :
        /\ text[y] # Blank
        /\ \A j \in (y + 1)..n : text[j] = Blank
        /\ String(b, arg) = SubSeq(text, arg, y)
        /\ String(b, key) = SubSeq(text, key, k - 1)
  BY <1>2, ArgumentRead
<1>4. /\ arg \in 2..n /\ key \in s..(k - 1) /\ k \in 1..(arg - 1)
      /\ text[arg] \in Letter
      /\ \A j \in s..(key - 1) : text[j] = Blank
      /\ \A j \in key..(k - 1) : text[j] \in Letter
      /\ \A j \in k..(arg - 1) : text[j] = Blank
  BY <1>2 DEF ArgBegun, KeyDone, KeyEnds
<1>5. /\ 1 <= s /\ s <= key /\ key < k /\ k < arg /\ arg <= y /\ y <= n
      /\ s \in Nat /\ key \in Nat /\ k \in Nat /\ arg \in Nat /\ y \in Nat
  BY <1>1, <1>3, <1>4
<1>6. \A j \in s..n : j \in 1..n
  BY <1>1, <1>5
<1>7. PICK e \in Nat : e = n + 1
  BY <1>1
<1>8. /\ line = SubSeq(w, key, y)
      /\ KeyIn(line) = SubSeq(w, key, k - 1)
      /\ ValueIn(line) = SubSeq(w, arg, y)
  <2>1. /\ key \in s..(e - 1) /\ y \in key..(e - 1) /\ arg \in key..y
        /\ k \in (key + 1)..arg /\ k < arg /\ LineEnds(w, s, e)
    BY <1>1, <1>5, <1>7
  <2>2. w[arg] # Blank /\ w[y] # Blank
    <3>1. arg \in 1..n /\ y \in 1..n
      BY <1>1, <1>5
    <3>2. QED
      BY <1>3, <1>4, <3>1, Characters
  <2>3. \A j \in s..(key - 1) : w[j] = Blank
    <3>1. \A j \in s..(key - 1) : j \in 1..n
      BY <1>1, <1>5
    <3>2. QED
      BY <1>4, <3>1
  <2>4. \A j \in key..(k - 1) : w[j] # Blank
    <3>1. \A j \in key..(k - 1) : j \in 1..n
      BY <1>1, <1>5
    <3>2. QED
      BY <1>4, <3>1, Characters
  <2>5. \A j \in k..(arg - 1) : w[j] = Blank
    <3>1. \A j \in k..(arg - 1) : j \in 1..n
      BY <1>1, <1>5
    <3>2. QED
      BY <1>4, <3>1
  <2>6. \A j \in (y + 1)..(e - 1) : w[j] = Blank
    <3>1. \A j \in (y + 1)..(e - 1) : j \in 1..n /\ j \in (y + 1)..n
      BY <1>1, <1>5, <1>7
    <3>2. QED
      BY <1>3, <3>1
  <2>7. LineParts(w, s, e, key, k, arg, y)
    BY <2>1, <2>2, <2>3, <2>4, <2>5, <2>6 DEF LineParts
  <2> HIDE DEF n
  <2>8. QED
    BY <2>7, FullLine
<1> HIDE DEF line
<1>9. ASSUME NEW l \in 1..n, NEW m \in Nat, m <= n
      PROVE  SubSeq(w, l, m) = SubSeq(text, l, m)
  <2>1. \A j \in l..m : j \in 1..n
    BY <1>1, <1>9
  <2>2. \A j \in l..m : w[j] = text[j] /\ text[j] \in Char
    BY <1>1, <2>1
  <2>3. l \in Nat
    OBVIOUS
  <2>4. QED
    BY <1>9, <2>2, <2>3, SamePiece
<1>10. KeyIn(line) = String(b, key) /\ ValueIn(line) = String(b, arg)
  <2>1. key \in 1..n /\ arg \in 1..n /\ k - 1 \in Nat /\ k - 1 <= n
    BY <1>1, <1>5
  <2>2. QED
    BY <1>3, <1>5, <1>8, <1>9, <2>1
<1>11. line # <<>> /\ ValueIn(line) # <<>>
  <2>1. Len(w) \in Nat /\ n + 1 <= Len(w) + 1
    BY <1>1, StartsInFile DEF LineEnds
  <2>2. /\ key \in 1..(Len(w) + 1) /\ y \in (key - 1)..Len(w) /\ y - key + 1 # 0
        /\ arg \in 1..(Len(w) + 1) /\ y \in (arg - 1)..Len(w) /\ y - arg + 1 # 0
    BY <1>1, <1>5, <2>1
  <2>3. /\ Len(SubSeq(w, key, y)) = y - key + 1 /\ Len(SubSeq(w, arg, y)) = y - arg + 1
    BY <2>2, Piece
  <2>4. Len(<<>>) = 0
    OBVIOUS
  <2>5. QED
    BY <1>8, <2>2, <2>3, <2>4
<1>12. Odd \notin {line[i] : i \in DOMAIN line}
  <2>1. Len(w) \in Nat /\ n + 1 <= Len(w) + 1
    BY <1>1, StartsInFile DEF LineEnds
  <2>2. key \in 1..(Len(w) + 1) /\ y \in (key - 1)..Len(w)
    BY <1>1, <1>5, <2>1
  <2>3. ASSUME NEW i \in DOMAIN line
        PROVE  line[i] # Odd
    <3>1. line[i] = w[key + i - 1] /\ key + i - 1 \in key..y
      BY <1>8, <2>2, Piece
    <3>2. key + i - 1 \in s..n
      BY <1>1, <1>5, <3>1
    <3>3. text[key + i - 1] \in Letter \union {Blank}
      BY <3>2, OpenPlain
    <3>4. QED
      BY <1>6, <3>1, <3>2, <3>3, Characters
  <2>4. QED
    BY <2>3
<1>13. FineLine(line) <=>
         \E i \in Place : Item[i].name = String(b, key) /\ Accepts(i, String(b, arg))
  BY <1>10, <1>11, <1>12 DEF FineLine
<1> DEFINE named == {i \in Place : Item[i].name = String(b, key)}
           word  == String(b, arg)
<1>14. CASE \E i \in named : Accepts(i, word)
  <2>1. at' = then
    BY <1>14 DEF HandleKey
  <2>2. PICK i \in named : ProcessItem(i, word)
    BY <1>14 DEF HandleKey
  <2>3. /\ value' = [value EXCEPT ![i] = ValueIn(line)]
        /\ initialized' = initialized \union {i}
    BY <1>10, <2>2 DEF ProcessItem
  <2>4. FineLine(line) /\ KeyIn(line) = Item[i].name /\ i \in Place
    BY <1>10, <1>13, <1>14
  <2>5. DOMAIN value = Place
    BY DEF ConfigInv, ItemTypes
  <2>6. /\ StartsOf(text) \ {s} \in SUBSET Nat
        /\ \A t \in StartsOf(text) \ {s} : t < s
        /\ (StartsOf(text) \ {s}) \union {s} = StartsOf(text)
    <3>1. StartsOf(text) \in SUBSET Nat /\ s \in StartsOf(text)
      BY <1>1, StartsInFile DEF Current
    <3>2. \A t \in StartsOf(text) : t <= s
      BY DEF Current
    <3>3. QED
      BY <1>5, <3>1, <3>2
  <2>7. Done(w, (StartsOf(text) \ {s}) \union {s},
             [value EXCEPT ![i] = ValueIn(line)], initialized \union {i})
    BY <1>5, <1>11, <2>4, <2>5, <2>6, DoneNext DEF line
  <2>8. QED
    BY <2>1, <2>3, <2>6, <2>7
<1>15. CASE ~ \E i \in named : Accepts(i, word)
  <2>1. Failed
    BY <1>15 DEF HandleKey
  <2>2. ~FineLine(line)
    BY <1>13, <1>15
  <2>3. QED
    BY <1>11, <2>1, <2>2 DEF Failed, line
<1>16. QED
  BY <1>14, <1>15

(***************************************************************************)
(* The steps of the scanner.                                               *)
(***************************************************************************)

(* What reading a character does to the lines.                             *)
LEMMA LineRead ==
  ASSUME ConfigInv, NEW c \in Char, Reads(c), NEW s, Current(text, s)
  PROVE  /\ text \in Word /\ Len(text) \in Nat /\ p = Len(text) + 1
         /\ s \in 1..(Len(text) + 1) /\ s \in StartsOf(text)
         /\ text' = Append(text, c) /\ text' \in Word
         /\ Len(text') = Len(text) + 1
         /\ \A j \in 1..Len(text) : text'[j] = text[j]
         /\ text'[Len(text) + 1] = c
         /\ c # NL => StartsOf(text') = StartsOf(text) /\ Current(text', s)
         /\ c = NL => /\ Len(text) + 2 \in StartsOf(text')
                      /\ StartsOf(text') \ {Len(text) + 2} = StartsOf(text)
                      /\ Current(text', Len(text) + 2)
         /\ Done(text, StartsOf(text) \ {s}, value, initialized) =>
              Done(text', StartsOf(text) \ {s}, value, initialized)
<1> DEFINE n == Len(text)
<1>1. /\ text \in Word /\ n \in Nat /\ p = n + 1 /\ text' = Append(text, c)
      /\ StartsOf(text) \subseteq 1..(n + 1)
  BY StartsInFile DEF ConfigInv, ScanTypes, p, Reads
<1>2. /\ text' \in Word /\ Len(text') = n + 1
      /\ \A j \in 1..n : text'[j] = text[j]
      /\ text'[n + 1] = c
  BY <1>1, AppendProperties DEF Word
<1>3. s \in 1..(n + 1) /\ s \in StartsOf(text)
  BY DEF Current
<1>4. ASSUME c = NL
      PROVE  /\ n + 2 \in StartsOf(text')
             /\ StartsOf(text') \ {n + 2} = StartsOf(text)
             /\ Current(text', n + 2)
  <2>1. StartsOf(text') = StartsOf(text) \union {n + 2} /\ Current(text', n + 2)
    BY <1>1, <1>4, NextStart
  <2>2. n + 2 \notin StartsOf(text)
    BY <1>1
  <2>3. QED
    BY <2>1, <2>2
<1>5. ASSUME c # NL
      PROVE  StartsOf(text') = StartsOf(text) /\ Current(text', s)
  BY <1>1, <1>5, NextStart
<1>6. ASSUME Done(text, StartsOf(text) \ {s}, value, initialized)
      PROVE  Done(text', StartsOf(text) \ {s}, value, initialized)
  <2>1. \A t \in StartsOf(text) \ {s} : LineOf(text', t) = LineOf(text, t)
    BY <1>1, EarlierLines
  <2>2. StartsOf(text) \ {s} \in SUBSET (1..(n + 1)) /\ n + 1 \in Nat
    BY <1>1
  <2>3. QED
    BY <1>6, <2>1, <2>2, DoneKept
<1>7. QED
  BY <1>1, <1>2, <1>3, <1>4, <1>5, <1>6

(* The invariant of a scanner that goes on, and of a file that is refused. *)
LEMMA GoesOn ==
  ASSUME at' = "scan", NEW s, s \in StartsOf(text'), Current(text', s),
         \/ LineOpen(s)' /\ Done(text', StartsOf(text') \ {s}, value', initialized')
         \/ /\ state' = "TAIL" /\ \E j \in s..Len(text') : text'[j] = Hash
            /\ Done(text', StartsOf(text'), value', initialized')
  PROVE  LinesInv'
<1>1. ScanLines'
  BY DEF ScanLines
<1>2. QED
  BY <1>1 DEF LinesInv, Defaulted, Refused

LEMMA Stops ==
  ASSUME at' = "error", NEW s, s \in StartsOf(text'),
         LineOf(text', s) # <<>>, ~FineLine(LineOf(text', s))
  PROVE  LinesInv'
  BY DEF LinesInv, ScanLines, Defaulted, Refused

(* A newline when the lines up to it have been read.                       *)
LEMMA NewLine ==
  ASSUME ConfigInv, Reads(NL), NEW s, Current(text, s), state' = "PRE", at' = "scan",
         Done(text', StartsOf(text), value', initialized')
  PROVE  LinesInv'
<1>1. NL \in Char
  BY DEF Char
<1> PICK t \in Nat : t = Len(text) + 2
  BY <1>1, LineRead
<1>2. /\ t \in StartsOf(text') /\ StartsOf(text') \ {t} = StartsOf(text)
      /\ Current(text', t) /\ Len(text') = Len(text) + 1 /\ Len(text) \in Nat
  BY <1>1, LineRead
<1>3. \A j \in t..Len(text') : text'[j] = Blank
  BY <1>2
<1>4. LineOpen(t)'
  BY <1>3 DEF LineOpen
<1>5. QED
  BY <1>2, <1>4, GoesOn

(* A character that no line may have.                                      *)
LEMMA OddRead ==
  ASSUME ConfigInv, Reads(Odd), NEW s, Current(text, s), LineOpen(s), at' = "error"
  PROVE  LinesInv'
<1> DEFINE n == Len(text)
<1>1. Odd \in Char /\ Odd # NL /\ Odd # Hash /\ at = "scan"
  BY Characters DEF Char, Reads
<1>2. /\ text \in Word /\ n \in Nat /\ s \in 1..(n + 1) /\ s \in StartsOf(text)
      /\ text' = Append(text, Odd) /\ text' \in Word
      /\ text'[n + 1] = Odd /\ StartsOf(text') = StartsOf(text)
  BY <1>1, LineRead
<1>3. \A j \in s..n : text[j] # Hash
  BY <1>1, OpenPlain, Characters
<1>4. LineEnds(text', s, n + 2)
  BY <1>1, <1>2, <1>3, LineEndsHere
<1>5. PICK e \in Nat : e = n + 2
  BY <1>2
<1>6. LineEnds(text', s, e) /\ n + 1 \in s..(e - 1)
  BY <1>2, <1>4, <1>5
<1>7. LineOf(text', s) # <<>> /\ ~FineLine(LineOf(text', s))
  BY <1>2, <1>6, OddLine
<1>8. QED
  BY <1>2, <1>7, Stops

(* A line that ends with a newline or a comment before its argument.       *)
LEMMA EndsEarly ==
  ASSUME ConfigInv, NEW c \in {NL, Hash}, Reads(c), NEW s, Current(text, s),
         LineOpen(s), state \in {"KEY", "DIV"}, at' = "error"
  PROVE  LinesInv'
<1> DEFINE n == Len(text)
<1>1. c \in Char /\ at = "scan"
  BY DEF Char, Reads
<1>2. /\ text \in Word /\ s \in StartsOf(text)
      /\ text' = Append(text, c) /\ text' \in Word
      /\ \A j \in 1..n : text'[j] = text[j]
      /\ s \in StartsOf(text')
  BY <1>1, LineRead
<1>3. \A j \in s..n : text[j] # Hash
  BY <1>1, OpenPlain, Characters
<1>4. LineEnds(text', s, n + 1)
  BY <1>1, <1>2, <1>3, LineEndsHere
<1>5. LineOf(text', s) # <<>> /\ ~FineLine(LineOf(text', s))
  BY <1>1, <1>2, <1>4, NoArgument
<1>6. QED
  BY <1>2, <1>5, Stops

(* A character of a line that goes on.                                     *)
LEMMA LineGoesOn ==
  ASSUME ConfigInv, NEW c \in Letter \union {Blank}, Reads(c),
         NEW s, Current(text, s), Done(text, StartsOf(text) \ {s}, value, initialized),
         LineOpen(s)', UNCHANGED <<settings, at>>
  PROVE  LinesInv'
<1>1. c \in Char /\ c # NL /\ at = "scan"
  BY Characters DEF Char, Reads
<1>2. /\ StartsOf(text') = StartsOf(text) /\ Current(text', s)
      /\ Done(text', StartsOf(text) \ {s}, value, initialized)
      /\ s \in StartsOf(text)
  BY <1>1, LineRead
<1>3. QED
  BY <1>1, <1>2, GoesOn

(* What is in the buffer when a character x is appended.                   *)
LEMMA BufferRead ==
  ASSUME ConfigInv, NEW c \in Char, Reads(c), NEW x \in Char \union {NUL},
         buf' = Append(buf, x)
  PROVE  /\ \A j \in 1..Len(text) : buf'[j] = buf[j]
         /\ buf'[Len(text) + 1] = x
<1>1. Len(buf) = Len(text) /\ p = Len(text) + 1
  BY ReadsTypes DEF p
<1>2. QED
  BY <1>1, ReadsTypes

(* The key stays where it is.                                              *)
LEMMA KeyKept ==
  ASSUME ConfigInv, NEW c \in Char, Reads(c), NEW x \in Char \union {NUL},
         buf' = Append(buf, x), UNCHANGED key,
         NEW s, Current(text, s), NEW k \in 1..(Len(text) + 1), KeyEnds(s, k)
  PROVE  KeyEnds(s, k)'
<1> DEFINE n == Len(text)
<1>1. /\ n \in Nat /\ s \in 1..(n + 1) /\ Len(text') = n + 1
      /\ \A j \in 1..n : text'[j] = text[j]
  BY LineRead
<1>2. \A j \in 1..n : buf'[j] = buf[j]
  BY BufferRead
<1>3. /\ key \in s..(k - 1) /\ k <= n + 1
      /\ \A j \in s..(key - 1) : text[j] = Blank
      /\ \A j \in key..(k - 1) : text[j] \in Letter /\ buf[j] = text[j]
  BY DEF KeyEnds
<1>4. k <= Len(text') + 1
  BY <1>1, <1>3
<1>5. \A j \in s..(key - 1) : text'[j] = Blank
  <2>1. \A j \in s..(key - 1) : j \in 1..n
    BY <1>1, <1>3
  <2>2. QED
    BY <1>1, <1>3, <2>1
<1>6. \A j \in key..(k - 1) : text'[j] \in Letter /\ buf'[j] = text'[j]
  <2>1. \A j \in key..(k - 1) : j \in 1..n
    BY <1>1, <1>3
  <2>2. QED
    BY <1>1, <1>2, <1>3, <2>1
<1>7. QED
  BY <1>3, <1>4, <1>5, <1>6 DEF KeyEnds

(* The key, its zero and the blanks behind it stay where they are.         *)
LEMMA KeyDoneKept ==
  ASSUME ConfigInv, NEW c \in Char, Reads(c), NEW x \in Char \union {NUL},
         buf' = Append(buf, x), UNCHANGED key,
         NEW s, Current(text, s), NEW k, NEW a \in 1..Len(text), KeyDone(s, k, a)
  PROVE  KeyDone(s, k, a)'
<1> DEFINE n == Len(text)
<1>1. /\ n \in Nat /\ Len(text') = n + 1 /\ \A j \in 1..n : text'[j] = text[j]
  BY LineRead
<1>2. \A j \in 1..n : buf'[j] = buf[j]
  BY BufferRead
<1>3. /\ KeyEnds(s, k) /\ k \in 1..a /\ buf[k] = NUL
      /\ \A j \in k..a : text[j] = Blank
  BY DEF KeyDone
<1>4. KeyEnds(s, k)'
  <2>1. k \in 1..(n + 1)
    BY <1>1, <1>3
  <2>2. QED
    BY <1>3, <2>1, KeyKept
<1>5. buf'[k] = NUL /\ a <= Len(text')
  <2>1. k \in 1..n
    BY <1>1, <1>3
  <2>2. buf'[k] = NUL
    BY <1>2, <1>3, <2>1
  <2>3. a <= Len(text')
    BY <1>1
  <2>4. QED
    BY <2>2, <2>3
<1>6. \A j \in k..a : text'[j] = Blank
  <2>1. \A j \in k..a : j \in 1..n
    BY <1>1, <1>3
  <2>2. QED
    BY <1>1, <1>3, <2>1
<1>7. QED
  BY <1>3, <1>4, <1>5, <1>6 DEF KeyDone

LEMMA PreLines ==
  ASSUME ConfigInv, LinesInv, NEW c \in Char, Pre(c)
  PROVE  LinesInv'
<1> DEFINE n == Len(text)
<1>1. Reads(c) /\ state = "PRE" /\ at = "scan"
  BY DEF Pre, Reads
<1>2. PICK s \in StartsOf(text) :
        /\ Current(text, s) /\ LineOpen(s)
        /\ Done(text, StartsOf(text) \ {s}, value, initialized)
  BY <1>1 DEF LinesInv, ScanLines
<1>3. /\ text \in Word /\ n \in Nat /\ p = n + 1 /\ s \in 1..(n + 1)
      /\ text' = Append(text, c) /\ text' \in Word /\ Len(text') = n + 1
      /\ \A j \in 1..n : text'[j] = text[j]
      /\ text'[n + 1] = c
      /\ c # NL => StartsOf(text') = StartsOf(text) /\ Current(text', s)
      /\ Done(text', StartsOf(text) \ {s}, value, initialized)
  BY <1>1, <1>2, LineRead
<1>4. /\ \A j \in s..n : text[j] = Blank /\ text'[j] = Blank
  <2>1. \A j \in s..n : j \in 1..n /\ text[j] = Blank
    BY <1>1, <1>2, <1>3 DEF LineOpen
  <2>2. QED
    BY <1>3, <2>1
<1>5. ASSUME c \in {NL, Hash}
      PROVE  Done(text', StartsOf(text), value, initialized)
  <2>1. LineEnds(text', s, n + 1)
    BY <1>2, <1>3, <1>4, <1>5, Characters, LineEndsHere
  <2>2. PICK e \in Nat : e = n + 1
    BY <1>3
  <2>3. \A j \in s..(e - 1) : text'[j] = Blank
    BY <1>3, <1>4, <2>2
  <2>4. LineOf(text', s) = <<>>
    BY <1>3, <2>1, <2>2, <2>3, BlankLine
  <2>5. (StartsOf(text) \ {s}) \union {s} = StartsOf(text)
    BY <1>2
  <2>6. Done(text', (StartsOf(text) \ {s}) \union {s}, value, initialized)
    BY <1>3, <2>4, DoneBlank
  <2>7. QED
    BY <2>5, <2>6
<1>6. CASE c = Hash /\ Goes("TAIL")
  <2>1. \E j \in s..Len(text') : text'[j] = Hash
    <3>1. n + 1 \in s..Len(text')
      BY <1>3
    <3>2. QED
      BY <1>3, <1>6, <3>1
  <2>2. StartsOf(text') = StartsOf(text) /\ Current(text', s)
    BY <1>3, <1>6, Characters
  <2>3. Done(text', StartsOf(text), value, initialized)
    BY <1>5, <1>6
  <2>4. UNCHANGED <<value, initialized, at>> /\ state' = "TAIL"
    BY <1>6 DEF Goes
  <2>5. QED
    BY <1>1, <1>2, <2>1, <2>2, <2>3, <2>4, GoesOn
<1>7. CASE c \in Letter /\ Consume(c) /\ key' = p /\ Goes("KEY")
  <2>1. KeyEnds(s, Len(text) + 1)'
    <3>1. /\ key' \in s..((n + 2) - 1) /\ n + 2 <= Len(text') + 1
          /\ Len(text') + 1 = n + 2
      BY <1>3, <1>7
    <3>2. \A j \in s..(key' - 1) : text'[j] = Blank
      BY <1>3, <1>4, <1>7
    <3>3. \A j \in key'..((n + 2) - 1) : j = n + 1
      BY <1>3, <1>7
    <3>4. buf'[n + 1] = c
      BY <1>1, <1>7, BufferRead DEF Consume
    <3>5. \A j \in key'..((n + 2) - 1) : text'[j] \in Letter /\ buf'[j] = text'[j]
      BY <1>3, <1>7, <3>3, <3>4
    <3>6. QED
      BY <3>1, <3>2, <3>5 DEF KeyEnds
  <2>2. LineOpen(s)' /\ UNCHANGED <<settings, at>>
    BY <1>7, <2>1 DEF LineOpen, Goes
  <2>3. QED
    BY <1>1, <1>2, <1>7, <2>2, LineGoesOn
<1>8. CASE c = NL /\ Goes("PRE")
  <2>1. Done(text', StartsOf(text), value, initialized)
    BY <1>5, <1>8
  <2>2. UNCHANGED <<value, initialized, at>> /\ state' = "PRE"
    BY <1>8 DEF Goes
  <2>3. QED
    BY <1>1, <1>2, <1>8, <2>1, <2>2, NewLine
<1>9. CASE c = Blank /\ Goes("PRE")
  <2>1. \A j \in s..Len(text') : text'[j] = Blank
    <3>1. \A j \in s..Len(text') : j \in s..n \/ j = n + 1
      BY <1>3
    <3>2. QED
      BY <1>3, <1>4, <1>9, <3>1
  <2>2. LineOpen(s)' /\ UNCHANGED <<settings, at>>
    BY <1>9, <2>1 DEF LineOpen, Goes
  <2>3. QED
    BY <1>1, <1>2, <1>9, <2>2, LineGoesOn
<1>10. CASE c = Odd /\ Error(c)
  BY <1>1, <1>2, <1>10, OddRead DEF Error, Failed
<1>11. QED
  BY <1>6, <1>7, <1>8, <1>9, <1>10 DEF Pre

LEMMA KeyLines ==
  ASSUME ConfigInv, LinesInv, NEW c \in Char, Key(c)
  PROVE  LinesInv'
<1> DEFINE n == Len(text)
<1>1. Reads(c) /\ state = "KEY" /\ at = "scan" /\ UNCHANGED key
  BY DEF Key, Reads
<1>2. PICK s \in StartsOf(text) :
        /\ Current(text, s) /\ LineOpen(s)
        /\ Done(text, StartsOf(text) \ {s}, value, initialized)
  BY <1>1 DEF LinesInv, ScanLines
<1>3. /\ n \in Nat /\ s \in 1..(n + 1) /\ Len(text') = n + 1 /\ text'[n + 1] = c
  BY <1>1, <1>2, LineRead
<1>4. KeyEnds(s, n + 1)
  BY <1>1, <1>2 DEF LineOpen
<1>5. PICK k \in 1..(n + 1) : k = n + 1
  BY <1>3
<1>6. ASSUME NEW x \in Char \union {NUL}, buf' = Append(buf, x)
      PROVE  KeyEnds(s, k)' /\ buf'[k] = x
  BY <1>1, <1>2, <1>4, <1>5, <1>6, KeyKept, BufferRead
<1>7. CASE c \in {NL, Hash} /\ Error(c)
  BY <1>1, <1>2, <1>7, EndsEarly DEF Error, Failed
<1>8. CASE c = Odd /\ Error(c)
  BY <1>1, <1>2, <1>8, OddRead DEF Error, Failed
<1>9. CASE c = Blank /\ buf' = Append(buf, NUL) /\ Goes("DIV")
  <2>1. KeyEnds(s, k)' /\ buf'[k] = NUL
    BY <1>6, <1>9
  <2>2. /\ k \in 1..Len(text') /\ Len(text') = k
        /\ \A j \in k..Len(text') : text'[j] = Blank
    BY <1>3, <1>5, <1>9
  <2>3. KeyDone(s, k, Len(text))'
    BY <2>1, <2>2 DEF KeyDone
  <2>4. LineOpen(s)' /\ UNCHANGED <<settings, at>>
    BY <1>9, <2>2, <2>3 DEF LineOpen, Goes
  <2>5. QED
    BY <1>1, <1>2, <1>9, <2>4, LineGoesOn
<1>10. CASE c \in Letter /\ Consume(c) /\ Goes("KEY")
  <2>1. KeyEnds(s, k)' /\ buf'[k] = c /\ text'[k] = c
    BY <1>3, <1>5, <1>6, <1>10 DEF Consume
  <2>2. key' \in s..(k - 1) /\ Len(text') + 1 = k + 1
    BY <1>3, <1>5, <2>1 DEF KeyEnds
  <2>3. \A j \in key'..((k + 1) - 1) : j = k \/ j \in key'..(k - 1)
    BY <1>3, <1>5, <2>2
  <2>4. \A j \in key'..((k + 1) - 1) : text'[j] \in Letter /\ buf'[j] = text'[j]
    BY <1>10, <2>1, <2>3 DEF KeyEnds
  <2>5. key' \in s..((k + 1) - 1) /\ k + 1 <= Len(text') + 1
    BY <1>3, <1>5, <2>2
  <2>6. KeyEnds(s, Len(text) + 1)'
    BY <2>1, <2>2, <2>4, <2>5 DEF KeyEnds
  <2>7. LineOpen(s)' /\ UNCHANGED <<settings, at>>
    BY <1>10, <2>6 DEF LineOpen, Goes
  <2>8. QED
    BY <1>1, <1>2, <1>10, <2>7, LineGoesOn
<1>11. QED
  BY <1>7, <1>8, <1>9, <1>10 DEF Key

LEMMA DivLines ==
  ASSUME ConfigInv, LinesInv, NEW c \in Char, Div(c)
  PROVE  LinesInv'
<1> DEFINE n == Len(text)
<1>1. Reads(c) /\ state = "DIV" /\ at = "scan" /\ UNCHANGED key
  BY DEF Div, Reads
<1>2. PICK s \in StartsOf(text) :
        /\ Current(text, s) /\ LineOpen(s)
        /\ Done(text, StartsOf(text) \ {s}, value, initialized)
  BY <1>1 DEF LinesInv, ScanLines
<1>3. /\ n \in Nat /\ p = n + 1 /\ Len(text') = n + 1 /\ text'[n + 1] = c
  BY <1>1, <1>2, LineRead
<1>4. PICK k \in 1..n : KeyDone(s, k, n)
  BY <1>1, <1>2 DEF LineOpen
<1>5. PICK a \in 1..n : a = n
  BY <1>3, <1>4
<1>6. ASSUME Consume(c)
      PROVE  KeyDone(s, k, a)' /\ buf'[n + 1] = c
  BY <1>1, <1>2, <1>4, <1>5, <1>6, KeyDoneKept, BufferRead DEF Consume
<1>7. CASE c \in {NL, Hash} /\ Error(c)
  BY <1>1, <1>2, <1>7, EndsEarly DEF Error, Failed
<1>8. CASE c = Odd /\ Error(c)
  BY <1>1, <1>2, <1>8, OddRead DEF Error, Failed
<1>9. CASE c \in Letter /\ Consume(c) /\ arg' = p /\ Goes("ARG")
  <2>1. KeyDone(s, k, a)' /\ buf'[n + 1] = c
    BY <1>6, <1>9
  <2>2. arg' - 1 = a /\ arg' \in 2..Len(text') /\ k \in 1..Len(text')
    BY <1>3, <1>4, <1>5, <1>9
  <2>3. \A j \in arg'..Len(text') : j = n + 1
    BY <1>3, <1>9
  <2>4. /\ text'[arg'] \in Letter
        /\ \A j \in arg'..Len(text') :
             text'[j] \in Letter \union {Blank} /\ buf'[j] = text'[j]
    BY <1>3, <1>9, <2>1, <2>3
  <2>5. ArgBegun(s, k)'
    BY <2>1, <2>2, <2>4 DEF ArgBegun
  <2>6. LineOpen(s)' /\ UNCHANGED <<settings, at>>
    BY <1>9, <2>2, <2>5 DEF LineOpen, Goes
  <2>7. QED
    BY <1>1, <1>2, <1>9, <2>6, LineGoesOn
<1>10. CASE c = Blank /\ Consume(c) /\ Goes("DIV")
  <2>1. KeyDone(s, k, a)'
    BY <1>6, <1>10
  <2>2. /\ k \in 1..Len(text') /\ Len(text') = a + 1 /\ k \in 1..a
        /\ \A j \in k..Len(text') : j = n + 1 \/ j \in k..a
    BY <1>3, <1>4, <1>5
  <2>3. \A j \in k..Len(text') : text'[j] = Blank
    BY <1>3, <1>10, <2>1, <2>2 DEF KeyDone
  <2>4. KeyDone(s, k, Len(text))'
    <3>1. Len(text') <= Len(text')
      BY <1>3
    <3>2. QED
      BY <2>1, <2>2, <2>3, <3>1 DEF KeyDone
  <2>5. LineOpen(s)' /\ UNCHANGED <<settings, at>>
    BY <1>10, <2>2, <2>4 DEF LineOpen, Goes
  <2>6. QED
    BY <1>1, <1>2, <1>10, <2>5, LineGoesOn
<1>11. QED
  BY <1>7, <1>8, <1>9, <1>10 DEF Div

LEMMA CommentLines ==
  ASSUME ConfigInv, LinesInv, NEW c \in Char, Comment(c)
  PROVE  LinesInv'
<1> DEFINE n == Len(text)
<1>1. /\ Reads(c) /\ state = "TAIL" /\ at = "scan"
      /\ state' = (IF c = NL THEN "PRE" ELSE "TAIL")
      /\ UNCHANGED <<value, initialized, at>>
  BY DEF Comment, Reads, Goes
<1>2. PICK s \in StartsOf(text) :
        /\ Current(text, s) /\ \E j \in s..n : text[j] = Hash
        /\ Done(text, StartsOf(text), value, initialized)
  BY <1>1 DEF LinesInv, ScanLines, LineOpen
<1>3. /\ text \in Word /\ n \in Nat /\ s \in 1..(n + 1) /\ Len(text') = n + 1
      /\ text' = Append(text, c)
      /\ \A j \in 1..n : text'[j] = text[j]
      /\ c # NL => StartsOf(text') = StartsOf(text) /\ Current(text', s)
  BY <1>1, <1>2, LineRead
<1>4. PICK q \in s..n : text[q] = Hash
  BY <1>2
<1>5. Done(text', StartsOf(text), value, initialized)
  <2>1. LineOf(text', s) = LineOf(text, s)
    BY <1>3, <1>4, SameLine
  <2>2. \A t \in StartsOf(text) : LineOf(text', t) = LineOf(text, t)
    BY <1>2, <1>3, <2>1, EarlierLines
  <2>3. StartsOf(text) \in SUBSET (1..(n + 1)) /\ n + 1 \in Nat
    BY <1>3, StartsInFile
  <2>4. QED
    BY <1>2, <2>2, <2>3, DoneKept
<1>6. CASE c = NL
  BY <1>1, <1>2, <1>5, <1>6, NewLine
<1>7. CASE c # NL
  <2>1. q \in s..Len(text') /\ text'[q] = Hash
    <3>1. q \in 1..n
      BY <1>3, <1>4
    <3>2. QED
      BY <1>3, <1>4, <3>1
  <2>2. StartsOf(text') = StartsOf(text) /\ Current(text', s)
    BY <1>3, <1>7
  <2>3. QED
    BY <1>1, <1>2, <1>5, <1>7, <2>1, <2>2, GoesOn
<1>8. QED
  BY <1>6, <1>7

LEMMA ArgLines ==
  ASSUME ConfigInv, LinesInv, NEW c \in Char, Arg(c)
  PROVE  LinesInv'
<1> DEFINE n == Len(text)
<1>1. Reads(c) /\ state = "ARG" /\ at = "scan" /\ UNCHANGED <<key, arg>>
  BY DEF Arg, Reads
<1>2. PICK s \in StartsOf(text) :
        /\ Current(text, s) /\ LineOpen(s)
        /\ Done(text, StartsOf(text) \ {s}, value, initialized)
  BY <1>1 DEF LinesInv, ScanLines
<1>3. /\ text \in Word /\ n \in Nat /\ s \in 1..(n + 1) /\ Len(text') = n + 1
      /\ text' = Append(text, c) /\ text' \in Word
      /\ \A j \in 1..n : text'[j] = text[j]
      /\ text'[n + 1] = c
      /\ c # NL => StartsOf(text') = StartsOf(text) /\ Current(text', s)
      /\ Done(text', StartsOf(text) \ {s}, value, initialized)
  BY <1>1, <1>2, LineRead
<1>4. CASE c \in {NL, Hash} /\ buf' = Terminated(Append(buf, c), p)
           /\ state' = (IF c = NL THEN "PRE" ELSE "TAIL")
           /\ HandleKey(buf', "scan")
  <2>1. PICK b : b = buf'
    OBVIOUS
  <2>2. LineEnds(text', s, n + 1)
    <3>1. \A j \in s..n : text[j] # Hash
      BY <1>1, <1>2, OpenPlain, Characters
    <3>2. QED
      BY <1>2, <1>3, <1>4, <3>1, LineEndsHere
  <2>3. PICK w \in Word : w = text'
    BY <1>3
  <2>4. \/ at' = "error" /\ LineOf(w, s) # <<>> /\ ~FineLine(LineOf(w, s))
        \/ at' = "scan" /\ Done(w, StartsOf(text), value', initialized')
    BY <1>1, <1>2, <1>3, <1>4, <2>1, <2>2, <2>3, ArgumentHandled
  <2>5. CASE at' = "error"
    <3>1. s \in StartsOf(text')
      BY <1>1, <1>2, LineRead
    <3>2. QED
      BY <2>3, <2>4, <2>5, <3>1, Stops
  <2>6. CASE at' = "scan" /\ c = NL
    BY <1>1, <1>2, <1>4, <2>3, <2>4, <2>6, NewLine
  <2>7. CASE at' = "scan" /\ c = Hash
    <3>1. StartsOf(text') = StartsOf(text) /\ Current(text', s) /\ c # NL
      BY <1>3, <2>7, Characters
    <3>2. n + 1 \in s..Len(text') /\ text'[n + 1] = Hash
      BY <1>3, <2>7
    <3>3. QED
      BY <1>2, <1>4, <2>3, <2>4, <2>7, <3>1, <3>2, GoesOn
  <2>8. QED
    BY <1>4, <2>4, <2>5, <2>6, <2>7
<1>5. CASE c \in Letter \union {Blank} /\ Consume(c) /\ Goes("ARG")
  <2>1. PICK k \in 1..n : ArgBegun(s, k)
    BY <1>1, <1>2 DEF LineOpen
  <2>2. /\ KeyDone(s, k, arg - 1) /\ arg \in 2..n /\ text[arg] \in Letter
        /\ \A j \in arg..n : text[j] \in Letter \union {Blank} /\ buf[j] = text[j]
    BY <2>1 DEF ArgBegun
  <2>3. PICK a \in 1..n : a = arg - 1
    BY <1>3, <2>2
  <2>4. KeyDone(s, k, a)'
    BY <1>1, <1>2, <1>5, <2>2, <2>3, KeyDoneKept DEF Consume
  <2>5. (\A j \in 1..n : buf'[j] = buf[j]) /\ buf'[n + 1] = c
    BY <1>1, <1>5, BufferRead DEF Consume
  <2>6. \A j \in arg..Len(text') : (j \in arg..n /\ j \in 1..n) \/ j = n + 1
    BY <1>3, <2>2
  <2>7. \A j \in arg..Len(text') :
          text'[j] \in Letter \union {Blank} /\ buf'[j] = text'[j]
    BY <1>3, <1>5, <2>2, <2>5, <2>6
  <2>8. arg \in 2..Len(text') /\ k \in 1..Len(text') /\ text'[arg] \in Letter
    <3>1. arg \in 1..n
      BY <1>3, <2>2
    <3>2. QED
      BY <1>3, <2>2, <3>1
  <2>9. ArgBegun(s, k)'
    BY <1>1, <2>3, <2>4, <2>7, <2>8 DEF ArgBegun
  <2>10. LineOpen(s)' /\ UNCHANGED <<settings, at>>
    BY <1>5, <2>8, <2>9 DEF LineOpen, Goes
  <2>11. QED
    BY <1>1, <1>2, <1>5, <2>10, LineGoesOn
<1>6. CASE c = Odd /\ Error(c)
  BY <1>1, <1>2, <1>6, OddRead DEF Error, Failed
<1>7. QED
  BY <1>4, <1>5, <1>6 DEF Arg

(* The end of the file ends the last line.                                 *)
LEMMA EndOfFileLines ==
  ASSUME ConfigInv, LinesInv, EndOfFile
  PROVE  LinesInv'
<1> DEFINE n == Len(text)
<1>1. at = "scan" /\ UNCHANGED text /\ text \in Word /\ n \in Nat
  BY StartsInFile DEF EndOfFile, ConfigInv, ScanTypes
<1>2. PICK s \in StartsOf(text) :
        /\ Current(text, s)
        /\ \/ LineOpen(s) /\ Done(text, StartsOf(text) \ {s}, value, initialized)
           \/ state = "TAIL" /\ Done(text, StartsOf(text), value, initialized)
  BY <1>1 DEF LinesInv, ScanLines
<1>3. s \in 1..(n + 1) /\ (StartsOf(text) \ {s}) \union {s} = StartsOf(text)
  BY <1>2 DEF Current
<1>4. ASSUME LineOpen(s)
      PROVE  LineEnds(text, s, n + 1)
  <2>1. \A j \in s..n : text[j] # Hash
    BY <1>1, <1>2, <1>4, OpenPlain, Characters
  <2>2. NL \in Char
    BY DEF Char
  <2>3. QED
    BY <1>1, <1>2, <2>1, <2>2, LineEndsHere
<1>5. ASSUME at' = "defaults", Done(text, StartsOf(text), value', initialized')
      PROVE  LinesInv'
  <2>1. Defaulted'
    BY <1>1, <1>5 DEF Defaulted, Done
  <2>2. QED
    BY <1>5, <2>1 DEF LinesInv, ScanLines, Refused
<1>6. CASE state = "PRE"
  <2>1. at' = "defaults" /\ UNCHANGED settings
    BY <1>6 DEF EndOfFile
  <2>2. LineOpen(s) /\ Done(text, StartsOf(text) \ {s}, value, initialized)
    BY <1>2, <1>6
  <2>3. \A j \in s..n : text[j] = Blank
    BY <1>6, <2>2 DEF LineOpen
  <2>4. PICK e \in Nat : e = n + 1
    BY <1>1
  <2>5. LineEnds(text, s, e) /\ \A j \in s..(e - 1) : text[j] = Blank
    BY <1>1, <1>4, <2>2, <2>3, <2>4
  <2>6. LineOf(text, s) = <<>>
    BY <1>1, <2>5, BlankLine
  <2>7. Done(text, (StartsOf(text) \ {s}) \union {s}, value, initialized)
    BY <2>2, <2>6, DoneBlank
  <2>8. QED
    BY <1>3, <1>5, <2>1, <2>7
<1>7. CASE state = "TAIL"
  <2>1. at' = "defaults" /\ UNCHANGED settings
    BY <1>7 DEF EndOfFile
  <2>2. Done(text, StartsOf(text), value, initialized)
    BY <1>2, <1>7 DEF LineOpen
  <2>3. QED
    BY <1>5, <2>1, <2>2
<1>8. CASE state \in {"KEY", "DIV"}
  <2>1. at' = "error"
    BY <1>8 DEF EndOfFile, Failed
  <2>2. LineOpen(s)
    BY <1>2, <1>8
  <2>3. LineOf(text, s) # <<>> /\ ~FineLine(LineOf(text, s))
    BY <1>1, <1>2, <1>4, <1>8, <2>2, NoArgument
  <2>4. QED
    BY <1>1, <1>2, <2>1, <2>3, Stops
<1>9. CASE state = "ARG"
  <2>1. buf' = Terminated(Append(buf, NUL), p) /\ HandleKey(buf', "defaults")
    BY <1>9 DEF EndOfFile
  <2>2. LineOpen(s) /\ Done(text, StartsOf(text) \ {s}, value, initialized)
    BY <1>2, <1>9
  <2>3. PICK b : b = buf'
    OBVIOUS
  <2>4. PICK w \in Word : w = text
    BY <1>1
  <2>5. \/ at' = "error" /\ LineOf(w, s) # <<>> /\ ~FineLine(LineOf(w, s))
        \/ at' = "defaults" /\ Done(w, StartsOf(text), value', initialized')
    BY <1>1, <1>2, <1>4, <1>9, <2>1, <2>2, <2>3, <2>4, ArgumentHandled
  <2>6. CASE at' = "error"
    BY <1>1, <1>2, <2>4, <2>5, <2>6, Stops
  <2>7. CASE at' = "defaults"
    BY <1>5, <2>4, <2>5, <2>7
  <2>8. QED
    BY <2>5, <2>6, <2>7
<1>10. QED
  BY <1>6, <1>7, <1>8, <1>9 DEF ConfigInv, ScanTypes

(* A default goes to an item that no line has named.                       *)
LEMMA DefaultLines ==
  ASSUME ConfigInv, LinesInv, Default
  PROVE  LinesInv'
<1> DEFINE open == Place \ initialized
           next == CHOOSE i \in open : \A j \in open : i <= j
<1>1. at = "defaults" /\ UNCHANGED text
  BY DEF Default
<1>2. /\ \A s \in StartsOf(text) :
           LineOf(text, s) # <<>> => FineLine(LineOf(text, s))
      /\ \A i \in Place : Naming(text, StartsOf(text), i) # {} =>
           /\ i \in initialized
           /\ value[i] = ValueIn(LineOf(text, Greatest(Naming(text, StartsOf(text), i))))
      /\ \A i \in Place :
           Naming(text, StartsOf(text), i) = {} /\ i \in initialized
             => value[i] = Item[i].dflt
  BY <1>1 DEF LinesInv, Defaulted
<1>3. initialized \subseteq Place /\ DOMAIN value = Place
  BY DEF ConfigInv, ItemTypes
<1>4. CASE open = {}
  <2>1. at' = "ok" /\ UNCHANGED settings
    BY <1>4 DEF Default
  <2>2. initialized = Place
    BY <1>3, <1>4
  <2>3. Defaulted'
    BY <1>1, <1>2, <2>1, <2>2 DEF Defaulted
  <2>4. QED
    BY <2>1, <2>3 DEF LinesInv, ScanLines, Refused
<1>5. CASE open # {}
  <2>1. next \in open
    <3>1. open \in SUBSET Nat
      BY Items
    <3>2. \E i \in open : \A j \in open : i <= j
      BY <1>5, <3>1, HasLeast
    <3> HIDE DEF open
    <3>3. QED
      BY <3>2
  <2>2. ProcessItem(next, Item[next].dflt) /\ UNCHANGED at
    BY <1>5 DEF Default
  <2> HIDE DEF next
  <2>3. PICK i \in open : i = next
    BY <2>1
  <2>4. /\ value' = [value EXCEPT ![i] = Item[i].dflt]
        /\ initialized' = initialized \union {i}
    BY <2>2, <2>3 DEF ProcessItem
  <2>5. /\ value'[i] = Item[i].dflt /\ i \in Place /\ i \notin initialized
        /\ \A j \in Place : j # i => value'[j] = value[j]
    BY <1>3, <2>3, <2>4
  <2>6. Naming(text, StartsOf(text), i) = {}
    BY <1>2, <2>5
  <2>7. Defaulted'
    <3>1. \A j \in Place : Naming(text, StartsOf(text), j) # {} =>
            /\ j \in initialized'
            /\ value'[j] = ValueIn(LineOf(text, Greatest(Naming(text, StartsOf(text), j))))
      BY <1>2, <2>4, <2>5, <2>6
    <3>2. \A j \in Place :
            Naming(text, StartsOf(text), j) = {} /\ j \in initialized'
              => value'[j] = Item[j].dflt
      BY <1>2, <2>4, <2>5
    <3>3. at' # "ok"
      BY <1>1, <2>2
    <3>4. QED
      BY <1>1, <1>2, <3>1, <3>2, <3>3 DEF Defaulted
  <2>8. QED
    BY <1>1, <2>2, <2>7 DEF LinesInv, ScanLines, Refused
<1>6. QED
  BY <1>4, <1>5

LEMMA InitLines ==
  ASSUME Init
  PROVE  LinesInv
<1>1. /\ text = <<>> /\ state = "PRE" /\ at = "scan" /\ initialized = {}
      /\ \A i \in Place : value[i] = Unset
  BY DEF Init
<1>2. <<>> \in Word /\ Len(<<>>) = 0 /\ DOMAIN <<>> = {}
  BY DEF Word
<1>3. StartsOf(text) = {1}
  BY <1>1, <1>2 DEF StartsOf
<1>4. Current(text, 1) /\ LineOpen(1)
  BY <1>1, <1>2, <1>3 DEF Current, LineOpen
<1>5. Done(text, StartsOf(text) \ {1}, value, initialized)
  BY <1>1, <1>3 DEF Done, Naming
<1>6. QED
  BY <1>1, <1>3, <1>4, <1>5 DEF LinesInv, ScanLines, Defaulted, Refused

(* Every step keeps the invariant.                                         *)
LEMMA NextLines ==
  ASSUME ConfigInv, LinesInv, [Next]_vars
  PROVE  LinesInv'
<1>1. CASE UNCHANGED vars
  BY <1>1 DEF LinesInv, ScanLines, Defaulted, Refused, LineOpen, ArgBegun, KeyDone,
              KeyEnds
<1>2. QED
  BY <1>1, PreLines, KeyLines, DivLines, ArgLines, CommentLines, EndOfFileLines,
     DefaultLines DEF Next

(* The settings are those of the lines that have been read, at every       *)
(* character of the file.                                                  *)
THEOREM LinesInvariant == Spec => []LinesInv
<1>1. Init => LinesInv
  BY InitLines
<1>2. ConfigInv /\ LinesInv /\ [Next]_vars => LinesInv'
  BY NextLines
<1>3. QED
  BY <1>1, <1>2, ConfigInvariant, PTL DEF Spec

(* rie_conf_parse() with the zeros it writes into the file and with its    *)
(* five states accepts the same files, and takes the same values from      *)
(* them, as the manual's reading of one line after the other.              *)
THEOREM FilesReadByLines == Spec => []ReadsLines
<1>1. LinesInv => ReadsLines
  <2>1. SUFFICES ASSUME LinesInv PROVE ReadsLines
    OBVIOUS
  <2>2. Starts = StartsOf(text)
    BY DEF Starts, StartsOf
  <2>3. \A s : /\ LineAt(s) = LineOf(text, s)
               /\ KeyAt(s) = KeyIn(LineOf(text, s))
               /\ ValueAt(s) = ValueIn(LineOf(text, s))
    BY DEF LineAt, KeyAt, ValueAt, LineOf, KeyIn, ValueIn
  <2>4. \A s : Fine(s) <=> FineLine(LineOf(text, s))
    BY <2>3 DEF Fine, FineLine
  <2>5. Lines = {s \in StartsOf(text) : LineOf(text, s) # <<>>}
    BY <2>2, <2>3 DEF Lines
  <2>6. \A i \in Place : Of(i) = Naming(text, StartsOf(text), i)
    BY <2>3, <2>5 DEF Of, Naming
  <2>7. CASE at = "ok"
    <3>1. \A s \in Lines : Fine(s)
      BY <2>1, <2>4, <2>5, <2>7 DEF LinesInv, Defaulted
    <3>2. \A i \in Place : value[i] = IF Of(i) = {} THEN Item[i].dflt
                                      ELSE ValueAt(Greatest(Of(i)))
      BY <2>1, <2>3, <2>6, <2>7 DEF LinesInv, Defaulted
    <3>3. QED
      BY <2>7, <3>1, <3>2 DEF ReadsLines
  <2>8. CASE at = "error"
    BY <2>1, <2>4, <2>5, <2>8 DEF LinesInv, Refused, ReadsLines
  <2>9. QED
    BY <2>7, <2>8 DEF ReadsLines
<1>2. QED
  BY <1>1, LinesInvariant, PTL
===============================================================================
