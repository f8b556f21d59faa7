-------------------------------- MODULE Config --------------------------------
(***************************************************************************)
(* How a configuration or a skin file is read (rie_config.c): the scanner  *)
(* that takes the file apart character by character and puts zeros into    *)
(* it, the table of items that says which have been set, the defaults, and *)
(* what is taken back when the file is wrong.                              *)
(*                                                                         *)
(* A word is a sequence of characters.  What the conversions of an item    *)
(* accept is a set of words.  The file is chosen while it is read.         *)
(***************************************************************************)
EXTENDS Naturals, Sequences, FiniteSets

CONSTANTS
  Letter,   (* characters that isalnum() or ispunct(), '#' excepted         *)
  Item,     (* the table: a sequence of records [name, plain, good, dflt];  *)
            (* plain: a string without a converter, which takes every word; *)
            (* good: the words the others take                              *)
  Unset,    (* a value that has not been set                                *)
  MaxChars  (* length of the file (bounds the model)                        *)

NL == "nl" Hash == "#" Odd == "odd" NUL == "nul"
Blank == " "  (* isspace(), the newline excepted *)
Char == Letter \union {NL, Hash, Odd, Blank}
Word == Seq(Char)
Place == DOMAIN Item

ASSUME ConfigAssumption ==
  /\ Letter \intersect {NL, Hash, Odd, NUL, Blank} = {}
  /\ Unset \notin Word
  /\ Item \in Seq([name : Seq(Letter), plain : BOOLEAN,
                   good : SUBSET Word, dflt : Word])
  /\ \A i \in Place : Item[i].plain \/ Item[i].dflt \in Item[i].good
  /\ \A i, j \in Place : Item[i].name = Item[j].name => i = j
  /\ MaxChars \in Nat

VARIABLES
  text,        (* history: the file as far as it has been read              *)
  buf,         (* the same in memory, with the zeros that end words         *)
  state,       (* of the scanner                                            *)
  key, arg,    (* where the key and the argument begin                      *)
  value,       (* of each item in the settings                              *)
  initialized, (* of each item in the table                                 *)
  strings,     (* strings that have been allocated and not freed            *)
  lost,        (* history: those nothing points to                          *)
  at           (* "scan", "defaults", "ok" or "error"                       *)

scanner  == <<text, buf, state, key, arg>>
settings == <<value, initialized, strings, lost>>
vars     == <<scanner, settings, at>>

States == {"PRE", "KEY", "DIV", "ARG", "TAIL"}

TypeOK ==
  /\ text \in Word /\ Len(text) <= MaxChars
  /\ buf \in Seq(Char \union {NUL})
  /\ state \in States
  /\ key \in Nat /\ arg \in Nat
  /\ value \in [Place -> Word \union {Unset}]
  /\ initialized \subseteq Place
  /\ strings \in Nat /\ lost \in Nat
  /\ at \in {"scan", "defaults", "ok", "error"}

Init ==
  /\ text = <<>> /\ buf = <<>> /\ state = "PRE" /\ key = 1 /\ arg = 1
  /\ value = [i \in Place |-> Unset]
  /\ initialized = {} /\ strings = 0 /\ lost = 0
  /\ at = "scan"

-------------------------------------------------------------------------------
(* The items.                                                              *)

Accepts(i, word) == Item[i].plain \/ word \in Item[i].good

(* Mutant of ProcessItem: the flag is forgotten.                           *)
ProcessItemUnmarked(i, word) ==
  /\ value' = [value EXCEPT ![i] = word]
  /\ strings' = IF Item[i].plain THEN strings + 1 ELSE strings
  /\ lost' = IF Item[i].plain /\ value[i] # Unset THEN lost + 1 ELSE lost
  /\ UNCHANGED initialized

(* rie_conf_process_item() of a word the item accepts: the copy of a plain *)
(* string is kept, and the one before it forgotten; other copies are freed *)
(* by the converter.                                                       *)
ProcessItem(i, word) ==
  /\ value' = [value EXCEPT ![i] = word]
  /\ initialized' = initialized \union {i}
  /\ strings' = IF Item[i].plain THEN strings + 1 ELSE strings
  /\ lost' = IF Item[i].plain /\ value[i] # Unset THEN lost + 1 ELSE lost

(* A parse that failed; rie_conf_load() then calls rie_conf_cleanup(),     *)
(* which frees the strings of the items that were set.                     *)
Failed ==
  LET freed == {i \in initialized : Item[i].plain}
  IN  /\ at' = "error"
      /\ value' = [i \in Place |-> IF i \in freed THEN Unset ELSE value[i]]
      /\ strings' = strings - Cardinality(freed)
      /\ initialized' = {}
      /\ UNCHANGED lost

(* The string that begins at place s of b.                                 *)
String(b, s) ==
  LET ends == {i \in s..Len(b) : b[i] = NUL}
  IN  SubSeq(b, s, (CHOOSE e \in ends : \A f \in ends : e <= f) - 1)

IsSpace(c) == c \in {Blank, NL}

(* Mutant of Terminated: blanks behind the argument stay.                  *)
TerminatedOnly(b, p) == [b EXCEPT ![p] = NUL]

(* The buffer b when *p = 0 and rie_conf_strip_tail(p) have ended the      *)
(* argument.                                                               *)
Terminated(b, p) ==
  LET solid == {i \in 1..(p - 1) : ~IsSpace(b[i])}
      last  == CHOOSE i \in solid : \A j \in solid : j <= i
  IN  [i \in DOMAIN b |-> IF i \in (last + 1)..p THEN NUL ELSE b[i]]

(* rie_conf_handle_key(): the key and the argument in b; then is what      *)
(* happens next when there is such an item and it takes the argument.      *)
HandleKey(b, then) ==
  LET named == {i \in Place : Item[i].name = String(b, key)}
      word  == String(b, arg)
  IN  IF \E i \in named : Accepts(i, word)
      THEN /\ \E i \in named : ProcessItem(i, word)
           /\ at' = then
      ELSE Failed

-------------------------------------------------------------------------------
(* The scanner: rie_conf_parse().  Each action reads one character c.      *)

Reads(c) ==
  /\ at = "scan" /\ Len(text) < MaxChars
  /\ text' = Append(text, c)

p == Len(text) + 1

Consume(c) == buf' = Append(buf, c)
Goes(to)   == state' = to /\ UNCHANGED <<settings, at>>
Error(c)   == Consume(c) /\ UNCHANGED state /\ Failed

Pre(c) ==
  /\ Reads(c) /\ state = "PRE"
  /\ UNCHANGED arg
  /\ \/ c = Hash /\ Consume(c) /\ Goes("TAIL") /\ UNCHANGED key
     \/ c \in Letter /\ Consume(c) /\ key' = p /\ Goes("KEY")
     \/ c \in {NL, Blank} /\ Consume(c) /\ Goes("PRE") /\ UNCHANGED key
     \/ c = Odd /\ Error(c) /\ UNCHANGED key

Key(c) ==
  /\ Reads(c) /\ state = "KEY"
  /\ UNCHANGED <<key, arg>>
  /\ \/ c \in {NL, Hash, Odd} /\ Error(c)
     \/ c = Blank /\ buf' = Append(buf, NUL) /\ Goes("DIV")
     \/ c \in Letter /\ Consume(c) /\ Goes("KEY")

Div(c) ==
  /\ Reads(c) /\ state = "DIV"
  /\ UNCHANGED key
  /\ \/ c \in {NL, Hash, Odd} /\ Error(c) /\ UNCHANGED arg
     \/ c \in Letter /\ Consume(c) /\ arg' = p /\ Goes("ARG")
     \/ c = Blank /\ Consume(c) /\ Goes("DIV") /\ UNCHANGED arg

Arg(c) ==
  /\ Reads(c) /\ state = "ARG"
  /\ UNCHANGED <<key, arg>>
  /\ \/ /\ c \in {NL, Hash}
        /\ buf' = Terminated(Append(buf, c), p)
        /\ state' = IF c = NL THEN "PRE" ELSE "TAIL"
        /\ HandleKey(buf', "scan")
     \/ c \in Letter \union {Blank} /\ Consume(c) /\ Goes("ARG")
     \/ c = Odd /\ Error(c)

Comment(c) ==
  /\ Reads(c) /\ state = "TAIL"
  /\ UNCHANGED <<key, arg>>
  /\ Consume(c)
  /\ Goes(IF c = NL THEN "PRE" ELSE "TAIL")

(* The file ends, perhaps without a newline.                               *)
EndOfFile ==
  /\ at = "scan"
  /\ UNCHANGED <<text, state, key, arg>>
  /\ CASE state \in {"PRE", "TAIL"} ->
            at' = "defaults" /\ UNCHANGED <<buf, settings>>
       [] state \in {"KEY", "DIV"} -> Failed /\ UNCHANGED buf
       [] state = "ARG" -> /\ buf' = Terminated(Append(buf, NUL), p)
                           /\ HandleKey(buf', "defaults")

(* rie_conf_init_defaults(), one item after the other.                     *)
Default ==
  /\ at = "defaults"
  /\ UNCHANGED scanner
  /\ LET open == Place \ initialized
         next == CHOOSE i \in open : \A j \in open : i <= j
     IN  IF open = {} THEN at' = "ok" /\ UNCHANGED settings
         ELSE ProcessItem(next, Item[next].dflt) /\ UNCHANGED at

Next ==
  \/ \E c \in Char : Pre(c) \/ Key(c) \/ Div(c) \/ Arg(c) \/ Comment(c)
  \/ EndOfFile
  \/ Default

Spec == Init /\ [][Next]_vars

-------------------------------------------------------------------------------
(* What rieman.1 says of the format: "everything from '#' to end of line   *)
(* is a comment and ignored", "each line contains key and value separated  *)
(* by whitespace", "leading and trailing spaces in the value are ignored". *)

Least(S)    == CHOOSE i \in S : \A j \in S : i <= j
Greatest(S) == CHOOSE i \in S : \A j \in S : j <= i

(* w up to its first element of stops, and w without blanks at its ends.   *)
Until(w, stops) ==
  SubSeq(w, 1, Least({i \in DOMAIN w : w[i] \in stops} \union {Len(w) + 1}) - 1)
Trimmed(w) ==
  LET solid == {i \in DOMAIN w : w[i] # Blank}
  IN  IF solid = {} THEN <<>> ELSE SubSeq(w, Least(solid), Greatest(solid))

From(w, i) == SubSeq(w, i, Len(w))
Starts     == {1} \union {i + 1 : i \in {j \in DOMAIN text : text[j] = NL}}

(* The line that begins at s, and the key and value in it.                 *)
LineAt(s)  == Trimmed(Until(Until(From(text, s), {NL}), {Hash}))
KeyAt(s)   == Until(LineAt(s), {Blank})
ValueAt(s) == Trimmed(From(LineAt(s), Len(KeyAt(s)) + 1))

Lines == {s \in Starts : LineAt(s) # <<>>}
Fine(s) == /\ Odd \notin {LineAt(s)[i] : i \in DOMAIN LineAt(s)}
           /\ ValueAt(s) # <<>>
           /\ \E i \in Place : KeyAt(s) = Item[i].name /\ Accepts(i, ValueAt(s))
Of(i) == {s \in Lines : KeyAt(s) = Item[i].name}

(* A file is accepted exactly when each of its lines is empty or names an  *)
(* item and a value for it; the value of an item is then that of the last  *)
(* line that names it, or else its default.                                *)
ReadsLines ==
  /\ at = "ok" =>
       /\ \A s \in Lines : Fine(s)
       /\ \A i \in Place : value[i] = IF Of(i) = {} THEN Item[i].dflt
                                      ELSE ValueAt(Greatest(Of(i)))
  /\ at = "error" => \E s \in Lines : ~Fine(s)

(* Every string that has been allocated and not freed is the value of an   *)
(* item that is marked as set, so that a cleanup will free it, or has been *)
(* replaced by a later line of the file.                                   *)
StringsOwned ==
  /\ strings = lost + Cardinality({i \in Place : Item[i].plain /\ value[i] # Unset})
  /\ \A i \in Place : Item[i].plain => (value[i] # Unset <=> i \in initialized)

(* A file that is refused leaves no item marked as set and no string but   *)
(* those that were replaced.                                               *)
NothingLeftBehind ==
  at = "error" => initialized = {} /\ strings = lost
===============================================================================
