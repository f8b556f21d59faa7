------------------------------- MODULE MCTiling -------------------------------
(***************************************************************************)
(* Tiling with short lists of windows of every kind, which change one by   *)
(* one, and long lists of plain windows, where the layouts have up to      *)
(* three rows and columns and a last column that is not full.              *)
(***************************************************************************)
EXTENDS Tiling

CONSTANT MaxPlain (* the longest list of plain windows *)

MCArea == {[x |-> 3, y |-> 5, w |-> 41, h |-> 32]}

Framed == [x |-> 1, y |-> 2, w |-> 1, h |-> 1]

MCFrame == {Bare, Framed}

Shown(d, f) == [desktop |-> d, state |-> "shown", dock |-> FALSE,
                dead |-> FALSE, frame |-> f]

(* n plain windows, and two that change.                                   *)
Plain(n, f) == [i \in 1..n |-> Shown(0, f)]
Short == {<<Shown(0, Bare), Shown(1, Framed)>>}

MCLists == {<<>>} \union Short
           \union {Plain(n, f) : n \in 1..MaxPlain, f \in MCFrame}
===============================================================================
