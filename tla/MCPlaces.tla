------------------------------- MODULE MCPlaces -------------------------------
(***************************************************************************)
(* Places with two windows and two desktops.                               *)
(***************************************************************************)
EXTENDS Places, TLC

MCAreas == {<<[x |-> 2, w |-> 18], [x |-> 2, w |-> 18]>>, <<[x |-> 0, w |-> 20]>>}
MCViews == {<<0>>, <<20, 0>>}
MCSymmetry == Permutations(Window)

MCRoots == {<<5>>}
===============================================================================
