-------------------------------- MODULE MCGrid --------------------------------
(***************************************************************************)
(* The grid in three styles and on three screens, with a few icons and     *)
(* places for the pager.                                                   *)
(***************************************************************************)
EXTENDS Pager

(* With a label below, without borders and label, with a label above.      *)
MCStyles == {
  [w |-> 14, h |-> 0, text |-> 3, margin |-> 1, pad |-> TRUE, above |-> FALSE,
   border |-> 1, vpborder |-> 1],
  [w |-> 11, h |-> 8, text |-> 3, margin |-> 1, pad |-> FALSE, above |-> FALSE,
   border |-> 0, vpborder |-> 0],
  [w |-> 12, h |-> 9, text |-> 2, margin |-> 0, pad |-> TRUE, above |-> TRUE,
   border |-> 2, vpborder |-> 2]}

(* One viewport; two rows of two, and a rest; the right one of two monitors. *)
MCScreens == {
  [geom |-> Rect(0, 0, 32, 20), root |-> Rect(0, 0, 32, 20),
   monitor |-> Rect(0, 0, 0, 0), subset |-> FALSE],
  [geom |-> Rect(0, 0, 72, 42), root |-> Rect(0, 0, 32, 20),
   monitor |-> Rect(0, 0, 0, 0), subset |-> FALSE],
  [geom |-> Rect(0, 0, 40, 20), root |-> Rect(0, 0, 40, 20),
   monitor |-> Rect(22, 4, 18, 16), subset |-> TRUE]}

MCImages == {<<[w |-> 16, h |-> 16]>>,
             <<[w |-> 3, h |-> 4], [w |-> 9, h |-> 6], [w |-> 4, h |-> 3]>>,
             <<[w |-> 2, h |-> 12], [w |-> 2, h |-> 2]>>}

MCWorkareas == {Rect(0, 0, 120, 90), Rect(0, 6, 140, 120), Rect(20, 0, 120, 84)}
MCOffsets == [x : {0, 5}, y : {0, 3}]
===============================================================================
