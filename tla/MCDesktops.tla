------------------------------ MODULE MCDesktops ------------------------------
(* Small instances of Desktops: the configurations the runs load.            *)
EXTENDS Desktops

Config(wrap, horz, corner, subset, start, ndesktops) ==
  [wrap |-> wrap, horz |-> horz, corner |-> corner,
   subset |-> subset, start |-> start, ndesktops |-> ndesktops]

Whole == Config(2, TRUE, "BOTTOMRIGHT", FALSE, 0, 1)

(* A row of all desktops, a wrapped grid, subsets that fit, reach over the   *)
(* end, begin behind it or are empty.                                        *)
Layouts == {Whole,
            Config(0, TRUE, "TOPLEFT", TRUE, 1, 2),
            Config(2, FALSE, "TOPRIGHT", TRUE, 1, 5),
            Config(1, FALSE, "BOTTOMLEFT", TRUE, 3, 0)}

Plain == {Whole}
Grids == {Whole, Config(0, TRUE, "TOPLEFT", TRUE, 1, 2)}
SecondHalf == {Config(0, TRUE, "TOPLEFT", TRUE, 1, 2)}
===============================================================================
