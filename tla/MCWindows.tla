------------------------------- MODULE MCWindows -------------------------------
(* Windows for TLC: windows and boxes are interchangeable.                   *)
EXTENDS Windows, TLC

Symmetry == Permutations(Window) \union Permutations(Box)
===============================================================================
