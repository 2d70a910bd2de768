---------------------------- MODULE MCHTTPOutlet ----------------------------
(***************************************************************************)
(* HTTPOutlet for TLC: lines are numbers, and the readers offer batches of *)
(* different sizes.  The outlets are interchangeable.                      *)
(***************************************************************************)
EXTENDS HTTPOutlet, TLC

MCLine == 1..5
MCFeed == <<<<1, 2>>, <<3>>, <<4>>, <<5>>>>
MCShortFeed == <<<<1, 2>>, <<3>>, <<4>>>>
Symmetry == Permutations(Outlets)
=============================================================================
