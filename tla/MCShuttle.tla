------------------------------ MODULE MCShuttle ------------------------------
(***************************************************************************)
(* Shuttle for TLC.                                                        *)
(***************************************************************************)
EXTENDS Shuttle, TLC

\* Outlets are interchangeable; readers are not, Tracked tells them apart.
Symmetry == Permutations(Outlets)
=============================================================================
