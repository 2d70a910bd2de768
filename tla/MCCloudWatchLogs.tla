-------------------------- MODULE MCCloudWatchLogs --------------------------
(***************************************************************************)
(* CloudWatchLogs for TLC.  Lines are numbered in the order of the input.  *)
(***************************************************************************)
EXTENDS CloudWatchLogs, TLC

MCLine == 1..5
MCFeed == <<<<1, 2>>, <<3>>, <<4>>, <<5>>>>
Symmetry == Permutations(Outlets)
=============================================================================
