--------------------------- MODULE MCLogLineReader ---------------------------
(***************************************************************************)
(* LogLineReader for TLC.  The readers are interchangeable: a run without  *)
(* a liveness property may take them for symmetric.                        *)
(***************************************************************************)
EXTENDS LogLineReader, TLC

Symmetry == Permutations(Readers)
=============================================================================
