------------------------------ MODULE LineFate ------------------------------
(***************************************************************************)
(* What a shuttle promises of a line, and nothing of how it keeps it.  A   *)
(* line is held from when it is read until it is queued for the outlets    *)
(* or, with -drop, dropped; an outlet then takes it and it ends accepted,  *)
(* refused or lost.  A line never goes back, and ends once.                *)
(*                                                                         *)
(* Lines move in runs, consecutive lines of one reader (a batch), and the  *)
(* lines of a reader are read, queued or dropped, and taken in the order   *)
(* of its input; in which order they end is left open.                     *)
(***************************************************************************)
EXTENDS Naturals

CONSTANTS
  Readers,   \* the inputs
  MaxLines,  \* bound: the number of lines that each input provides
  Drop       \* whether lines may be dropped

VARIABLE fate

Line == Readers \X (1..MaxLines)

Final == {"dropped", "acked", "refused", "lost"}

\* The fates that may follow a fate.
After(from) ==
  CASE from = "unread" -> {"held"}
    [] from = "held" -> {"queued"} \cup IF Drop THEN {"dropped"} ELSE {}
    [] from = "queued" -> {"posting"}
    [] from = "posting" -> {"acked", "refused", "lost"}
    [] OTHER -> {}

\* Lines are read one by one, and leave these fates in the order of the input.
InOrder == {"unread", "held", "queued"}

\* The lines i to j of reader r, and only they, move to the next fate.
Move(r, i, j) ==
  LET from == fate[<<r, i>>] IN
  /\ \A n \in i..j : fate[<<r, n>>] = from
  /\ from = "unread" => i = j
  /\ from \in InOrder => \A n \in 1..(i - 1) : fate[<<r, n>>] # from
  /\ \E to \in After(from) :
       fate' = [l \in Line |-> IF l \in {r} \X (i..j) THEN to ELSE fate[l]]

Init == fate = [l \in Line |-> "unread"]

Next == \E r \in Readers : \E i \in 1..MaxLines : \E j \in i..MaxLines : Move(r, i, j)

Spec == Init /\ [][Next]_fate
=============================================================================
