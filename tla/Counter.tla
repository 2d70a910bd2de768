------------------------------- MODULE Counter -------------------------------
(***************************************************************************)
(* counter.go: the two counters the shuttle shares between its goroutines, *)
(* Drops (lines a reader dropped) and Lost (lines an outlet gave up on).   *)
(* Every method holds the embedded Mutex from its first to its last        *)
(* statement, so each is one atomic step of its caller and is modelled by  *)
(* what it returns and what it leaves behind.  lastRAR, the time printed   *)
(* in a report, is abstracted away.                                        *)
(***************************************************************************)
EXTENDS Naturals

CounterType == [value : Nat, allTime : Nat]

NewCounter(initial) == [value |-> initial, allTime |-> initial]

Add(c, u) == [value |-> c.value + u, allTime |-> c.allTime + u]

\* ReadAndReset returns Read(c) and leaves Reset(c) behind.
Read(c) == c.value

\* Mutant of Reset: the value survives, so the next report repeats it.
NoReset(c) == c

Reset(c) == [c EXCEPT !.value = 0]
=============================================================================
