---------------------------- MODULE MCLoggerList -----------------------------
(***************************************************************************)
(* LoggerList on a small heap.  No definition tells two cells or two names *)
(* apart except by equality.                                               *)
(***************************************************************************)
EXTENDS LoggerList, TLC

Symmetry == Permutations(Cell) \cup Permutations(Name)

=============================================================================
