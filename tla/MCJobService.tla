--------------------------- MODULE MCJobService ---------------------------
(* Small instances of JobService for TLC. *)
EXTENDS JobService, TLC

Symmetric == Permutations(Requests) \cup Permutations(Crons)
=============================================================================
