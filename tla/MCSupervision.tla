--------------------------- MODULE MCSupervision ---------------------------
(***************************************************************************)
(* Two students, one of them registered later, two choices, and a report   *)
(* of any kind (two reports share nothing that either writes but the log,  *)
(* where each has its own entries), over at most one program and, for each *)
(* student, one attempt about it and one about none.                       *)
(***************************************************************************)
EXTENDS Supervision, TLC

CONSTANTS s1, s2, k1, k2, r1

\* The choices differ in nothing but their names.
Symmetry == Permutations(Clicks)

=============================================================================
