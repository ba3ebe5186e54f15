----------------------------- MODULE MCInvites -----------------------------
(***************************************************************************)
(* Three redeems over two invites and two emails, so that two overlap and  *)
(* a third comes before, between or after.                                 *)
(***************************************************************************)
EXTENDS Invites, TLC

CONSTANTS i1, i2, r1, r2, r3, e1, e2

Symmetry == Permutations({i1, i2}) \cup Permutations({r1, r2, r3}) \cup Permutations({e1, e2})

=============================================================================
