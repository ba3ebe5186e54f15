---------------------------- MODULE MCCoverage ----------------------------
(***************************************************************************)
(* Two programs, of two topics and of one; two documents, of one and of    *)
(* two chunks; two attach requests and two changes of a document's status. *)
(***************************************************************************)
EXTENDS Coverage, TLC

CONSTANTS u1, u2, d1, d2, r1, r2, f1, f2

TwoPrograms == (u1 :> {"1.1", "1.2"}) @@ (u2 :> {"1.1"})
ChunkCount  == (d1 :> 1) @@ (d2 :> 2)

Symmetry == Permutations({r1, r2}) \cup Permutations({f1, f2})

=============================================================================
