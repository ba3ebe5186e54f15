------------------------------- MODULE MCChat -------------------------------
(***************************************************************************)
(* Two messages, one of them in the baseline mode, over a chat that exists *)
(* and two that may be begun: they overlap each other, a deletion and a     *)
(* restart.  Two attempts of a call are one that fails and one more.       *)
(***************************************************************************)
EXTENDS Chat

CONSTANTS m1, m2, c1, c2, c3

=============================================================================
