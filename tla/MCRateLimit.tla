---------------------------- MODULE MCRateLimit -----------------------------
(***************************************************************************)
(* One address with one email, and the LLM quota of one user.  An email    *)
(* may be tried once and the address twice in three ticks of half a        *)
(* second, the LLM asked once in four: the limits are small, so that six   *)
(* ticks fill and empty every bucket, and a restart falls in between.      *)
(***************************************************************************)
EXTENDS RateLimit, TLC

CONSTANTS e1, ip, user

MCBuckets == {e1, ip, user}
MCCharges == {<<e1, ip>>, <<user>>}
MCLimit   == (e1 :> 1) @@ (ip :> 2) @@ (user :> 1)
MCWindow  == (e1 :> 3) @@ (ip :> 3) @@ (user :> 4)

=============================================================================
