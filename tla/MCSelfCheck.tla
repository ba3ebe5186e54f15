---------------------------- MODULE MCSelfCheck ----------------------------
(***************************************************************************)
(* Three submits over two attempts: two of the owner of both, and one that *)
(* only sees the first, made by a super-admin of that attempt's tenant.    *)
(***************************************************************************)
EXTENDS SelfCheck

CONSTANTS s1, s2, s3, a1, a2

SeenAttempts == ({s1, s2} \X {a1, a2}) \cup {<<s3, a1>>}

=============================================================================
