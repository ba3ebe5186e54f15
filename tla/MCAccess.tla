------------------------------ MODULE MCAccess ------------------------------
(***************************************************************************)
(* Service with a user of every role, and Sessions with three revocations  *)
(* and a login beside the token of the registration (two revocations can   *)
(* overlap with the login and a whole third revocation in between).  The   *)
(* two have no variable in common, and no property looks at both: each is  *)
(* run while the other is at its start.                                    *)
(***************************************************************************)
EXTENDS Service, Sessions, TLC

CONSTANTS i1, i2, l1, r1, r2, r3

Symmetry == Permutations(Ids)

Everyone ==
  {[id |-> "root", role |-> "super-admin", tenant |-> Absent],
   [id |-> "admin", role |-> "tenant-admin", tenant |-> Pilot],
   [id |-> "tutor", role |-> "supervisor", tenant |-> Legacy],
   [id |-> "student", role |-> "student", tenant |-> Pilot]}

AccessInit == ServiceInit /\ Init

AccessNext ==
  \/ Init /\ ServiceNext /\ UNCHANGED vars
  \/ ServiceInit /\ Pilot \in DOMAIN world.tenants /\ Next /\ UNCHANGED world

AccessSpec == AccessInit /\ [][AccessNext]_<<world, vars>>

=============================================================================
