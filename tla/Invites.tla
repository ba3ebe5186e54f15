------------------------------ MODULE Invites -------------------------------
(***************************************************************************)
(* Invites to a tenant: POST /invites and POST /invites/{code}/redeem.     *)
(* A redeem reads the invite, the tenant's status and the users one after  *)
(* the other, none of them locked, and then inserts the user and marks the *)
(* invite in one transaction.                                              *)
(*                                                                         *)
(* One tenant: the rows of two share only the emails, which are unique     *)
(* over all tenants.  A user is named by the redeem that created it.  The  *)
(* role, which a user takes from its invite, and the refusal of a redeem   *)
(* without consent, before anything is read, are left out.                 *)
(***************************************************************************)
EXTENDS FiniteSets

CONSTANTS
  Codes,       \* random codes, never drawn twice
  Redeems,     \* redeem requests
  Emails,
  NoUser       \* the NULL of redeemed_by

ASSUME NoUserAssumption == NoUser \notin Redeems

VARIABLES
  invite,      \* the state of each invite: "none", "fresh" or "expired"
  redeemedBy,  \* invite_codes.redeemed_by, NULL exactly when redeemed_at is
  users,       \* the users registered through invites
  tstatus,     \* tenants.status
  stage,       \* where each redeem stands
  code, email, \* what it was called with
  overlap      \* history: redeems of one code that were under way at once

records     == <<invite, redeemedBy, users>>
redeeming   == <<stage, code, email, overlap>>
invitesVars == <<invite, redeemedBy, users, tstatus, stage, code, email, overlap>>

-----------------------------------------------------------------------------
Underway == {"loaded", "admitted", "checked"}

\* The other redeems of a code that hold the invite as they read it.
Rivals(r, c) == {x \in Redeems \ {r} : stage[x] \in Underway /\ code[x] = c}

InvitesInit ==
  /\ invite = [c \in Codes |-> "none"]
  /\ redeemedBy = [c \in Codes |-> NoUser]
  /\ users = {}
  /\ tstatus = "active"
  /\ stage = [r \in Redeems |-> "idle"]
  /\ code \in [Redeems -> Codes]
  /\ email \in [Redeems -> Emails]
  /\ overlap = {}

\* issue_invite.  A super-admin is not bound by the tenant's status; a TTL of
\* zero days makes an invite that has expired.
IssueCode(c) ==
  /\ invite[c] = "none"
  /\ \E super \in BOOLEAN, s \in {"fresh", "expired"} :
       /\ super \/ tstatus = "active"
       /\ invite' = [invite EXCEPT ![c] = s]
  /\ UNCHANGED <<redeemedBy, users, tstatus, redeeming>>

\* The time expires_at is reached.
Expire(c) ==
  /\ invite[c] = "fresh"
  /\ invite' = [invite EXCEPT ![c] = "expired"]
  /\ UNCHANGED <<redeemedBy, users, tstatus, redeeming>>

SetTenantStatus(s) ==
  /\ s # tstatus
  /\ tstatus' = s
  /\ UNCHANGED <<records, redeeming>>

-----------------------------------------------------------------------------
(* POST /invites/{code}/redeem *)

\* Defect: an invite that was redeemed is good until it expires.
RedeemableUntilExpiry(c) == invite[c] = "fresh"

Redeemable(c) == invite[c] = "fresh" /\ redeemedBy[c] = NoUser

LoadInvite(r) ==
  /\ stage[r] = "idle"
  /\ IF Redeemable(code[r])
     THEN /\ stage' = [stage EXCEPT ![r] = "loaded"]
          /\ overlap' = LET rivals == Rivals(r, code[r])
                        IN IF rivals = {} THEN overlap ELSE overlap \cup rivals \cup {r}
     ELSE stage' = [stage EXCEPT ![r] = "refused"] /\ UNCHANGED overlap  \* 404 or 410
  /\ UNCHANGED <<records, tstatus, code, email>>

\* 423 unless the tenant is active.
CheckTenant(r) ==
  /\ stage[r] = "loaded"
  /\ stage' = [stage EXCEPT ![r] = IF tstatus = "active" THEN "admitted" ELSE "refused"]
  /\ UNCHANGED <<records, tstatus, code, email, overlap>>

Taken(e) == \E u \in users : email[u] = e

\* 409 if the email is known.
CheckEmail(r) ==
  /\ stage[r] = "admitted"
  /\ stage' = [stage EXCEPT ![r] = IF Taken(email[r]) THEN "refused" ELSE "checked"]
  /\ UNCHANGED <<records, tstatus, code, email, overlap>>

\* Defect: the column users.email has no unique constraint.
NotUnique(e) == TRUE

UniqueEmail(e) == ~ Taken(e)

\* Defect: the invite belongs to another session, which is not committed.
RegisterOnly(r) ==
  /\ stage[r] = "checked" /\ UniqueEmail(email[r])
  /\ users' = users \cup {r}
  /\ stage' = [stage EXCEPT ![r] = "done"]
  /\ UNCHANGED <<invite, redeemedBy, tstatus, code, email, overlap>>

\* INSERT of the user, UPDATE of the invite by its key, two audit entries,
\* COMMIT; the token that follows is that of Sessions.
Register(r) ==
  /\ stage[r] = "checked" /\ UniqueEmail(email[r])
  /\ users' = users \cup {r}
  /\ redeemedBy' = [redeemedBy EXCEPT ![code[r]] = r]
  /\ stage' = [stage EXCEPT ![r] = "done"]
  /\ UNCHANGED <<invite, tstatus, code, email, overlap>>

\* The INSERT violates the unique constraint, the connection is lost or the
\* process dies: the transaction is rolled back, and the request is over.
RollBack(r) ==
  /\ stage[r] \in Underway
  /\ stage' = [stage EXCEPT ![r] = "failed"]
  /\ UNCHANGED <<records, tstatus, code, email, overlap>>

-----------------------------------------------------------------------------
InvitesNext ==
  \/ \E c \in Codes : IssueCode(c) \/ Expire(c)
  \/ \E s \in {"active", "read-only"} : SetTenantStatus(s)
  \/ \E r \in Redeems : \/ LoadInvite(r) \/ CheckTenant(r) \/ CheckEmail(r)
                        \/ Register(r) \/ RollBack(r)

InvitesSpec == InvitesInit /\ [][InvitesNext]_invitesVars

-----------------------------------------------------------------------------
\* Type of every variable.
InvitesTypeOK ==
  /\ invite \in [Codes -> {"none", "fresh", "expired"}]
  /\ redeemedBy \in [Codes -> Redeems \cup {NoUser}]
  /\ users \subseteq Redeems
  /\ tstatus \in {"active", "read-only"}
  /\ stage \in [Redeems -> Underway \cup {"idle", "done", "refused", "failed"}]
  /\ code \in [Redeems -> Codes] /\ email \in [Redeems -> Emails]
  /\ overlap \subseteq Redeems

\* The users that came through an invite.
Joined(c) == {u \in users : code[u] = c}

\* An invite that made a user is marked as redeemed, and by one of its users;
\* an invite is never spent without a user, whatever fails in between.
InviteNamesItsUser ==
  \A c \in Codes : IF Joined(c) = {} THEN redeemedBy[c] = NoUser
                                     ELSE redeemedBy[c] \in Joined(c)

\* Concurrent redeems of one email, by the same or by different invites, make
\* one account: the check of redeem_invite alone does not see to it.
OneAccountPerEmail ==
  \A u, v \in users : email[u] = email[v] => u = v

\* An invite makes two users only if their redeems were under way at once: one
\* that starts after another has registered is refused.
ReuseOnlyByOverlap ==
  \A u, v \in users : u # v /\ code[u] = code[v] => {u, v} \subseteq overlap

=============================================================================
