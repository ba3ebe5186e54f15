------------------------------ MODULE Sessions ------------------------------
(***************************************************************************)
(* Access tokens of one user: login, the check of every request, and POST  *)
(* /me/sessions/revoke, which makes the tokens issued so far worthless by  *)
(* raising users.jwt_version.  A handler reads the version in one step and *)
(* uses what it read in a later one; a revocation writes it back as an     *)
(* absolute value.                                                         *)
(*                                                                         *)
(* Tokens with the same jv differ in nothing that is looked at, and a      *)
(* request chooses its user by the sub of its token, so that the sets of   *)
(* two users have nothing in common.  Left out: passwords (a login that    *)
(* fails changes nothing here) and deleted_at, which no code sets.         *)
(***************************************************************************)
EXTENDS Integers

CONSTANTS
  Logins,       \* requests to /auth/login with the right password
  Revokes,      \* requests to /me/sessions/revoke
  MaxVersion    \* bound on the version up to which operators raise it

ASSUME SessionsAssumption ==
  /\ Logins \cap Revokes = {}
  /\ MaxVersion \in Nat

VARIABLES
  version,      \* users.jwt_version
  tokens,       \* the jv of the tokens that were issued and are not expired
  pc,           \* where a request stands
  held,         \* the version it has read
  stale         \* history: a revocation wrote what it computed from an old one

Requests == Logins \cup Revokes
vars     == <<version, tokens, pc, held, stale>>

-----------------------------------------------------------------------------
\* get_current_user: the version in the token is the one in the row.
Passes(jv) == jv = version

\* A user starts with the version of redeem_invite, and the token it returns.
Init ==
  /\ version = 1
  /\ tokens = {1}
  /\ pc = [r \in Requests |-> "idle"]
  /\ held = [r \in Requests |-> 1]
  /\ stale = FALSE

\* The SELECT of a handler or of get_current_user, whose session keeps the row.
Read(r) ==
  /\ pc[r] = "idle"
  /\ pc' = [pc EXCEPT ![r] = "read"]
  /\ held' = [held EXCEPT ![r] = version]
  /\ UNCHANGED <<version, tokens, stale>>

ReadUser(l) == Read(l)

Authenticate(r) == (\E jv \in tokens : Passes(jv)) /\ Read(r)

\* The password is verified, and the token is issued.
IssueToken(l) ==
  /\ pc[l] = "read"
  /\ tokens' = tokens \cup {held[l]}
  /\ pc' = [pc EXCEPT ![l] = "done"]
  /\ UNCHANGED <<version, held, stale>>

\* Defect: the expression (jwt_version or 1) + 1 without the parentheses.
NextVersionOr(v) == IF v # 0 THEN v ELSE 1 + 1

NextVersion(v) == (IF v # 0 THEN v ELSE 1) + 1

\* UPDATE of the row that was read, audit entry, COMMIT.
RevokeSessions(r) ==
  /\ pc[r] = "read"
  /\ version' = NextVersion(held[r])
  /\ stale' = (stale \/ held[r] # version)
  /\ pc' = [pc EXCEPT ![r] = "done"]
  /\ UNCHANGED <<tokens, held>>

\* The UPDATE of the runbooks, when a password is reset or an account misused.
BumpVersion ==
  /\ version < MaxVersion
  /\ version' = version + 1
  /\ UNCHANGED <<tokens, pc, held, stale>>

\* Eight hours are over.
ExpireTokens(jv) ==
  /\ jv \in tokens
  /\ tokens' = tokens \ {jv}
  /\ UNCHANGED <<version, pc, held, stale>>

\* The connection is lost, or the process dies.
Fail(r) ==
  /\ pc[r] = "read"
  /\ pc' = [pc EXCEPT ![r] = "failed"]
  /\ UNCHANGED <<version, tokens, held, stale>>

-----------------------------------------------------------------------------
Next ==
  \/ \E l \in Logins : ReadUser(l) \/ IssueToken(l)
  \/ \E r \in Revokes : Authenticate(r) \/ RevokeSessions(r)
  \/ BumpVersion
  \/ \E jv \in tokens : ExpireTokens(jv)
  \/ \E r \in Requests : Fail(r)

Spec == Init /\ [][Next]_vars

-----------------------------------------------------------------------------
\* Type of every variable.
TypeOK ==
  /\ version \in Nat \ {0}
  /\ tokens \subseteq Nat \ {0}
  /\ pc \in [Requests -> {"idle", "read", "done", "failed"}]
  /\ held \in [Requests -> Nat \ {0}]
  /\ stale \in BOOLEAN

Revoked(r) == pc[r] = "read" /\ pc'[r] = "done"

\* A revocation, or an operator's UPDATE, leaves no token that passes: neither
\* those issued before it, nor any that an earlier one had made worthless, as
\* long as no revocation has written over an UPDATE that it had not seen.
RevokedStayDead ==
  [][~ stale' /\ (version' # version \/ \E r \in Revokes : Revoked(r)) =>
       \A jv \in tokens : ~ Passes(jv)']_vars

=============================================================================
