\* Issue, expiry, tenant status, and concurrent redeems.
SPECIFICATION InvitesSpec
CONSTANTS
  i1 = i1
  i2 = i2
  r1 = r1
  r2 = r2
  r3 = r3
  e1 = e1
  e2 = e2
  NoUser = NoUser
  Codes = {i1, i2}
  Redeems = {r1, r2, r3}
  Emails = {e1, e2}
SYMMETRY Symmetry
INVARIANTS
  InviteNamesItsUser
  OneAccountPerEmail
  ReuseOnlyByOverlap
