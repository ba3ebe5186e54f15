\* Requests of every kind, one after the other, in two tenants; and logins and
\* revocations, interleaved.  Those of Sessions come to an end.
SPECIFICATION AccessSpec
CONSTANTS
  Slugs = {"pilot", "default"}
  Pilot = "pilot"
  Legacy = "default"
  Absent = "none"
  Users <- Everyone
  i1 = i1
  i2 = i2
  Ids = {i1, i2}
  Settings = {"high"}
  MaxTrail = 2
  MaxRows = 2
  l1 = l1
  r1 = r1
  r2 = r2
  r3 = r3
  Logins = {l1}
  Revokes = {r1, r2, r3}
  MaxVersion = 3
SYMMETRY Symmetry
CHECK_DEADLOCK FALSE
INVARIANTS
  AccessHolds
  TrailAccounts
PROPERTIES
  RevokedStayDead
