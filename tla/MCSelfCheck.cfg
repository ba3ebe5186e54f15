\* Concurrent, repeated and failing submits, with one crash.
SPECIFICATION Spec
CONSTANTS
  s1 = s1
  s2 = s2
  s3 = s3
  a1 = a1
  a2 = a2
  Attempts = {a1, a2}
  Submits = {s1, s2, s3}
  Sees <- SeenAttempts
  Supers = {s3}
  None = None
  MaxCrashes = 1
INVARIANTS
  CompletedWasEvaluated
  SerialSubmitsAgree
  ResponseOfOneSubmit
PROPERTIES
  AnswersGetVerdict
