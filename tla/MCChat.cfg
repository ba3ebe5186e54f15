\* Two messages over two chats, and the gate they pass.
SPECIFICATION Spec
CONSTANTS
  m1 = m1
  m2 = m2
  c1 = c1
  c2 = c2
  c3 = c3
  Requests = {m1, m2}
  Gated = {m1}
  Attempts = 2
  Chats = {c1, c2, c3}
  OldChats = {c1}
CHECK_DEADLOCK FALSE
INVARIANTS
  LostOnlyByOverlap
  ShownAttemptExists
PROPERTIES
  GateKept
  DeletedStaysDeleted
  MessageSettles
