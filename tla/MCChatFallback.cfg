\* The fallback after a failed hybrid search, and the chat it was asked for.
SPECIFICATION Spec
CONSTANTS
  m1 = m1
  m2 = m2
  c1 = c1
  c2 = c2
  c3 = c3
  Requests = {m1, m2}
  Gated = {m1}
  Attempts = 2
  Chats = {c1, c2, c3}
  OldChats = {c1}
CHECK_DEADLOCK FALSE
INVARIANTS
  FallbackServes
