\* A document is deleted while its chunks count for a topic.
SPECIFICATION Spec
CONSTANTS
  u1 = u1
  u2 = u2
  d1 = d1
  d2 = d2
  r1 = r1
  r2 = r2
  f1 = f1
  f2 = f2
  Uploads = {u1, u2}
  Syllabus <- TwoPrograms
  Attaches = {r1, r2}
  Flips = {f1, f2}
  Docs = {d1, d2}
  Chunks <- ChunkCount
INVARIANTS
  CoverageExact
SYMMETRY Symmetry
CHECK_DEADLOCK FALSE
