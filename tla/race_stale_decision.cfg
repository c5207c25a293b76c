\* Three legacy clusters; any request may miss the other's commit.
CONSTANTS
  a = a
  b = b
  c = c
  d = d
  A = A
  B = B
  C = C
  D = D
  None = None
  Requests = {r1, r2}
  Modes = {"confirm_match"}
  Mentions = {a, b, c}
  Entities = {A, B, C}
  Claims = {}
  Candidates = {}
  Baseline <- MCBaseline3
  BaselineEntities <- ABC
  MaxRevision = 2
SPECIFICATION RaceSpec
SYMMETRY SymRequests
INVARIANTS
  DecidedOnCurrentEvidence
CHECK_DEADLOCK FALSE
