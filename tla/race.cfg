\* One legacy cluster and a late mention, every kind of request; any may miss the other's commit.
CONSTANTS
  a = a
  b = b
  c = c
  d = d
  A = A
  B = B
  C = C
  D = D
  None = None
  Requests = {r1, r2}
  Modes = {"confirm_match", "reject_match", "split_entity", "mark_unresolved"}
  Mentions = {a, d}
  Entities = {A, C}
  Claims = {k}
  Candidates = {cd}
  Baseline <- MCBaseline1
  BaselineEntities <- AlsoA
  MaxRevision = 2
SPECIFICATION RaceSpec
SYMMETRY SymRequests
INVARIANTS
  OneEntityPerMention
PROPERTIES
  ActsAsOneStep
CHECK_DEADLOCK FALSE
