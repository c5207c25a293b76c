\* One late mention: is the map what the ledger replays to?
CONSTANTS
  a = a
  b = b
  m = m
  A = A
  B = B
  C = C
  None = None
  Modes = {"confirm_match", "reject_match", "split_entity", "mark_unresolved"}
  Mentions = {a, b, m}
  Entities = {A, B, C}
  Claims = {k1}
  Candidates = {}
  Baseline <- MCBaseline2
  BaselineEntities <- AB
  MaxRevision = 2
SPECIFICATION Spec
INVARIANTS
  MapIsReplay
CHECK_DEADLOCK FALSE
