\* Three legacy clusters and a spare entity; four claims, two of a symmetric predicate; two rebuilds.
CONSTANTS
  a = a
  b = b
  c = c
  A = A
  B = B
  C = C
  D = D
  k1 = k1
  k2 = k2
  k3 = k3
  k4 = k4
  None = None
  Modes = {"confirm_match", "reject_match", "split_entity"}
  Mentions = {a, b, c}
  Entities = {A, B, C, D}
  Claims = {k1, k2, k3, k4}
  Candidates = {}
  Baseline <- MCBaseline3
  BaselineEntities <- ABC
  MaxRevision = 4
  LastDay = 6
  Symmetric = {k1, k2}
  Builders = {u, v}
  Readable = {k2, k3, k4}
  MaxHops = 2
  MaxElements = 5
  MaxPathHops = 3
SPECIFICATION ScopedSpec
SYMMETRY Sym
INVARIANTS
  DecidedOnCurrentEvidence
  LedgerIsCoherent
  UnmarkedRowsAreCurrent
  RowsOfAnEdgeAreDisjoint
  PanelLosesNothing
  AnswerIsWhatWasAsked
  CanvasAndPanelAgree
  SegmentsMatchDays
  RoutesAreShortest
PROPERTIES
  AnsweredAsOfNow
CHECK_DEADLOCK FALSE
