\* Landings of three artifacts of one name by two processes; then two passes at a
\* time, three in all, over one record, and two reviewers.
CONSTANTS
  c1 = c1
  c2 = c2
  c3 = c3
  text = text
  response = response
  Contents = {c1, c2, c3, text, response}
  Putters = {w1, w2}
  MaxPuts = 4
  Names = {n}
  Oversize = {c2}
  BatchSize = 3
  Pdf = {c3}
  Text <- MCText
  Response = response
  Refs = {x}
  Passes = {p1, p2}
  Reviewers = {v1, v2}
  MaxPasses = 3
SPECIFICATION ScopedSpec
SYMMETRY Sym
INVARIANTS
  NothingDangles
  ArtifactsAreKeptApart
  ReplayAddsNothing
  DecidedOnceUnlessOverlapping
PROPERTIES
  RelandingChangesNothing
CHECK_DEADLOCK FALSE
