\* Two legacy clusters, one late mention, one spare entity, and two analysts with one
\* claim, or two runs of the producers with two of three claims, or an import and its
\* reruns with four claims, or two clerks with one claim and two ticks.
CONSTANTS
  a = a
  b = b
  m = m
  A = A
  B = B
  C = C
  k1 = k1
  k2 = k2
  k3 = k3
  k4 = k4
  number = number
  registry = registry
  one = one
  two = two
  Analysts = {x1, x2}
  None = None
  Modes = {"confirm_match", "reject_match", "split_entity", "mark_unresolved"}
  Mentions = {a, b, m}
  Entities = {A, B, C}
  Claims = {k1, k2, k3, k4}
  Candidates = {cand}
  Baseline <- MCBaseline
  BaselineEntities <- AB
  MaxRevision = 2
  Document <- MCDocument
  NormKey <- MCNormKey
  Identifier <- MCIdentifier
  Issuer <- MCIssuer
  ValidFrom <- MCFrom
  ValidTo <- MCTo
  LastDay = 3
  Runs = {r1, r2}
  MaxRuns = 2
  Nodes <- MCNodes
  NodeRecord <- MCNodeRecord
  Aliases <- MCAliases
  Affiliations <- MCAffiliations
  Edges <- MCEdges
  VerbRemap <- MCVerbRemap
  SymmetricPredicates <- MCSymmetric
  Clerks = {x1, x2}
  MaxTime = 2
SPECIFICATION ScopedSpec
SYMMETRY Sym
INVARIANTS
  TypeOK
  OneEntityPerMention
  AnchorsHeldWhenWritten
  MapIsReplayWithoutLateMentions
  SplitsQueueTheUnattributed
  NothingIsProposedAgain
  PreVerifiedOnAgreeingEvidence
  ImportIsFaithful
  PastAnswersHold
PROPERTIES
  PastIsFrozen
  OnlyLateMentionsGoUnseen
  ImportIsRepeatable
CHECK_DEADLOCK FALSE
