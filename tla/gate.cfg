\* Nobody ever waits for the lock of a handler that raised.
CONSTANTS
  None = None
  Writers = {d, s, h}
  Denied = {d}
  Sensitive = {s}
  MaxActions = 3
  MaxId = 7
  MaxDepth = 2
  Filters = {None, h}
  Limits = {1}
SPECIFICATION ScopedSpec
INVARIANTS
  ChainTypeOK
  ChainVerifies
  AuditedBeforeHandled
  ListingIsASnapshot
PROPERTIES
  CommittedInOrder
  DenialsPersist
CHECK_DEADLOCK FALSE
