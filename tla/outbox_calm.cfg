\* A store that had drifted and its rebuild, requests that do not overlap, crashes and failures of the drain.
CONSTANTS
  seat = seat
  item = item
  analyst = analyst
  supervisor = supervisor
  x = x
  y = y
  None = None
  Seats = {seat}
  Roles = {analyst, supervisor}
  Items = {item}
  Officers = {x, y}
  Links = {link}
  Cases = {case1}
  Clients = {c1, c2}
  BatchSize = 2
  Drift <- Restored
  MaxRequests = 4
  MaxCrashes = 1
  MaxRebuilds = 1
SPECIFICATION ScopedSpec
INVARIANTS
  TypeOK
  StoreFollows
  RolesNeverOverlap
PROPERTIES
  ChangesReachTheStore
CHECK_DEADLOCK FALSE
