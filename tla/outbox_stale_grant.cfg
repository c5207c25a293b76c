\* Two requests about one seat overlap.
CONSTANTS
  None = None
  Seats = {seat}
  Roles = {analyst, supervisor}
  Items = {}
  Officers = {x, y}
  Links = {}
  Cases = {case1}
  Clients = {c1, c2}
  BatchSize = 2
  Drift = {}
  MaxRequests = 3
  MaxCrashes = 0
  MaxRebuilds = 0
SPECIFICATION Spec
INVARIANTS
  NoStaleGrant
CHECK_DEADLOCK FALSE
