--------------------------- MODULE MCAuthzOutbox ----------------------------
(***************************************************************************)
(* Small instances of AuthzProjection for TLC.  The run explores three     *)
(* scopes: four requests about a seat and a crash, after a rebuild that    *)
(* left nothing in doubt; two about a seat and a crash, before, in or      *)
(* after a rebuild; and, without crashes, requests about anything, two at  *)
(* any time and a third while no rebuild is at work.                       *)
(***************************************************************************)
EXTENDS AuthzProjection

CONSTANTS seat, item, analyst, supervisor, x, y

Restored == {<<seat, analyst>>, <<item, x>>}
NothingRestored == {}

SeatsOnly == \A p \in Places \ Seats : holder[p] = None

NotRebuilding == rebuilds = 0 \/ (rebuild.stage = "done" /\ doubtful = {})

SeatsAfterRebuild == SeatsOnly /\ NotRebuilding /\ (rebuilds = 0 => requests = 0 /\ crashes = 0)

SeatsAcrossRebuild == SeatsOnly /\ requests <= 2

AnythingAtOnce == crashes = 0 /\ (requests <= 2 \/ (requests <= 3 /\ NotRebuilding))

Scope == SeatsAfterRebuild \/ SeatsAcrossRebuild \/ AnythingAtOnce

ScopedNext == ProjectionNext /\ Scope'
ScopedSpec == ProjectionInit /\ [][ScopedNext]_projectionVars /\ Fairness
=============================================================================
