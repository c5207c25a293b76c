--------------------------- MODULE MCRequestGate ---------------------------
(***************************************************************************)
(* A refused request, a sensitive one and a write at one API process, and  *)
(* a listing of the log.  The writer's handler takes as many actions as    *)
(* MaxActions allows, the sensitive one's takes one.                       *)
(***************************************************************************)
EXTENDS AuditListing

Scope == \A r \in Audited : left[r] >= MaxActions - 1

ScopedNext == ListingNext /\ Scope'
ScopedSpec == ListingInit /\ [][ScopedNext]_listVars /\ Fairness
=============================================================================
