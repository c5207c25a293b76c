---------------------------- MODULE CanonicalMap ----------------------------
(***************************************************************************)
(* The canonical entity map as a function of the identity ledger           *)
(* (aegis/er/canonical.py).  Nothing here has state: the map is derived    *)
(* from the membership rows and the decisions, replayed in revision order. *)
(*                                                                         *)
(* A membership row is [mention, entity, opened, closed], where opened and *)
(* closed are the revisions that opened and closed it.  A decision is a    *)
(* record with at least the fields kind and revision.                      *)
(***************************************************************************)
EXTENDS Naturals, FiniteSets, Functions

\* closed_revision_id IS NULL.  Revision 0 is the migration baseline: it has
\* no decision, so it closes nothing and its number is free to mean NULL.
Open == 0

NoLineage == [e \in {} |-> e]

\* The entities that gained, respectively lost, a mention at a revision.
OpenedAt(rows, rev) == {row.entity : row \in {x \in rows : x.opened = rev}}
ClosedAt(rows, rev) ==
  {row.entity : row \in {x \in rows : x.closed # Open /\ x.closed = rev}}

(***************************************************************************)
(* The replay: a function from each loser to the entity that absorbed it.  *)
(* A confirm with exactly one gaining entity points every loser at it, any *)
(* other confirm is left alone; a split lets each gaining entity stand on  *)
(* its own again; the other kinds move nothing.                            *)
(***************************************************************************)
AfterConfirm(parent, gained, lost) ==
  IF Cardinality(gained) = 1
  THEN LET winner == CHOOSE e \in gained : TRUE
       IN  [e \in DOMAIN parent \cup lost |->
              IF e \in lost THEN winner ELSE parent[e]]
  ELSE parent

\* Slip: a split forgets to let its target stand on its own.
AfterSplitKeeping(parent, gained) == parent

AfterSplit(parent, gained) == Restrict(parent, DOMAIN parent \ gained)

\* One revision: of what kind its decision was, and what it moved.
AfterRevision(rows, decisions, rev, parent) ==
  LET kinds  == {d.kind : d \in {x \in decisions : x.revision = rev}}
      gained == OpenedAt(rows, rev)
      lost   == ClosedAt(rows, rev) \ gained
  IN  IF "confirm" \in kinds THEN AfterConfirm(parent, gained, lost)
      ELSE IF "split" \in kinds THEN AfterSplit(parent, gained)
      ELSE parent

LineageFromLedger(rows, decisions, last) ==
  LET parent[rev \in 0..last] ==
        IF rev = 0 THEN NoLineage ELSE AfterRevision(rows, decisions, rev, parent[rev - 1])
  IN  parent[last]

(***************************************************************************)
(* _resolve: follow the chain to its end.  A chain that has not ended      *)
(* after as many steps as there are edges is a cycle, and the code raises  *)
(* CanonicalMapError on it.                                                *)
(***************************************************************************)
Resolve(parent, entity) ==
  LET at[n \in 0..Cardinality(DOMAIN parent)] ==
        IF n = 0
        THEN entity
        ELSE LET current == at[n - 1]
             IN  IF current \in DOMAIN parent THEN parent[current] ELSE current
  IN  at[Cardinality(DOMAIN parent)]

Replayable(parent, entities) ==
  \A e \in entities : Resolve(parent, e) \notin DOMAIN parent

\* What rebuild_canonical_map writes: one row per entity ...
MapOf(parent, entities) == [e \in entities |-> Resolve(parent, e)]

\* ... and the entities it tombstones.
OrphansOf(parent, entities, rows) ==
  {e \in entities : /\ ~\E row \in rows : row.entity = e /\ row.closed = Open
                    /\ Resolve(parent, e) = e}
=============================================================================
