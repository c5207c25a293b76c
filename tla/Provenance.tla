----------------------------- MODULE Provenance -----------------------------
(***************************************************************************)
(* Why an edge is there (aegis/queries/provenance.py): the claims between  *)
(* two entities and the decisions that made them who they are.  The panel  *)
(* goes by the ids claims were written about and the canonical map; the    *)
(* projection goes by the mentions they are anchored at.                   *)
(*                                                                         *)
(* A caller who may read every claim, and fewer of them than the cap; the  *)
(* rows of a panel's claims (records, sources, mentions) are left out.     *)
(***************************************************************************)
EXTENDS EdgeProjection

\* Slip: only the surviving id is asked about.
SurvivorAlone(e) == {e}

\* _absorbed_ids: every id that resolves to this entity.
AbsorbedIds(e) == {e} \cup {x \in DOMAIN canonical : canonical[x] = e}

\* The ids that a question about an entity stands for, however old the link it follows.
AskedAbout(e) == AbsorbedIds(CanonicalIn(canonical, e))

\* why_connected: there is no answer when an entity has no row.
WhyConnected(x, y) ==
  LET xs == AskedAbout(x)
      ys == AskedAbout(y)
  IN  {k \in Projectable : \/ k.subject \in xs /\ k.object \in ys
                           \/ k.subject \in ys /\ k.object \in xs}

\* entity_provenance
ClaimsAbout(e) == {k \in claims : ~k.retracted /\ k.subject \in AskedAbout(e)}

\* _identity_line: the decisions at whose revision a row of the ids was opened or closed.
IdentityLine(ids) ==
  LET rows == {row \in memberships : row.entity \in ids}
  IN  {d \in decisions : d.revision \in {row.opened : row \in rows}
                                          \cup ({row.closed : row \in rows} \ {Open})}

\* identity_history
IdentityHistory(e) == IdentityLine(AskedAbout(e))
-----------------------------------------------------------------------------
\* The edge that a rebuild at this moment draws from a claim opens onto that claim,
\* whichever of their ids, past or present, its ends are asked about by.
OpensOntoItsClaim(k) ==
  \A x, y \in entities :
    Cardinality(CurrentEdge(k).ends) = 2
      /\ CurrentEdge(k).ends = {CanonicalIn(canonical, x), CanonicalIn(canonical, y)}
    => k \in WhyConnected(x, y)

\* "Every rendered edge must open onto the claims" (provenance.py:5).
RenderedEdgesAreExplained == \A k \in Projectable : OpensOntoItsClaim(k)

\* The same as long as nothing was split: merges, in chains and in any order, lose no
\* claim to the panel, and the graph draws no edge that it cannot explain.
MergedEdgesAreExplained ==
  /\ NoLateMentionAtDecision /\ NoMentionOnAbsorbedEntity
  /\ ~\E d \in decisions : d.kind = "split"
  => \A k \in Projectable : OpensOntoItsClaim(k)

\* "Who merged or split it, when, why" (routes/provenance.py, identity-history): asked
\* about any id, the line has every decision that moved a mention to it or away from it,
\* and those about the ids it has absorbed.
HistoryLosesNoDecision ==
  \A row \in memberships, d \in decisions : \A e \in entities :
    /\ d.revision \in {row.opened, row.closed}
    /\ CanonicalIn(canonical, e) = CanonicalIn(canonical, row.entity)
    => d \in IdentityHistory(e)

\* Asked about by any id, evidence and decisions are found through every merge.
PanelLosesNothing == PathsAgree /\ MergedEdgesAreExplained /\ HistoryLosesNoDecision
=============================================================================
