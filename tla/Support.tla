------------------------------ MODULE Support -------------------------------
(***************************************************************************)
(* How contested an edge is: analysts record that one claim corroborates   *)
(* or contradicts another (link_claims), and two readers count it, each in *)
(* a way of its own: the graph for the edges on the canvas                 *)
(* (support_summary over relation_index), the panel for one pair of        *)
(* entities (_relation_ids).  Grades and records are left out.             *)
(***************************************************************************)
EXTENDS GraphQueries, Provenance

VARIABLE relations   \* claim_relation

supportVars == <<graphVars, relations>>

Kinds == {"corroborates", "contradicts"}

\* link_claims: either way round, and both; the table's key refuses the same again.
LinkClaims(k, l, kind) ==
  /\ k # l /\ {k, l} \subseteq {x.id : x \in claims}
  /\ LET row == [from |-> k, to |-> l, relation |-> kind]
     IN  row \notin relations /\ relations' = relations \cup {row}
  /\ UNCHANGED graphVars

SupportNext ==
  \/ \E k, l \in Claims, kind \in Kinds : LinkClaims(k, l, kind)
  \/ GraphNext /\ UNCHANGED relations

SupportSpec == GraphInit /\ relations = {} /\ [][SupportNext]_supportVars

EndsOfRelation(r) == {r.from, r.to}
-----------------------------------------------------------------------------
\* Slip: a relation is indexed under the claim it was recorded from.
RelationIndexOfWriters(visible) ==
  [k \in visible |-> {r \in relations : EndsOfRelation(r) \subseteq visible /\ k = r.from}]

\* relation_index: under both ends, which the caller sees both.
RelationIndex(visible) ==
  [k \in visible |-> {r \in relations : EndsOfRelation(r) \subseteq visible /\ k \in EndsOfRelation(r)}]

\* support_summary: of each claim the relations that touch it, and of them all together
\* the pairs of claims they relate.
SupportSummary(ks, index) ==
  [claims |-> [k \in ks |-> [kind \in Kinds |-> Cardinality({r \in index[k] : r.relation = kind})]],
   counts |-> [kind \in Kinds |->
     Cardinality({EndsOfRelation(r) : r \in {x \in UNION {index[k] : k \in ks} : x.relation = kind}})]]

\* _visible_claim_ids: of the claims behind the rows on the canvas.
VisibleOn(canvas) ==
  {k.id : k \in {x \in claims : /\ ~x.retracted /\ x.id \in Readable
                                /\ \E row \in canvas : x.id \in row.claims}}

\* _hydrate: the summary is over the canvas, never read off the row.
SupportOn(canvas, row) ==
  LET visible == VisibleOn(canvas)
  IN  SupportSummary(row.claims \cap visible, RelationIndex(visible))

\* why_connected with claim_filters
Panel(x, y) == {k.id : k \in WhyConnected(x, y)} \cap Readable

\* _relation_ids
RelatedTo(k, kind) == {r \in relations : r.relation = kind /\ k \in EndsOfRelation(r)}

\* What get_why_connected counts.
PanelSupport(ks) ==
  [claims |-> [k \in ks |-> [kind \in Kinds |-> Cardinality(RelatedTo(k, kind))]],
   counts |-> [kind \in Kinds |->
     Cardinality({EndsOfRelation(r) : r \in UNION {RelatedTo(k, kind) : k \in ks}})]]
-----------------------------------------------------------------------------
\* Whether every relation of the row's claims is to a claim on the canvas.
AllOnCanvas(canvas, ks) ==
  \A r \in relations :
    EndsOfRelation(r) \cap ks # {} => EndsOfRelation(r) \subseteq VisibleOn(canvas)

AtMost(s, t) ==
  \A kind \in Kinds : /\ s.counts[kind] <= t.counts[kind]
                      /\ \A k \in DOMAIN s.claims : s.claims[k][kind] <= t.claims[k][kind]

\* "The graph view and the provenance panel" (edges.py, support_summary) do not contradict
\* each other over the same claims: the graph never reports a disagreement that the panel
\* has not, whatever else is drawn, and reports all of them when the claims that disagree
\* are drawn too.  (A claim that is not on the canvas contests nothing there.)
CanvasAndPanelAgree ==
  walk = NoWalk =>
    \A canvas \in SUBSET Base(NoWindow) : \A row \in canvas :
      LET ks == row.claims \cap VisibleOn(canvas)
      IN  \A x, y \in entities : row.edge.ends = {x, y} /\ Panel(x, y) = ks =>
            /\ AtMost(SupportOn(canvas, row), PanelSupport(ks))
            /\ AllOnCanvas(canvas, ks) => SupportOn(canvas, row) = PanelSupport(ks)
=============================================================================
