--------------------------- MODULE EdgeProjection ---------------------------
(***************************************************************************)
(* The edge projection (aegis/projections/edges.py and the route that      *)
(* rebuilds it): the claims between entities, resolved to who is who now   *)
(* and cut into the longest stretches of time over which the same claims   *)
(* hold.  A rebuild reads the ledger and the claims in statements of their *)
(* own (READ COMMITTED), while IdentityLedger's transactions commit.       *)
(*                                                                         *)
(* A day is a number; 1 is date.min and LastDay is date.max.  Reliability, *)
(* grades and counts are copied from the claims of a row and left out.     *)
(***************************************************************************)
EXTENDS IdentityLedger

CONSTANTS
  LastDay,      \* date.max
  Symmetric,    \* the claims whose predicate the ontology calls symmetric
  Builders      \* rebuilds that can be at work at the same time

ASSUME CalendarAssumption == LastDay \in Nat \ {0}

VARIABLES
  validity,     \* claim.valid_from and valid_to, for every claim id
  projected,    \* edge_projection
  builder       \* the rebuilds at work

projectionVars == <<vars, validity, projected, builder>>

Unbounded == 0    \* NULL, where a day may stand
Days == 1..LastDay

\* What record_claim and the table's check let through.
Windows ==
  {w \in [from : 0..LastDay, to : 0..LastDay] :
     w.from # Unbounded /\ w.to # Unbounded => w.from <= w.to}
-----------------------------------------------------------------------------
\* valid_to + 1 day is no date: the rebuild raises OverflowError.
Overflows(k) == validity[k].to = LastDay

\* Slip: the last day of the validity is left out.
IntervalHalfOpen(k) ==
  [start |-> IF validity[k].from = Unbounded THEN 1 ELSE validity[k].from,
   end |-> IF validity[k].to = Unbounded THEN LastDay ELSE validity[k].to]

\* _intervals: half-open.
Interval(k) ==
  [start |-> IF validity[k].from = Unbounded THEN 1 ELSE validity[k].from,
   end |-> IF validity[k].to = Unbounded THEN LastDay ELSE validity[k].to + 1]

Cuts(ks) == {Interval(k).start : k \in ks} \cup {Interval(k).end : k \in ks}
Covering(ks, d) == {k \in ks : Interval(k).start <= d /\ d < Interval(k).end}

\* _segment: ranges between cuts, over which the covering claims are the same and
\* beyond which they are not.
Segments(ks) ==
  {s \in [low : Cuts(ks), high : Cuts(ks), claims : {Covering(ks, d) : d \in Cuts(ks)} \ {{}}] :
     /\ s.low < s.high
     /\ \A d \in Cuts(ks) :
          /\ s.low <= d /\ d < s.high => Covering(ks, d) = s.claims
          /\ d = s.high => Covering(ks, d) # s.claims
          /\ d < s.low /\ (\A x \in Cuts(ks) : ~(d < x /\ x < s.low)) => Covering(ks, d) # s.claims}

\* Slip: the first day after the segment is taken for its last.
UpperBoundShared(d) == IF d = LastDay THEN Unbounded ELSE d

\* _to_bound: the sentinels become NULL, the upper bound inclusive.
LowerBound(d) == IF d = 1 THEN Unbounded ELSE d
UpperBound(d) == IF d = LastDay THEN Unbounded ELSE d - 1

\* resolve: where the anchor is now, or else where the map points.
EndpointOf(map, anchors, e, m) ==
  IF m # None /\ m \in DOMAIN anchors THEN anchors[m] ELSE CanonicalIn(map, e)

\* The arguments of a symmetric predicate are put in an order; subject tells them
\* apart otherwise.
EdgeOf(map, anchors, k) ==
  LET s == EndpointOf(map, anchors, k.subject, k.subjectMention)
      o == EndpointOf(map, anchors, k.object, k.objectMention)
  IN  [ends |-> {s, o}, subject |-> IF k.id \in Symmetric THEN None ELSE s]

\* The rows for a set of claims; those whose ends are one entity have none.
RowsFor(map, anchors, ks, revision) ==
  LET edge(k) == EdgeOf(map, anchors, k)
      kept == {k \in ks : Cardinality(edge(k).ends) = 2}
      group(e) == {k.id : k \in {x \in kept : edge(x) = e}}
  IN  UNION {{[edge |-> e, from |-> LowerBound(s.low), to |-> UpperBound(s.high),
               claims |-> s.claims, builtAt |-> revision] : s \in Segments(group(e))}
               : e \in {edge(k) : k \in kept}}

IdOf(row) == <<row.edge, row.from, row.to>>
-----------------------------------------------------------------------------
NoBuild == [stage |-> "idle", revision |-> 0, map |-> NoLineage, anchors |-> NoLineage,
            rows |-> {}, old |-> {}]

ProjectionInit ==
  /\ Init
  /\ validity \in [Claims -> Windows]
  /\ projected = {}
  /\ builder = [b \in Builders |-> NoBuild]

Unbuilt == UNCHANGED <<vars, validity, projected>>

\* The route's pg_try_advisory_xact_lock; then active_revision_id, before all else.
StartRebuild(b) ==
  /\ \A x \in Builders : builder[x].stage = "idle"
  /\ builder' = [builder EXCEPT ![b].stage = "revision", ![b].revision = head]
  /\ Unbuilt

ReadCanonical(b) ==
  /\ builder[b].stage = "revision"
  /\ builder' = [builder EXCEPT ![b].stage = "map", ![b].map = canonical]
  /\ Unbuilt

ReadAnchors(b) ==
  /\ builder[b].stage = "map"
  /\ builder' = [builder EXCEPT ![b].stage = "anchors",
       ![b].anchors = [m \in {row.mention : row \in Active} |->
                         CHOOSE e \in Entities : Belongs(m, e)]]
  /\ Unbuilt

Projectable == {k \in claims : k.object # None /\ ~k.retracted}

\* Slip: the rows are stamped with the revision of the moment they are made.
ReadClaimsAndRevision(b) ==
  /\ builder[b].stage = "anchors"
  /\ ~\E k \in Projectable : Overflows(k.id)
  /\ builder' = [builder EXCEPT ![b].stage = "rows",
       ![b].map = NoLineage, ![b].anchors = NoLineage,
       ![b].rows = RowsFor(builder[b].map, builder[b].anchors, Projectable, head)]
  /\ Unbuilt

ReadClaims(b) ==
  /\ builder[b].stage = "anchors"
  /\ ~\E k \in Projectable : Overflows(k.id)
  /\ builder' = [builder EXCEPT ![b].stage = "rows",
       ![b].map = NoLineage, ![b].anchors = NoLineage,
       ![b].rows = RowsFor(builder[b].map, builder[b].anchors, Projectable, builder[b].revision)]
  /\ Unbuilt

\* The DELETE: rows that are committed after it has begun are not among its rows.
DeleteRows(b) ==
  /\ builder[b].stage = "rows"
  /\ builder' = [builder EXCEPT ![b].stage = "deleted", ![b].old = projected]
  /\ Unbuilt

\* The INSERT, which no row in its way may refuse (edge_id), and the commit.
InsertRows(b) ==
  /\ builder[b].stage = "deleted"
  /\ LET kept == projected \ builder[b].old
     IN  /\ {IdOf(row) : row \in kept} \cap {IdOf(row) : row \in builder[b].rows} = {}
         /\ projected' = kept \cup builder[b].rows
  /\ builder' = [builder EXCEPT ![b] = NoBuild]
  /\ UNCHANGED <<vars, validity>>

\* OverflowError, IntegrityError or a crash.
FailBuild(b) ==
  /\ builder[b].stage # "idle"
  /\ builder' = [builder EXCEPT ![b] = NoBuild]
  /\ Unbuilt

Build(b) ==
  \/ StartRebuild(b) \/ ReadCanonical(b) \/ ReadAnchors(b) \/ ReadClaims(b)
  \/ DeleteRows(b) \/ InsertRows(b) \/ FailBuild(b)

ProjectionNext ==
  \/ Next /\ UNCHANGED <<validity, projected, builder>>
  \/ \E b \in Builders : Build(b)

ProjectionSpec == ProjectionInit /\ [][ProjectionNext]_projectionVars

\* is_stale, which projection_stamps reports with the rows.
IsStale == \E row \in projected : row.builtAt < head
-----------------------------------------------------------------------------
\* A bound on one of the calendar's last two days stands for no bound or for none at
\* all in _intervals and _to_bound.
InCalendar(k) == {validity[k].from, validity[k].to} \cap {LastDay - 1, LastDay} = {}

HoldsOn(k, d) ==
  /\ validity[k].from # Unbounded => validity[k].from <= d
  /\ validity[k].to # Unbounded => d <= validity[k].to
RowCovers(row, d) == (row.from # Unbounded => row.from <= d) /\ (row.to # Unbounded => d <= row.to)

\* Segment, never collapse: whatever the windows, each day some claim holds on lies in
\* exactly one row, with exactly the claims that hold on it, no other day lies in any,
\* and rows that meet differ (spec 02 section 7, ADR-030).  A claim's window is written
\* once, so the states in which nothing has happened are enough.
SegmentsMatchDays ==
  head = 0 /\ claims = {} =>
    \A ks \in SUBSET {k \in Claims : InCalendar(k)} :
      LET rows == {[from |-> LowerBound(s.low), to |-> UpperBound(s.high), claims |-> s.claims]
                     : s \in Segments(ks)}
      IN  /\ \A d \in Days :
               LET holding == {k \in ks : HoldsOn(k, d)}
                   covering == {row \in rows : RowCovers(row, d)}
               IN  /\ Cardinality(covering) = IF holding = {} THEN 0 ELSE 1
                   /\ \A row \in covering : row.claims = holding
          /\ \A r, q \in rows : r.to # Unbounded /\ q.from = r.to + 1 => r.claims # q.claims

\* What a claim's endpoints resolve to at this moment.
CurrentEdge(k) ==
  EdgeOf(canonical, [m \in {row.mention : row \in Active} |->
                       CHOOSE e \in Entities : Belongs(m, e)], k)

\* The claim rests on a mention that was attached, since the last decision, to an entity
\* absorbed before: its anchor stays there, and the map leads away.
OnAbsorbedSince(k) ==
  \E row \in memberships :
    /\ row.mention \in {k.subjectMention, k.objectMention} /\ row.opened = head
    /\ \A x \in memberships : x.mention = row.mention => x = row
    /\ CanonicalIn(canonical, row.entity) # row.entity

\* A stale row is detectable (projection_stamps): rows that are not marked stale are
\* between the entities their claims are about now, whatever was decided, recorded and
\* retracted while they were being built.  Not so for a mention attached to an absorbed
\* entity between the anchors' read and the claims': its row is where the map leads, and
\* no stamp tells.
UnmarkedRowsAreCurrent ==
  projected # {} /\ ~IsStale =>
    \A row \in projected, k \in claims :
      k.id \in row.claims /\ ~OnAbsorbedSince(k) => CurrentEdge(k) = row.edge

\* An edge has one row a day, however rebuilds are asked for (routes/projections.py).
RowsOfAnEdgeAreDisjoint ==
  \A row, other \in projected, d \in Days :
    row.edge = other.edge /\ RowCovers(row, d) /\ RowCovers(other, d) => row = other

\* The two paths of resolution agree as long as nothing was split: the map leads from
\* the entity a claim was written about to the one its anchor belongs to now, through
\* every merge, so that an anchored and an unanchored claim about it meet.
PathsAgree ==
  /\ NoLateMentionAtDecision /\ NoMentionOnAbsorbedEntity
  /\ ~\E d \in decisions : d.kind = "split"
  => \A k \in claims :
       /\ k.subjectMention # None => Belongs(k.subjectMention, CanonicalIn(canonical, k.subject))
       /\ k.objectMention # None => Belongs(k.objectMention, CanonicalIn(canonical, k.object))
=============================================================================
