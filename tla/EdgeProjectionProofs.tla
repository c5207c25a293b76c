------------------------ MODULE EdgeProjectionProofs ------------------------
(***************************************************************************)
(* Proofs about EdgeProjection, GraphQueries and Support, for any          *)
(* calendar, any claims and windows, and any number of rebuilds.  First    *)
(* the segments, as a function of the windows; then what a rebuild knows   *)
(* of the ledger it has read piece by piece; then what a walk may say of   *)
(* it, and whether it has found what was asked for; then the routes; last  *)
(* the two counts of what contests an edge.                                *)
(***************************************************************************)
EXTENDS Support, IdentityLedgerProofs, FiniteSetTheorems

WindowsOK == validity \in [Claims -> Windows]

\* No claim of the set ends on date.max.
NoneOverflows(ks) == \A k \in ks : ~Overflows(k)
-----------------------------------------------------------------------------
\* _intervals: the half-open stretch of a window, in days.
LEMMA IntervalIs ==
  ASSUME WindowsOK, NEW k \in Claims, ~Overflows(k)
  PROVE  /\ Interval(k).start \in 1..LastDay /\ Interval(k).end \in 1..LastDay
         /\ validity[k].from \in 0..LastDay /\ validity[k].to \in 0..LastDay
         /\ Interval(k).start = IF validity[k].from = 0 THEN 1 ELSE validity[k].from
         /\ Interval(k).end = IF validity[k].to = 0 THEN LastDay ELSE validity[k].to + 1
<1>1. /\ validity[k].from \in 0..LastDay /\ validity[k].to \in 0..LastDay
      /\ validity[k].to # LastDay
  BY DEF WindowsOK, Windows, Overflows
<1>2. /\ Interval(k).start = IF validity[k].from = 0 THEN 1 ELSE validity[k].from
      /\ Interval(k).end = IF validity[k].to = 0 THEN LastDay ELSE validity[k].to + 1
  BY DEF Interval, Unbounded
<1> QED
  BY <1>1, <1>2, CalendarAssumption DEF CalendarAssumption

LEMMA CutsAreDays ==
  ASSUME WindowsOK, NEW ks \in SUBSET Claims, NoneOverflows(ks)
  PROVE  Cuts(ks) \in SUBSET (1..LastDay) /\ LastDay \in Nat \ {0}
BY IntervalIs, CalendarAssumption DEF Cuts, NoneOverflows, CalendarAssumption

\* Between two cuts next to each other the same claims hold.
LEMMA CoveringChangesAtCuts ==
  ASSUME WindowsOK, NEW ks \in SUBSET Claims, NoneOverflows(ks),
         NEW c \in Nat, NEW x \in Nat, c <= x,
         \A d \in Cuts(ks) : ~(c < d /\ d <= x)
  PROVE  Covering(ks, x) = Covering(ks, c)
<1>1. ASSUME NEW k \in ks
      PROVE  /\ Interval(k).start \in Nat /\ Interval(k).end \in Nat
             /\ ~(c < Interval(k).start /\ Interval(k).start <= x)
             /\ ~(c < Interval(k).end /\ Interval(k).end <= x)
  BY IntervalIs DEF Cuts, NoneOverflows
<1> QED
  BY <1>1 DEF Covering

LEMMA SegmentIs ==
  ASSUME NEW ks, NEW s
  PROVE  s \in Segments(ks) <=>
           /\ s \in [low : Cuts(ks), high : Cuts(ks), claims : {Covering(ks, d) : d \in Cuts(ks)} \ {{}}]
           /\ s.low < s.high
           /\ \A d \in Cuts(ks) : s.low <= d /\ d < s.high => Covering(ks, d) = s.claims
           /\ \A d \in Cuts(ks) : d = s.high => Covering(ks, d) # s.claims
           /\ \A d \in Cuts(ks) :
                d < s.low /\ (\A x \in Cuts(ks) : ~(d < x /\ x < s.low)) => Covering(ks, d) # s.claims
BY DEF Segments

\* The last cut before a day, if there is one.
LEMMA LastBefore ==
  ASSUME NEW S \in SUBSET Nat, NEW x \in Nat, \E d \in S : d < x
  PROVE  \E p \in S : p < x /\ \A d \in S : ~(p < d /\ d < x)
<1> DEFINE T == {x - d : d \in {e \in S : e < x}}
<1>1. T \in SUBSET Nat /\ T # {}
  OBVIOUS
<1>2. PICK m \in T : \A y \in T : m <= y
  BY <1>1, LeastOf
<1>3. PICK p \in S : p < x /\ m = x - p
  BY <1>2
<1>4. ASSUME NEW d \in S, p < d, d < x PROVE FALSE
  <2>1. x - d \in T
    BY <1>4
  <2> HIDE DEF T
  <2>2. m <= x - d
    BY <1>2, <2>1
  <2> QED
    BY <1>3, <1>4, <2>2
<1> QED
  BY <1>3, <1>4

\* A segment's claims are those that hold on each of its days.
LEMMA SegmentCovers ==
  ASSUME WindowsOK, NEW ks \in SUBSET Claims, NoneOverflows(ks),
         NEW s \in Segments(ks), NEW x \in Nat, s.low <= x, x < s.high
  PROVE  Covering(ks, x) = s.claims
<1>1. Cuts(ks) \in SUBSET Nat /\ s.low \in Cuts(ks)
  BY CutsAreDays, SegmentIs
<1>2. PICK p \in Cuts(ks) : p < x + 1 /\ \A d \in Cuts(ks) : ~(p < d /\ d < x + 1)
  <2>1. x + 1 \in Nat /\ s.low < x + 1
    BY <1>1
  <2> QED
    BY <1>1, <2>1, LastBefore
<1>3. Covering(ks, x) = Covering(ks, p)
  BY <1>1, <1>2, CoveringChangesAtCuts
<1>4. s.low <= p /\ p < s.high
  <2>1. ~(p < s.low /\ s.low < x + 1)
    BY <1>1, <1>2
  <2>2. s.high \in Nat
    BY <1>1, SegmentIs
  <2> QED
    BY <1>1, <1>2, <2>1, <2>2
<1> QED
  BY <1>1, <1>3, <1>4, SegmentIs

\* A segment that begins inside another would begin without a change.
LEMMA NoSecondStart ==
  ASSUME WindowsOK, NEW ks \in SUBSET Claims, NoneOverflows(ks),
         NEW s \in Segments(ks), NEW t \in Segments(ks), s.low < t.low, t.low < s.high
  PROVE  FALSE
<1>1. /\ Cuts(ks) \in SUBSET Nat
      /\ {s.low, s.high, t.low, t.high} \subseteq Cuts(ks) /\ t.low < t.high
  BY CutsAreDays, SegmentIs
<1>2. PICK p \in Cuts(ks) : p < t.low /\ \A d \in Cuts(ks) : ~(p < d /\ d < t.low)
  BY <1>1, LastBefore
<1>3. s.low <= p /\ p < s.high
  BY <1>1, <1>2
<1>4. Covering(ks, p) = s.claims /\ Covering(ks, t.low) = s.claims /\ Covering(ks, t.low) = t.claims
  BY <1>1, <1>3, SegmentCovers
<1>5. Covering(ks, p) # t.claims
  BY <1>1, <1>2, SegmentIs
<1> QED
  BY <1>4, <1>5

\* No day lies in two segments.
LEMMA SegmentsAreDisjoint ==
  ASSUME WindowsOK, NEW ks \in SUBSET Claims, NoneOverflows(ks),
         NEW s \in Segments(ks), NEW t \in Segments(ks),
         NEW x \in Nat, s.low <= x, x < s.high, t.low <= x, x < t.high
  PROVE  s = t
<1>1. /\ {s.low, s.high, t.low, t.high} \subseteq Nat
      /\ {s.low, s.high, t.low, t.high} \subseteq Cuts(ks)
  BY CutsAreDays, SegmentIs
<1>2. s.low = t.low
  <2>1. ~(s.low < t.low) /\ ~(t.low < s.low)
    BY <1>1, NoSecondStart
  <2> QED
    BY <1>1, <2>1
<1>3. s.claims = t.claims
  BY SegmentCovers
<1>4. s.high = t.high
  <2>1. ASSUME NEW u \in Segments(ks), NEW v \in Segments(ks), u.high < v.high, u.high \in Nat,
               v.low <= u.high, u.claims = v.claims
        PROVE  FALSE
    <3>1. u.high \in Cuts(ks)
      BY SegmentIs
    <3>2. Covering(ks, u.high) # u.claims
      BY <3>1, SegmentIs
    <3>3. Covering(ks, u.high) = v.claims
      BY <2>1, SegmentCovers
    <3> QED
      BY <2>1, <3>2, <3>3
  <2>2. ~(s.high < t.high) /\ ~(t.high < s.high)
    BY <1>1, <1>3, <2>1
  <2> QED
    BY <1>1, <2>2
<1>5. /\ s = [low |-> s.low, high |-> s.high, claims |-> s.claims]
      /\ t = [low |-> t.low, high |-> t.high, claims |-> t.claims]
  BY SegmentIs
<1> QED
  BY <1>2, <1>3, <1>4, <1>5

\* Every day on which a claim holds lies in one.
LEMMA SegmentsCoverAll ==
  ASSUME WindowsOK, NEW ks \in SUBSET Claims, NoneOverflows(ks),
         NEW x \in Nat, Covering(ks, x) # {}
  PROVE  \E s \in Segments(ks) : s.low <= x /\ x < s.high
<1> DEFINE C == Covering(ks, x)
           Alike == {a \in Cuts(ks) : a <= x /\ \A d \in Cuts(ks) : a <= d /\ d <= x => Covering(ks, d) = C}
           Changed == {b \in Cuts(ks) : x < b /\ Covering(ks, b) # C}
<1>1. Cuts(ks) \in SUBSET Nat
  BY CutsAreDays
<1>2. PICK k \in ks : k \in C /\ Interval(k).start <= x /\ x < Interval(k).end
  BY DEF Covering
<1>3. Interval(k).start \in Cuts(ks) /\ Interval(k).end \in Cuts(ks)
  BY DEF Cuts
<1>4. Alike # {}
  <2>1. x + 1 \in Nat /\ Interval(k).start < x + 1
    BY <1>1, <1>2, <1>3
  <2>2. PICK p \in Cuts(ks) : p < x + 1 /\ \A d \in Cuts(ks) : ~(p < d /\ d < x + 1)
    BY <1>1, <1>3, <2>1, LastBefore
  <2>3. p <= x /\ p \in Nat /\ \A d \in Cuts(ks) : ~(p < d /\ d <= x)
    BY <1>1, <2>2
  <2>4. Covering(ks, p) = C
    BY <2>3, CoveringChangesAtCuts
  <2>5. \A d \in Cuts(ks) : p <= d /\ d <= x => d = p
    BY <1>1, <2>3
  <2> QED
    BY <2>3, <2>4, <2>5
<1>5. PICK low \in Alike : \A a \in Alike : low <= a
  <2>1. Alike \in SUBSET Nat
    BY <1>1
  <2> QED
    BY <1>4, <2>1, LeastOf
<1>6. Changed # {}
  <2>1. k \notin Covering(ks, Interval(k).end)
    BY <1>1, <1>3 DEF Covering
  <2> QED
    BY <1>2, <1>3, <2>1
<1>7. PICK high \in Changed : \A b \in Changed : high <= b
  <2>1. Changed \in SUBSET Nat
    BY <1>1
  <2> QED
    BY <1>6, <2>1, LeastOf
<1>8. /\ low \in Cuts(ks) /\ low \in Nat /\ low <= x /\ Covering(ks, low) = C
      /\ high \in Cuts(ks) /\ high \in Nat /\ x < high /\ Covering(ks, high) # C
  BY <1>1, <1>5, <1>7
<1>9. ASSUME NEW d \in Cuts(ks), low <= d, d < high PROVE Covering(ks, d) = C
  <2>1. CASE d <= x
    BY <1>5, <1>9, <2>1
  <2>2. CASE x < d
    BY <1>1, <1>7, <1>8, <1>9, <2>2
  <2> QED
    BY <1>1, <2>1, <2>2
<1>10. ASSUME NEW d \in Cuts(ks), d < low, \A y \in Cuts(ks) : ~(d < y /\ y < low), Covering(ks, d) = C
       PROVE  FALSE
  <2>1. ASSUME NEW y \in Cuts(ks), d <= y, y <= x PROVE Covering(ks, y) = C
    <3>1. y = d \/ low <= y
      BY <1>1, <1>8, <1>10, <2>1
    <3> QED
      BY <1>5, <1>10, <2>1, <3>1
  <2>2. d \in Alike
    BY <1>1, <1>8, <1>10, <2>1
  <2> QED
    BY <1>1, <1>5, <1>8, <1>10, <2>2
<1> HIDE DEF Alike, Changed
<1> DEFINE s == [low |-> low, high |-> high, claims |-> C]
<1>11. s.low = low /\ s.high = high /\ s.claims = C
  OBVIOUS
<1>12. s \in [low : Cuts(ks), high : Cuts(ks), claims : {Covering(ks, d) : d \in Cuts(ks)} \ {{}}]
  BY <1>2, <1>8
<1> HIDE DEF s, C
<1>13. s \in Segments(ks)
  BY <1>8, <1>9, <1>10, <1>11, <1>12, SegmentIs
<1> QED
  BY <1>8, <1>11, <1>13
-----------------------------------------------------------------------------
\* The bounds of a row mean the days of its segment, the last but one standing for the
\* last (_to_bound).
Day(d) == IF d = LastDay THEN LastDay - 1 ELSE d

LEMMA RowDays ==
  ASSUME WindowsOK, NEW ks \in SUBSET Claims, NoneOverflows(ks),
         NEW s \in Segments(ks), NEW d \in Days, NEW row,
         row.from = LowerBound(s.low), row.to = UpperBound(s.high)
  PROVE  /\ Day(d) \in Nat
         /\ RowCovers(row, d) <=> s.low <= Day(d) /\ Day(d) < s.high
<1>1. s.low \in 1..LastDay /\ s.high \in 1..LastDay /\ s.low < s.high /\ LastDay \in Nat \ {0}
  BY CutsAreDays, SegmentIs
<1>2. d \in 1..LastDay
  BY DEF Days
<1>3. /\ row.from = IF s.low = 1 THEN 0 ELSE s.low
      /\ row.to = IF s.high = LastDay THEN 0 ELSE s.high - 1
  BY DEF LowerBound, UpperBound, Unbounded
<1>4. RowCovers(row, d) <=> (row.from # 0 => row.from <= d) /\ (row.to # 0 => d <= row.to)
  BY DEF RowCovers, Unbounded
<1> QED
  BY <1>1, <1>2, <1>3, <1>4 DEF Day

LEMMA HoldingDays ==
  ASSUME WindowsOK, NEW k \in Claims, InCalendar(k), NEW d \in Days
  PROVE  /\ ~Overflows(k)
         /\ HoldsOn(k, d) <=> Interval(k).start <= Day(d) /\ Day(d) < Interval(k).end
<1>1. /\ validity[k].from \in 0..LastDay /\ validity[k].to \in 0..LastDay
      /\ validity[k].from \notin {LastDay - 1, LastDay} /\ validity[k].to \notin {LastDay - 1, LastDay}
  BY DEF WindowsOK, Windows, InCalendar
<1>2. ~Overflows(k)
  BY <1>1 DEF Overflows
<1>3. d \in 1..LastDay /\ LastDay \in Nat \ {0}
  BY CalendarAssumption DEF Days, CalendarAssumption
<1>4. /\ Interval(k).start = IF validity[k].from = 0 THEN 1 ELSE validity[k].from
      /\ Interval(k).end = IF validity[k].to = 0 THEN LastDay ELSE validity[k].to + 1
  BY <1>2, IntervalIs
<1>5. HoldsOn(k, d) <=> /\ validity[k].from # 0 => validity[k].from <= d
                        /\ validity[k].to # 0 => d <= validity[k].to
  BY DEF HoldsOn, Unbounded
<1> QED
  BY <1>1, <1>2, <1>3, <1>4, <1>5 DEF Day

RowOf(s) == [from |-> LowerBound(s.low), to |-> UpperBound(s.high), claims |-> s.claims]

\* Of claims in the calendar, each day lies in one row or, if none holds, in none.
LEMMA RowsMatchDay ==
  ASSUME WindowsOK, NEW ks \in SUBSET {k \in Claims : InCalendar(k)}, NEW d \in Days
  PROVE  LET holding == {k \in ks : HoldsOn(k, d)}
             covering == {row \in {RowOf(s) : s \in Segments(ks)} : RowCovers(row, d)}
         IN  /\ Cardinality(covering) = IF holding = {} THEN 0 ELSE 1
             /\ \A row \in covering : row.claims = holding
<1> DEFINE holding == {k \in ks : HoldsOn(k, d)}
           covering == {row \in {RowOf(s) : s \in Segments(ks)} : RowCovers(row, d)}
<1>1. ks \in SUBSET Claims /\ NoneOverflows(ks)
  BY HoldingDays DEF NoneOverflows
<1>2. holding = Covering(ks, Day(d))
  BY HoldingDays DEF Covering
<1>3. ASSUME NEW s \in Segments(ks)
      PROVE  /\ Day(d) \in Nat
             /\ RowCovers(RowOf(s), d) <=> s.low <= Day(d) /\ Day(d) < s.high
  BY <1>1, RowDays DEF RowOf
<1>4. \A s \in Segments(ks) : s.claims # {}
  BY SegmentIs
<1>5. ASSUME NEW s \in Segments(ks), RowCovers(RowOf(s), d)
      PROVE  RowOf(s).claims = holding
  <2>1. s.claims = Covering(ks, Day(d))
    BY <1>1, <1>3, <1>5, SegmentCovers
  <2> QED
    BY <1>2, <2>1 DEF RowOf
<1>6. CASE holding = {}
  <2>1. covering = {}
    BY <1>4, <1>5, <1>6 DEF RowOf
  <2> QED
    BY <1>5, <1>6, <2>1, FS_EmptySet
<1>7. CASE holding # {}
  <2>1. Day(d) \in Nat
    BY CalendarAssumption DEF Day, Days, CalendarAssumption
  <2>2. PICK s \in Segments(ks) : s.low <= Day(d) /\ Day(d) < s.high
    BY <1>1, <1>2, <1>7, <2>1, SegmentsCoverAll
  <2>3. ASSUME NEW t \in Segments(ks), RowCovers(RowOf(t), d) PROVE t = s
    BY <1>1, <1>3, <2>2, <2>3, SegmentsAreDisjoint
  <2>4. covering = {RowOf(s)}
    BY <1>3, <2>2, <2>3
  <2> QED
    BY <1>5, <1>7, <2>4, FS_Singleton
<1> QED
  BY <1>6, <1>7

\* Rows that meet differ.
LEMMA RowsThatMeetDiffer ==
  ASSUME WindowsOK, NEW ks \in SUBSET {k \in Claims : InCalendar(k)},
         NEW s \in Segments(ks), NEW t \in Segments(ks),
         UpperBound(s.high) # Unbounded, LowerBound(t.low) = UpperBound(s.high) + 1
  PROVE  s.claims # t.claims
<1>1. ks \in SUBSET Claims /\ NoneOverflows(ks)
  <2>1. \A k \in ks : ~Overflows(k)
    BY CalendarAssumption DEF WindowsOK, Windows, InCalendar, Overflows
  <2> QED
    BY <2>1 DEF NoneOverflows
<1>2. /\ s.high \in Nat \ {0} /\ t.low \in Nat \ {0} /\ t.low \in Cuts(ks) /\ t.low < t.high /\ t.high \in Nat
      /\ s.high # LastDay
  BY <1>1, CutsAreDays, SegmentIs DEF UpperBound
<1>3. t.low = s.high
  BY <1>2 DEF LowerBound, UpperBound, Unbounded
<1>4. Covering(ks, t.low) = t.claims
  BY <1>1, <1>2, SegmentCovers
<1> QED
  BY <1>2, <1>3, <1>4, SegmentIs

LEMMA WindowsStay == WindowsOK /\ [ProjectionNext]_projectionVars => WindowsOK'
BY DEF WindowsOK, ProjectionNext, projectionVars, Build, Unbuilt, StartRebuild, ReadCanonical,
       ReadAnchors, ReadClaims, DeleteRows, InsertRows, FailBuild

\* Segment, never collapse, for any calendar and any windows (_segment, _to_bound).
THEOREM SegmentsAlwaysMatch == ProjectionSpec => []SegmentsMatchDays
<1>1. ProjectionInit => WindowsOK
  BY DEF ProjectionInit, WindowsOK
<1>2. ASSUME WindowsOK PROVE SegmentsMatchDays
  <2> SUFFICES ASSUME NEW ks \in SUBSET {k \in Claims : InCalendar(k)}
               PROVE  LET rows == {RowOf(s) : s \in Segments(ks)}
                      IN  /\ \A d \in Days :
                               LET holding == {k \in ks : HoldsOn(k, d)}
                                   covering == {row \in rows : RowCovers(row, d)}
                               IN  /\ Cardinality(covering) = IF holding = {} THEN 0 ELSE 1
                                   /\ \A row \in covering : row.claims = holding
                          /\ \A r, q \in rows : r.to # Unbounded /\ q.from = r.to + 1 => r.claims # q.claims
    BY DEF SegmentsMatchDays, RowOf
  <2>1. ASSUME NEW s \in Segments(ks), NEW t \in Segments(ks),
               RowOf(s).to # Unbounded, RowOf(t).from = RowOf(s).to + 1
        PROVE  RowOf(s).claims # RowOf(t).claims
    BY <1>2, <2>1, RowsThatMeetDiffer DEF RowOf
  <2> QED
    BY <1>2, <2>1, RowsMatchDay
<1> QED
  BY <1>1, <1>2, WindowsStay, PTL DEF ProjectionSpec
-----------------------------------------------------------------------------
\* What a rebuild is made of.
Build6(q, stage, revision, map, anchors, rows, old) ==
  /\ DOMAIN q = {"stage", "revision", "map", "anchors", "rows", "old"}
  /\ q.stage = stage /\ q.revision = revision /\ q.map = map /\ q.anchors = anchors
  /\ q.rows = rows /\ q.old = old

BuildersOK ==
  /\ builder = [b \in Builders |-> builder[b]]
  /\ \A b \in Builders :
       /\ DOMAIN builder[b] = {"stage", "revision", "map", "anchors", "rows", "old"}
       /\ builder[b].stage \in {"idle", "revision", "map", "anchors", "rows", "deleted"}

Idle(q) == Build6(q, "idle", 0, NoLineage, NoLineage, {}, {})

LEMMA NoBuildIdle == Idle(NoBuild)
BY DEF NoBuild, Idle, Build6

\* What the steps of a rebuild do to its record, and to nothing else but the table.
OnlyBuilder(b) ==
  /\ builder' = [c \in Builders |-> builder'[c]]
  /\ \A c \in Builders \ {b} : builder'[c] = builder[c]
  /\ UNCHANGED <<vars, validity>>

LEMMA OneField ==
  ASSUME BuildersOK, NEW b \in Builders, NEW q, builder' = [builder EXCEPT ![b] = q]
  PROVE  /\ builder' = [c \in Builders |-> builder'[c]]
         /\ \A c \in Builders \ {b} : builder'[c] = builder[c]
         /\ builder'[b] = q
BY DEF BuildersOK

LEMMA StartDoes ==
  ASSUME BuildersOK, NEW b \in Builders, StartRebuild(b)
  PROVE  /\ OnlyBuilder(b) /\ projected' = projected
         /\ \A x \in Builders : builder[x].stage = "idle"
         /\ LET q == builder[b] IN
            Build6(builder'[b], "revision", head, q.map, q.anchors, q.rows, q.old)
<1>1. PICK q : q = [builder[b] EXCEPT !.stage = "revision", !.revision = head]
  OBVIOUS
<1>2. builder' = [builder EXCEPT ![b] = q]
  BY <1>1 DEF StartRebuild, BuildersOK
<1>3. Build6(q, "revision", head, builder[b].map, builder[b].anchors, builder[b].rows, builder[b].old)
  BY <1>1 DEF Build6, BuildersOK
<1> QED
  BY <1>2, <1>3, OneField DEF OnlyBuilder, StartRebuild, Unbuilt

LEMMA ReadCanonicalDoes ==
  ASSUME BuildersOK, NEW b \in Builders, ReadCanonical(b)
  PROVE  /\ OnlyBuilder(b) /\ projected' = projected /\ builder[b].stage = "revision"
         /\ LET q == builder[b] IN
            Build6(builder'[b], "map", q.revision, canonical, q.anchors, q.rows, q.old)
<1>1. PICK q : q = [builder[b] EXCEPT !.stage = "map", !.map = canonical]
  OBVIOUS
<1>2. builder' = [builder EXCEPT ![b] = q]
  BY <1>1 DEF ReadCanonical, BuildersOK
<1>3. Build6(q, "map", builder[b].revision, canonical, builder[b].anchors, builder[b].rows, builder[b].old)
  BY <1>1 DEF Build6, BuildersOK
<1> QED
  BY <1>2, <1>3, OneField DEF OnlyBuilder, ReadCanonical, Unbuilt

\* Where each mention with an active row is.
CurrentAnchors ==
  [m \in {row.mention : row \in Active} |-> CHOOSE e \in Entities : Belongs(m, e)]

LEMMA ReadAnchorsDoes ==
  ASSUME BuildersOK, NEW b \in Builders, ReadAnchors(b)
  PROVE  /\ OnlyBuilder(b) /\ projected' = projected /\ builder[b].stage = "map"
         /\ LET q == builder[b] IN
            Build6(builder'[b], "anchors", q.revision, q.map, CurrentAnchors, q.rows, q.old)
<1>0. PICK now : now = CurrentAnchors
  OBVIOUS
<1>1. PICK q : q = [builder[b] EXCEPT !.stage = "anchors", !.anchors = now]
  OBVIOUS
<1>2. builder' = [builder EXCEPT ![b] = q]
  <2>1. builder' = [builder EXCEPT ![b].stage = "anchors", ![b].anchors = now]
    BY <1>0 DEF ReadAnchors, CurrentAnchors
  <2> QED
    BY <1>1, <2>1 DEF BuildersOK
<1>3. Build6(q, "anchors", builder[b].revision, builder[b].map, now, builder[b].rows, builder[b].old)
  BY <1>1 DEF Build6, BuildersOK
<1> QED
  BY <1>0, <1>2, <1>3, OneField DEF OnlyBuilder, ReadAnchors, Unbuilt

LEMMA ReadClaimsDoes ==
  ASSUME BuildersOK, NEW b \in Builders, ReadClaims(b)
  PROVE  /\ OnlyBuilder(b) /\ projected' = projected /\ builder[b].stage = "anchors"
         /\ \A k \in Projectable : ~Overflows(k.id)
         /\ LET q == builder[b] IN
            Build6(builder'[b], "rows", q.revision, NoLineage, NoLineage,
                   RowsFor(q.map, q.anchors, Projectable, q.revision), q.old)
<1>0. PICK rows : rows = RowsFor(builder[b].map, builder[b].anchors, Projectable, builder[b].revision)
  OBVIOUS
<1>1. PICK q : q = [builder[b] EXCEPT !.stage = "rows", !.map = NoLineage, !.anchors = NoLineage,
                                      !.rows = rows]
  OBVIOUS
<1>2. builder' = [builder EXCEPT ![b] = q]
  <2>1. builder' = [builder EXCEPT ![b].stage = "rows", ![b].map = NoLineage, ![b].anchors = NoLineage,
                                   ![b].rows = rows]
    BY <1>0 DEF ReadClaims
  <2> QED
    BY <1>1, <2>1 DEF BuildersOK
<1>3. Build6(q, "rows", builder[b].revision, NoLineage, NoLineage, rows, builder[b].old)
  BY <1>1 DEF Build6, BuildersOK
<1> QED
  BY <1>0, <1>2, <1>3, OneField DEF OnlyBuilder, ReadClaims, Unbuilt

LEMMA DeleteDoes ==
  ASSUME BuildersOK, NEW b \in Builders, DeleteRows(b)
  PROVE  /\ OnlyBuilder(b) /\ projected' = projected /\ builder[b].stage = "rows"
         /\ LET q == builder[b] IN
            Build6(builder'[b], "deleted", q.revision, q.map, q.anchors, q.rows, projected)
<1>1. PICK q : q = [builder[b] EXCEPT !.stage = "deleted", !.old = projected]
  OBVIOUS
<1>2. builder' = [builder EXCEPT ![b] = q]
  BY <1>1 DEF DeleteRows, BuildersOK
<1>3. Build6(q, "deleted", builder[b].revision, builder[b].map, builder[b].anchors, builder[b].rows, projected)
  BY <1>1 DEF Build6, BuildersOK
<1> QED
  BY <1>2, <1>3, OneField DEF OnlyBuilder, DeleteRows, Unbuilt

LEMMA InsertDoes ==
  ASSUME BuildersOK, NEW b \in Builders, InsertRows(b)
  PROVE  /\ OnlyBuilder(b) /\ builder[b].stage = "deleted" /\ Idle(builder'[b])
         /\ projected' = (projected \ builder[b].old) \cup builder[b].rows
<1>1. builder' = [builder EXCEPT ![b] = NoBuild]
  BY DEF InsertRows
<1> QED
  BY <1>1, OneField, NoBuildIdle DEF OnlyBuilder, InsertRows

LEMMA FailDoes ==
  ASSUME BuildersOK, NEW b \in Builders, FailBuild(b)
  PROVE  OnlyBuilder(b) /\ projected' = projected /\ Idle(builder'[b])
<1>1. builder' = [builder EXCEPT ![b] = NoBuild]
  BY DEF FailBuild
<1> QED
  BY <1>1, OneField, NoBuildIdle DEF OnlyBuilder, FailBuild, Unbuilt
-----------------------------------------------------------------------------
\* The claims of an edge, as a rebuild that has read this map and these anchors sees it.
Group(map, anchors, cs, e) ==
  {k.id : k \in {x \in {k \in cs : Cardinality(EdgeOf(map, anchors, k).ends) = 2} :
                   EdgeOf(map, anchors, x) = e}}

LEMMA RowIsSegment ==
  ASSUME NEW map, NEW anchors, NEW cs, NEW revision, NEW row \in RowsFor(map, anchors, cs, revision)
  PROVE  \E s \in Segments(Group(map, anchors, cs, row.edge)) :
           row = [edge |-> row.edge, from |-> LowerBound(s.low), to |-> UpperBound(s.high),
                  claims |-> s.claims, builtAt |-> revision]
<1> DEFINE kept == {k \in cs : Cardinality(EdgeOf(map, anchors, k).ends) = 2}
<1>1. PICK e \in {EdgeOf(map, anchors, k) : k \in kept} :
        row \in {[edge |-> e, from |-> LowerBound(s.low), to |-> UpperBound(s.high),
                  claims |-> s.claims, builtAt |-> revision] : s \in Segments(Group(map, anchors, cs, e))}
  BY DEF RowsFor, Group
<1>2. PICK s \in Segments(Group(map, anchors, cs, e)) :
        row = [edge |-> e, from |-> LowerBound(s.low), to |-> UpperBound(s.high),
               claims |-> s.claims, builtAt |-> revision]
  BY <1>1
<1>3. row.edge = e
  BY <1>2
<1> QED
  BY <1>2, <1>3

DisjointRows(rows) ==
  \A row, other \in rows, d \in Days :
    row.edge = other.edge /\ RowCovers(row, d) /\ RowCovers(other, d) => row = other

LEMMA RowsForDisjoint ==
  ASSUME WindowsOK, NEW map, NEW anchors, NEW cs, NEW revision,
         \A k \in cs : k.id \in Claims /\ ~Overflows(k.id)
  PROVE  DisjointRows(RowsFor(map, anchors, cs, revision))
<1> SUFFICES ASSUME NEW row \in RowsFor(map, anchors, cs, revision),
                    NEW other \in RowsFor(map, anchors, cs, revision), NEW d \in Days,
                    row.edge = other.edge, RowCovers(row, d), RowCovers(other, d)
             PROVE  row = other
  BY DEF DisjointRows
<1>1. PICK ks : ks = Group(map, anchors, cs, row.edge)
  OBVIOUS
<1>2. ks \in SUBSET Claims /\ NoneOverflows(ks)
  BY <1>1 DEF Group, NoneOverflows
<1>3. PICK s \in Segments(ks) :
        row = [edge |-> row.edge, from |-> LowerBound(s.low), to |-> UpperBound(s.high),
               claims |-> s.claims, builtAt |-> revision]
  BY <1>1, RowIsSegment
<1>4. PICK t \in Segments(ks) :
        other = [edge |-> row.edge, from |-> LowerBound(t.low), to |-> UpperBound(t.high),
                 claims |-> t.claims, builtAt |-> revision]
  BY <1>1, RowIsSegment
<1>5. /\ row.from = LowerBound(s.low) /\ row.to = UpperBound(s.high)
      /\ other.from = LowerBound(t.low) /\ other.to = UpperBound(t.high)
  BY <1>3, <1>4
<1>6. Day(d) \in Nat /\ s.low <= Day(d) /\ Day(d) < s.high /\ t.low <= Day(d) /\ Day(d) < t.high
  BY <1>2, <1>5, RowDays
<1>7. s = t
  BY <1>2, <1>6, SegmentsAreDisjoint
<1> QED
  BY <1>3, <1>4, <1>7

\* What a reader may rely on in a row: an end and another, and a stretch that has its
\* first day in the calendar.
FirstDay(row) == IF row.from = Unbounded THEN 1 ELSE row.from

WellFormed(row) ==
  /\ \E x, y : x # y /\ row.edge.ends = {x, y}
  /\ row.from \in 0..LastDay /\ row.to \in 0..LastDay
  /\ FirstDay(row) \in Days /\ RowCovers(row, FirstDay(row))

LEMMA RowIsWellFormed ==
  ASSUME WindowsOK, NEW map, NEW anchors, NEW cs, NEW revision,
         \A k \in cs : k.id \in Claims /\ ~Overflows(k.id),
         NEW row \in RowsFor(map, anchors, cs, revision)
  PROVE  WellFormed(row) /\ row.edge \in {EdgeOf(map, anchors, k) : k \in cs}
<1>1. PICK ks : ks = Group(map, anchors, cs, row.edge)
  OBVIOUS
<1>2. ks \in SUBSET Claims /\ NoneOverflows(ks)
  BY <1>1 DEF Group, NoneOverflows
<1>3. PICK s \in Segments(ks) :
        row = [edge |-> row.edge, from |-> LowerBound(s.low), to |-> UpperBound(s.high),
               claims |-> s.claims, builtAt |-> revision]
  BY <1>1, RowIsSegment
<1>4. row.from = LowerBound(s.low) /\ row.to = UpperBound(s.high)
  BY <1>3
<1>5. /\ s.low \in 1..LastDay /\ s.high \in 1..LastDay /\ s.low < s.high /\ LastDay \in Nat
      /\ s.claims # {} /\ Covering(ks, s.low) = s.claims
  BY <1>2, CutsAreDays, SegmentIs
<1>6. /\ row.from \in 0..LastDay /\ row.to \in 0..LastDay
      /\ FirstDay(row) \in Days /\ RowCovers(row, FirstDay(row))
  BY <1>4, <1>5 DEF FirstDay, LowerBound, UpperBound, Unbounded, RowCovers, Days
<1>7. PICK k \in cs : Cardinality(EdgeOf(map, anchors, k).ends) = 2 /\ EdgeOf(map, anchors, k) = row.edge
  BY <1>1, <1>5 DEF Covering, Group
<1>8. \E x, y : x # y /\ row.edge.ends = {x, y}
  <2>1. PICK x, y : EdgeOf(map, anchors, k).ends = {x, y}
    BY DEF EdgeOf
  <2>2. x # y
    <3>1. x = y => {x, y} = {x}
      OBVIOUS
    <3>2. Cardinality({x}) = 1
      BY FS_Singleton
    <3>3. Cardinality({x, y}) = 2
      BY <1>7, <2>1
    <3> QED
      BY <3>1, <3>2, <3>3
  <2> QED
    BY <1>7, <2>1, <2>2
<1> QED
  BY <1>6, <1>7, <1>8 DEF WellFormed

TableOK(rows) == DisjointRows(rows) /\ IsFiniteSet(rows) /\ \A row \in rows : WellFormed(row)

LEMMA RowsForOK ==
  ASSUME WindowsOK, NEW map, NEW anchors, NEW cs, NEW revision, IsFiniteSet(cs),
         \A k \in cs : k.id \in Claims /\ ~Overflows(k.id)
  PROVE  TableOK(RowsFor(map, anchors, cs, revision))
<1> DEFINE edge == [k \in cs |-> EdgeOf(map, anchors, k)]
           edges == {EdgeOf(map, anchors, k) : k \in cs}
<1>1. PICK rows : rows = RowsFor(map, anchors, cs, revision)
  OBVIOUS
<1>2. DisjointRows(rows) /\ \A row \in rows : WellFormed(row) /\ row.edge \in edges
  BY <1>1, RowsForDisjoint, RowIsWellFormed
<1>3. IsFiniteSet(edges)
  <2>1. edge \in Surjection(cs, edges)
    BY DEF Surjection
  <2> QED
    BY <2>1, FS_Surjection
<1> HIDE DEF edges
<1>4. IsFiniteSet(rows)
  <2> DEFINE place == [row \in rows |-> <<row.edge, row.from>>]
  <2>1. IsFiniteSet(edges \X (0..LastDay))
    <3>1. IsFiniteSet(0..LastDay)
      BY FS_Interval, CalendarAssumption DEF CalendarAssumption
    <3> QED
      BY <1>3, <3>1, FS_Product
  <2>2. ASSUME NEW row \in rows, NEW other \in rows, row.edge = other.edge, row.from = other.from
        PROVE  row = other
    BY <1>2, <2>2 DEF WellFormed, DisjointRows, FirstDay
  <2>3. place \in Injection(rows, edges \X (0..LastDay))
    <3>1. place \in [rows -> edges \X (0..LastDay)]
      BY <1>2 DEF WellFormed
    <3>2. \A row, other \in rows : place[row] = place[other] => row = other
      BY <2>2
    <3> QED
      BY <3>1, <3>2 DEF Injection, IsInjective
  <2> QED
    BY <2>1, <2>3, FS_Injection
<1> QED
  BY <1>1, <1>2, <1>4 DEF TableOK

\* A step records or retracts one claim.
LEMMA ClaimsStayFinite ==
  ASSUME IsFiniteSet(claims), [Next]_vars
  PROVE  IsFiniteSet(claims')
<1>1. ASSUME NEW k, NEW s, NEW o, NEW sm, NEW om, RecordClaim(k, s, sm, o, om)
      PROVE  IsFiniteSet(claims')
  <2>1. PICK new : claims' = claims \cup {new}
    BY <1>1 DEF RecordClaim
  <2> QED
    BY <2>1, FS_AddElement
<1>2. ASSUME NEW k, RetractClaim(k)
      PROVE  IsFiniteSet(claims')
  <2>1. PICK x, y : claims' = (claims \ {x}) \cup {y}
    BY <1>2 DEF RetractClaim
  <2> QED
    BY <2>1, FS_RemoveElement, FS_AddElement
<1>3. claims' = claims \/ \E k, s, o, sm, om : RecordClaim(k, s, sm, o, om) \/ RetractClaim(k)
  <2>1. ASSUME NEW parent, Adjudicate(parent) PROVE claims' = claims
    BY <2>1 DEF Adjudicate, ConfirmMatch, RejectMatch, MarkUnresolved, SplitEntity
  <2>2. CASE UNCHANGED vars
    BY <2>2 DEF vars
  <2> QED
    BY <2>1, <2>2 DEF Next, Record
<1> QED
  BY <1>1, <1>2, <1>3

\* One rebuild is at work at a time, and what it deletes is all there is.
WorkInv ==
  /\ WindowsOK /\ BuildersOK
  /\ claims \in SUBSET ClaimRow /\ IsFiniteSet(claims)
  /\ \A b, c \in Builders : builder[b].stage # "idle" /\ builder[c].stage # "idle" => b = c
  /\ \A b \in Builders :
       /\ builder[b].stage = "deleted" => builder[b].old = projected
       /\ builder[b].stage \in {"rows", "deleted"} => TableOK(builder[b].rows)
  /\ TableOK(projected)

LEMMA WorkStart == ProjectionInit /\ IInv => WorkInv
<1> SUFFICES ASSUME ProjectionInit, IInv PROVE WorkInv
  OBVIOUS
<1>1. \A b \in Builders : builder[b] = NoBuild
  BY DEF ProjectionInit
<1>2. BuildersOK /\ \A b \in Builders : builder[b].stage = "idle"
  BY <1>1, NoBuildIdle DEF ProjectionInit, BuildersOK, Idle, Build6
<1>3. projected = {} /\ IsFiniteSet(projected) /\ IsFiniteSet(claims)
  BY FS_EmptySet DEF ProjectionInit, Init
<1>4. TableOK(projected)
  BY <1>3 DEF TableOK, DisjointRows
<1> QED
  BY <1>2, <1>3, <1>4 DEF ProjectionInit, WindowsOK, WorkInv, IInv, TypeOK

\* A rebuild's step keeps the lock, and what it inserts is alone in the table.
LEMMA WorkBuild ==
  ASSUME WorkInv, NEW b \in Builders, Build(b)
  PROVE  WorkInv'
<1> DEFINE q == builder[b]
<1>1. ASSUME OnlyBuilder(b), NEW stage \in {"idle", "revision", "map", "anchors", "rows", "deleted"},
             NEW revision, NEW map, NEW anchors, NEW rows, NEW old,
             Build6(builder'[b], stage, revision, map, anchors, rows, old),
             stage # "idle" => \A c \in Builders \ {b} : builder[c].stage = "idle",
             stage = "deleted" => old = projected',
             stage \in {"rows", "deleted"} => TableOK(rows),
             TableOK(projected'),
             projected' # projected => \A c \in Builders \ {b} : builder[c].stage = "idle"
      PROVE  WorkInv'
  <2>1. BuildersOK' /\ WindowsOK' /\ claims' \in SUBSET ClaimRow /\ IsFiniteSet(claims')
    BY <1>1 DEF WorkInv, BuildersOK, OnlyBuilder, WindowsOK, Build6, vars
  <2>2. \A c, d \in Builders : builder'[c].stage # "idle" /\ builder'[d].stage # "idle" => c = d
    BY <1>1 DEF WorkInv, OnlyBuilder, Build6
  <2>3. ASSUME NEW c \in Builders
        PROVE  /\ builder'[c].stage = "deleted" => builder'[c].old = projected'
               /\ builder'[c].stage \in {"rows", "deleted"} => TableOK(builder'[c].rows)
    <3>1. CASE c = b
      BY <1>1, <3>1 DEF Build6
    <3>2. CASE c # b
      BY <1>1, <3>2 DEF OnlyBuilder, WorkInv
    <3> QED
      BY <3>1, <3>2
  <2> QED
    BY <1>1, <2>1, <2>2, <2>3 DEF WorkInv
<1>2. ASSUME q.stage # "idle" PROVE \A c \in Builders \ {b} : builder[c].stage = "idle"
  BY <1>2 DEF WorkInv
<1>3. TableOK(projected) /\ BuildersOK
  BY DEF WorkInv
<1>4. CASE StartRebuild(b)
  <2>1. /\ OnlyBuilder(b) /\ projected' = projected
        /\ \A x \in Builders : builder[x].stage = "idle"
        /\ Build6(builder'[b], "revision", head, q.map, q.anchors, q.rows, q.old)
    BY <1>3, <1>4, StartDoes
  <2> QED
    BY <1>1, <1>3, <2>1
<1>5. CASE ReadCanonical(b)
  <2>1. /\ OnlyBuilder(b) /\ projected' = projected /\ q.stage = "revision"
        /\ Build6(builder'[b], "map", q.revision, canonical, q.anchors, q.rows, q.old)
    BY <1>3, <1>5, ReadCanonicalDoes
  <2> QED
    BY <1>1, <1>2, <1>3, <2>1
<1>6. CASE ReadAnchors(b)
  <2>1. /\ OnlyBuilder(b) /\ projected' = projected /\ q.stage = "map"
        /\ Build6(builder'[b], "anchors", q.revision, q.map, CurrentAnchors, q.rows, q.old)
    BY <1>3, <1>6, ReadAnchorsDoes
  <2> QED
    BY <1>1, <1>2, <1>3, <2>1
<1>7. CASE ReadClaims(b)
  <2>1. /\ OnlyBuilder(b) /\ projected' = projected /\ q.stage = "anchors"
        /\ \A k \in Projectable : ~Overflows(k.id)
        /\ Build6(builder'[b], "rows", q.revision, NoLineage, NoLineage,
                  RowsFor(q.map, q.anchors, Projectable, q.revision), q.old)
    BY <1>3, <1>7, ReadClaimsDoes
  <2>2. IsFiniteSet(Projectable) /\ \A k \in Projectable : k.id \in Claims
    <3>1. Projectable \in SUBSET claims
      BY DEF Projectable
    <3> QED
      BY <3>1, FS_Subset DEF WorkInv, ClaimRow
  <2>3. TableOK(RowsFor(q.map, q.anchors, Projectable, q.revision))
    BY <2>1, <2>2, RowsForOK DEF WorkInv
  <2> QED
    BY <1>1, <1>2, <1>3, <2>1, <2>3
<1>8. CASE DeleteRows(b)
  <2>1. /\ OnlyBuilder(b) /\ projected' = projected /\ q.stage = "rows"
        /\ Build6(builder'[b], "deleted", q.revision, q.map, q.anchors, q.rows, projected)
    BY <1>3, <1>8, DeleteDoes
  <2>2. TableOK(q.rows)
    BY <2>1 DEF WorkInv
  <2> QED
    BY <1>1, <1>2, <1>3, <2>1, <2>2
<1>9. CASE InsertRows(b)
  <2>1. /\ OnlyBuilder(b) /\ q.stage = "deleted" /\ Idle(builder'[b])
        /\ projected' = (projected \ q.old) \cup q.rows
    BY <1>3, <1>9, InsertDoes
  <2>2. projected' = q.rows /\ TableOK(q.rows)
    BY <2>1 DEF WorkInv
  <2> QED
    BY <1>1, <1>2, <2>1, <2>2 DEF Idle
<1>10. CASE FailBuild(b)
  <2>1. OnlyBuilder(b) /\ projected' = projected /\ Idle(builder'[b])
    BY <1>3, <1>10, FailDoes
  <2> QED
    BY <1>1, <1>3, <2>1 DEF Idle
<1> QED
  BY <1>4, <1>5, <1>6, <1>7, <1>8, <1>9, <1>10 DEF Build

\* The ledger's steps in a rebuild's world are its own.
LEMMA ProjectionMoves == [ProjectionNext]_projectionVars => [Next]_vars
BY DEF ProjectionNext, projectionVars, Build, Unbuilt, StartRebuild, ReadCanonical,
       ReadAnchors, ReadClaims, DeleteRows, InsertRows, FailBuild

LEMMA ProjectionLedger == ProjectionSpec => []IInv
<1>1. ProjectionInit => Init
  BY DEF ProjectionInit
<1> QED
  BY <1>1, ProjectionMoves, InvariantHolds, PTL DEF ProjectionSpec, Spec

LEMMA WorkStep == WorkInv /\ IInv' /\ [ProjectionNext]_projectionVars => WorkInv'
<1> SUFFICES ASSUME WorkInv, IInv', [ProjectionNext]_projectionVars PROVE WorkInv'
  OBVIOUS
<1>1. CASE UNCHANGED <<validity, projected, builder>>
  <2>1. IsFiniteSet(claims') /\ claims' \in SUBSET ClaimRow
    BY ProjectionMoves, ClaimsStayFinite DEF WorkInv, IInv, TypeOK
  <2> QED
    BY <1>1, <2>1 DEF WorkInv, WindowsOK, BuildersOK
<1>2. CASE \E b \in Builders : Build(b)
  BY <1>2, WorkBuild
<1> QED
  BY <1>1, <1>2 DEF ProjectionNext, projectionVars

\* An edge has one row a day, however rebuilds are asked for and however they end
\* (routes/projections.py, _segment).
THEOREM OneRowADay == ProjectionSpec => []RowsOfAnEdgeAreDisjoint
<1>1. WorkInv => RowsOfAnEdgeAreDisjoint
  BY DEF WorkInv, TableOK, DisjointRows, RowsOfAnEdgeAreDisjoint
<1> QED
  BY <1>1, WorkStart, WorkStep, ProjectionLedger, PTL DEF ProjectionSpec
-----------------------------------------------------------------------------
\* What of the ledger stands still while no decision commits.
LEMMA QuietStep ==
  ASSUME IInv, [Next]_vars, head' = head
  PROVE  canonical' = canonical /\ (OpensRows \/ memberships' = memberships)
<1>1. head \in Nat /\ head' # head + 1
  BY LedgerAssumption DEF IInv, TypeOK, LedgerAssumption
<1>2. MovesRows \/ OpensRows \/ KeepsRows
  BY <1>1, StepOnRows
<1>3. ASSUME NEW parent \in 0..MaxRevision, Adjudicate(parent) PROVE FALSE
  <2>1. ASSUME NEW x \in Mentions, NEW y \in Mentions, NEW c \in Candidates \cup {None},
               \/ ConfirmMatch(parent, x, y, c) \/ RejectMatch(parent, x, y, c)
               \/ MarkUnresolved(parent, x, y, c)
        PROVE  FALSE
    BY <1>1, <2>1 DEF ConfirmMatch, RejectMatch, MarkUnresolved, OpenDecision
  <2>2. ASSUME NEW e \in entities, NEW ms \in SUBSET Mentions, NEW target \in Entities,
               SplitEntity(parent, e, ms, target)
        PROVE  FALSE
    BY <1>1, <2>2 DEF SplitEntity, OpenDecision
  <2> QED
    BY <1>3, <2>1, <2>2 DEF Adjudicate
<1>4. canonical' = canonical
  BY <1>3 DEF Next, Record, RecordClaim, RetractClaim, vars
<1> QED
  BY <1>1, <1>2, <1>4 DEF MovesRows, KeepsRows

LEMMA HeadGrows ==
  ASSUME IInv, [Next]_vars, head' # head
  PROVE  head' = head + 1 /\ head \in Nat
<1>1. head \in Nat
  BY LedgerAssumption DEF IInv, TypeOK, LedgerAssumption
<1> QED
  BY <1>1, StepOnRows DEF MovesRows, OpensRows, KeepsRows

\* A mention with a row has an active one, and CurrentAnchors says whose it is.
AnchorsNamed ==
  \A m, e : Belongs(m, e) => m \in DOMAIN CurrentAnchors /\ CurrentAnchors[m] = e

LEMMA AnchorIs == IInv => AnchorsNamed
<1> SUFFICES ASSUME IInv, NEW m, NEW e, Belongs(m, e)
             PROVE  m \in DOMAIN CurrentAnchors /\ CurrentAnchors[m] = e
  BY DEF AnchorsNamed
<1>1. PICK row \in Active : row.mention = m /\ row.entity = e
  BY DEF Belongs
<1>2. e \in Entities
  BY <1>1 DEF Active, IInv, Rows, Membership
<1>3. \A f : Belongs(m, f) => f = e
  BY <1>1 DEF Belongs, Active, IInv, OneEntityPerMention
<1>4. m \in DOMAIN CurrentAnchors /\ CurrentAnchors[m] = CHOOSE f \in Entities : Belongs(m, f)
  BY <1>1 DEF CurrentAnchors
<1> QED
  BY <1>2, <1>3, <1>4

LEMMA AnchorsAre ==
  IInv => \A m \in DOMAIN CurrentAnchors : Belongs(m, CurrentAnchors[m])
<1> SUFFICES ASSUME IInv, NEW m \in DOMAIN CurrentAnchors PROVE Belongs(m, CurrentAnchors[m])
  OBVIOUS
<1>1. PICK row \in Active : row.mention = m
  BY DEF CurrentAnchors
<1>2. Belongs(m, row.entity)
  BY <1>1 DEF Belongs
<1> QED
  BY <1>2, AnchorIs DEF AnchorsNamed

LEMMA ActiveRow ==
  ASSUME IInv, NEW row \in memberships
  PROVE  Resolved(row.mention) /\ \E e : Belongs(row.mention, e)
BY DEF IInv, OneEntityPerMention, Resolved, Belongs

\* While no decision commits, the rows of a mention that has some stay as they are, and
\* a mention that gets its first row gets one, at the head.
LEMMA QuietRows ==
  ASSUME IInv, OpensRows \/ memberships' = memberships, head' = head
  PROVE  /\ memberships \subseteq memberships'
         /\ \A row \in memberships' \ memberships :
              /\ row.opened = head /\ row.closed = Open /\ ~Resolved(row.mention)
              /\ \A x \in memberships' : x.mention = row.mention => x = row
<1>1. CASE memberships' = memberships
  BY <1>1
<1>2. CASE OpensRows
  <2>1. PICK s \in Entities, o \in Entities \cup {None}, sm \in Mentions \cup {None},
             om \in Mentions \cup {None} :
          /\ sm = om => sm = None
          /\ memberships' = memberships \cup Opening(s, sm) \cup Opening(o, om)
    BY <1>2 DEF OpensRows
  <2>2. ASSUME NEW e, NEW m, NEW x \in Opening(e, m)
        PROVE  /\ m # None /\ ~Resolved(m) /\ x.mention = m /\ x.opened = head /\ x.closed = Open
               /\ x = [mention |-> m, entity |-> e, opened |-> head, closed |-> Open]
    BY <2>2, OpeningRow
  <2>3. ASSUME NEW row \in Opening(s, sm) \cup Opening(o, om), NEW x \in memberships',
               x.mention = row.mention
        PROVE  x = row
    <3>1. ~Resolved(row.mention) /\ row.mention # None
      BY <2>2
    <3>2. x \notin memberships
      BY <2>3, <3>1, ActiveRow
    <3>3. x \in Opening(s, sm) \cup Opening(o, om)
      BY <2>1, <3>2
    <3> QED
      BY <2>1, <2>2, <2>3, <3>1, <3>3
  <2> QED
    BY <2>1, <2>2, <2>3
<1> QED
  BY <1>1, <1>2

LEMMA QuietBelongs ==
  ASSUME IInv, OpensRows \/ memberships' = memberships, head' = head
  PROVE  \A m, e : Belongs(m, e) => Belongs(m, e)'
BY QuietRows DEF Belongs, Active
-----------------------------------------------------------------------------
ClaimIdsUnique == \A k, l \in claims : k.id = l.id => k = l
ClaimIds == {k.id : k \in claims}

\* A claim keeps its id, its ends and its anchors.
LEMMA ClaimsKept ==
  ASSUME IInv, ClaimIdsUnique, [Next]_vars
  PROVE  /\ ClaimIdsUnique' /\ ClaimIds \subseteq ClaimIds'
         /\ \A l \in claims' : l.id \in ClaimIds => \E k \in claims : SameClaim(k, l)
<1>1. ClaimsGoOn
  BY ClaimsStep
<1>2. ClaimIdsUnique' /\ ClaimIds \subseteq ClaimIds'
  BY <1>1 DEF ClaimsGoOn, ClaimIdsUnique, ClaimIds, SameClaim
<1>3. ASSUME NEW l \in claims', l.id \in ClaimIds
      PROVE  \E k \in claims : SameClaim(k, l)
  BY <1>1, <1>3 DEF ClaimsGoOn, ClaimIds, SameClaim
<1> QED
  BY <1>2, <1>3

\* The mention of an argument has a row that gives it to the entity named beside it.
LEMMA AnchorRow ==
  ASSUME AnchorsHeldWhenWritten, NEW k \in claims
  PROVE  /\ k.subjectMention # None =>
              \E row \in memberships : row.mention = k.subjectMention /\ row.entity = k.subject
         /\ k.objectMention # None =>
              \E row \in memberships : row.mention = k.objectMention /\ row.entity = k.object
<1>1. \A rev, m, e : <<m, e>> \in HeldAt(rev) => \E row \in memberships : row.mention = m /\ row.entity = e
  BY DEF HeldAt
<1>2. /\ k.subjectMention # None => <<k.subjectMention, k.subject>> \in HeldAt(k.revision)
      /\ k.objectMention # None => <<k.objectMention, k.object>> \in HeldAt(k.revision)
  BY DEF AnchorsHeldWhenWritten
<1> QED
  BY <1>1, <1>2
-----------------------------------------------------------------------------
LEMMA CurrentEdgeIs == \A k : CurrentEdge(k) = EdgeOf(canonical, CurrentAnchors, k)
BY DEF CurrentEdge, CurrentAnchors

\* What an argument stands for stays, while no decision commits.
LEMMA EndpointStays ==
  ASSUME IInv, IInv', OpensRows \/ memberships' = memberships, head' = head,
         canonical' = canonical, NEW e, NEW m,
         m # None => \E row \in memberships : row.mention = m
  PROVE  EndpointOf(canonical, CurrentAnchors', e, m) = EndpointOf(canonical, CurrentAnchors, e, m)
<1>1. CASE m = None
  BY <1>1 DEF EndpointOf
<1>2. CASE m # None
  <2>1. PICK f : Belongs(m, f)
    BY <1>2, ActiveRow
  <2>2. Belongs(m, f)'
    BY <2>1, QuietBelongs
  <2>3. m \in DOMAIN CurrentAnchors /\ CurrentAnchors[m] = f
    BY <2>1, AnchorIs DEF AnchorsNamed
  <2>4. AnchorsNamed'
    BY AnchorIs, PTL
  <2>5. m \in DOMAIN CurrentAnchors' /\ CurrentAnchors'[m] = f
    BY <2>2, <2>4 DEF AnchorsNamed
  <2> QED
    BY <1>2, <2>3, <2>5 DEF EndpointOf
<1> QED
  BY <1>1, <1>2

LEMMA EdgeStays ==
  ASSUME IInv, IInv', AnchorsHeldWhenWritten, OpensRows \/ memberships' = memberships,
         head' = head, canonical' = canonical, NEW k \in claims, NEW l, SameClaim(k, l)
  PROVE  /\ EdgeOf(canonical', CurrentAnchors', l) = CurrentEdge(k)
         /\ OnAbsorbedSince(k) => OnAbsorbedSince(l)'
<1>1. /\ EndpointOf(canonical, CurrentAnchors', k.subject, k.subjectMention)
           = EndpointOf(canonical, CurrentAnchors, k.subject, k.subjectMention)
      /\ EndpointOf(canonical, CurrentAnchors', k.object, k.objectMention)
           = EndpointOf(canonical, CurrentAnchors, k.object, k.objectMention)
  <2>1. /\ k.subjectMention # None => \E row \in memberships : row.mention = k.subjectMention
        /\ k.objectMention # None => \E row \in memberships : row.mention = k.objectMention
    BY AnchorRow
  <2> QED
    BY <2>1, EndpointStays
<1>2. EdgeOf(canonical', CurrentAnchors', l) = EdgeOf(canonical, CurrentAnchors, k)
  BY <1>1 DEF EdgeOf, SameClaim
<1>3. ASSUME OnAbsorbedSince(k) PROVE OnAbsorbedSince(l)'
  <2>1. PICK row \in memberships :
          /\ row.mention \in {k.subjectMention, k.objectMention} /\ row.opened = head
          /\ \A x \in memberships : x.mention = row.mention => x = row
          /\ CanonicalIn(canonical, row.entity) # row.entity
    BY <1>3 DEF OnAbsorbedSince
  <2>2. row \in memberships' /\ \A x \in memberships' : x.mention = row.mention => x = row
    BY <2>1, QuietRows, ActiveRow
  <2>3. CanonicalIn(canonical', row.entity) # row.entity
    BY <2>1
  <2> QED
    BY <2>1, <2>2, <2>3 DEF OnAbsorbedSince, SameClaim
<1> QED
  BY <1>2, <1>3, CurrentEdgeIs

\* The anchors a rebuild has read: right for whom they name, and who is not named got
\* his first row since.
AnchorsOK(anchors) ==
  /\ \A m \in DOMAIN anchors : Belongs(m, anchors[m])
  /\ \A row \in memberships : row.mention \notin DOMAIN anchors =>
       row.opened = head /\ \A x \in memberships : x.mention = row.mention => x = row

LEMMA AnchorsOKStays ==
  ASSUME IInv, NEW anchors, AnchorsOK(anchors),
         OpensRows \/ memberships' = memberships, head' = head
  PROVE  AnchorsOK(anchors)'
<1>1. \A m \in DOMAIN anchors : Belongs(m, anchors[m])'
  BY QuietBelongs DEF AnchorsOK
<1>2. ASSUME NEW row \in memberships', row.mention \notin DOMAIN anchors
      PROVE  row.opened = head /\ \A x \in memberships' : x.mention = row.mention => x = row
  <2>1. CASE row \in memberships
    BY <1>2, <2>1, QuietRows, ActiveRow DEF AnchorsOK
  <2>2. CASE row \notin memberships
    BY <2>2, QuietRows
  <2> QED
    BY <2>1, <2>2
<1> QED
  BY <1>1, <1>2 DEF AnchorsOK

LEMMA AnchorsOKRead == IInv => AnchorsOK(CurrentAnchors)
<1> SUFFICES ASSUME IInv PROVE AnchorsOK(CurrentAnchors)
  OBVIOUS
<1>1. \A row \in memberships : row.mention \in DOMAIN CurrentAnchors
  BY ActiveRow, AnchorIs DEF AnchorsNamed
<1> QED
  BY <1>1, AnchorsAre DEF AnchorsOK

\* With them a claim's ends are what they are now.
LEMMA EdgeRead ==
  ASSUME IInv, AnchorsHeldWhenWritten, NEW anchors, AnchorsOK(anchors),
         NEW k \in claims, ~OnAbsorbedSince(k)
  PROVE  EdgeOf(canonical, anchors, k) = CurrentEdge(k)
<1>1. ASSUME NEW e, NEW m \in {k.subjectMention, k.objectMention},
             m # None => \E row \in memberships : row.mention = m /\ row.entity = e
      PROVE  EndpointOf(canonical, anchors, e, m) = EndpointOf(canonical, CurrentAnchors, e, m)
  <2>1. CASE m = None
    BY <2>1 DEF EndpointOf
  <2>2. CASE m # None /\ m \in DOMAIN anchors
    <3>1. Belongs(m, anchors[m])
      BY <2>2 DEF AnchorsOK
    <3> QED
      BY <2>2, <3>1, AnchorIs DEF EndpointOf, AnchorsNamed
  <2>3. CASE m # None /\ m \notin DOMAIN anchors
    <3>1. PICK row \in memberships : row.mention = m /\ row.entity = e
      BY <1>1, <2>3
    <3>2. row.opened = head /\ \A x \in memberships : x.mention = m => x = row
      BY <2>3, <3>1 DEF AnchorsOK
    <3>3. CanonicalIn(canonical, e) = e
      BY <3>1, <3>2 DEF OnAbsorbedSince
    <3>4. PICK f : Belongs(m, f)
      BY <3>1, ActiveRow
    <3>5. f = e
      BY <3>1, <3>2, <3>4 DEF Belongs, Active
    <3>6. m \in DOMAIN CurrentAnchors /\ CurrentAnchors[m] = e
      BY <3>4, <3>5, AnchorIs DEF AnchorsNamed
    <3> QED
      BY <2>3, <3>3, <3>6 DEF EndpointOf
  <2> QED
    BY <2>1, <2>2, <2>3
<1>2. /\ EndpointOf(canonical, anchors, k.subject, k.subjectMention)
           = EndpointOf(canonical, CurrentAnchors, k.subject, k.subjectMention)
      /\ EndpointOf(canonical, anchors, k.object, k.objectMention)
           = EndpointOf(canonical, CurrentAnchors, k.object, k.objectMention)
  BY <1>1, AnchorRow
<1>3. EdgeOf(canonical, anchors, k) = EdgeOf(canonical, CurrentAnchors, k)
  BY <1>2 DEF EdgeOf
<1> QED
  BY <1>3, CurrentEdgeIs

LEMMA RowClaims ==
  ASSUME NEW map, NEW anchors, NEW cs, NEW revision, NEW row \in RowsFor(map, anchors, cs, revision)
  PROVE  /\ row.builtAt = revision
         /\ \A id \in row.claims : \E k \in cs : k.id = id /\ EdgeOf(map, anchors, k) = row.edge
<1>1. PICK s \in Segments(Group(map, anchors, cs, row.edge)) :
        row = [edge |-> row.edge, from |-> LowerBound(s.low), to |-> UpperBound(s.high),
               claims |-> s.claims, builtAt |-> revision]
  BY RowIsSegment
<1>2. row.builtAt = revision /\ row.claims = s.claims
  BY <1>1
<1>3. s.claims \subseteq Group(map, anchors, cs, row.edge)
  BY SegmentIs DEF Covering
<1> QED
  BY <1>2, <1>3 DEF Group
-----------------------------------------------------------------------------
\* A row is of claims there are, and tells who is who if it was built at this head.
RowOK(r) ==
  /\ r.builtAt \in Nat /\ r.builtAt <= head
  /\ r.claims \subseteq ClaimIds
  /\ r.builtAt = head =>
       \A k \in claims : k.id \in r.claims /\ ~OnAbsorbedSince(k) => CurrentEdge(k) = r.edge

LEMMA RowStays ==
  ASSUME IInv, IInv', AnchorsHeldWhenWritten, ClaimIdsUnique, [Next]_vars, NEW r, RowOK(r)
  PROVE  RowOK(r)'
<1>1. r.claims \subseteq ClaimIds' /\ \A l \in claims' : l.id \in ClaimIds => \E k \in claims : SameClaim(k, l)
  BY ClaimsKept DEF RowOK
<1>2. CASE head' # head
  <2>1. head' = head + 1 /\ head \in Nat
    BY <1>2, HeadGrows
  <2> QED
    BY <1>1, <2>1 DEF RowOK
<1>3. CASE head' = head
  <2>1. canonical' = canonical /\ (OpensRows \/ memberships' = memberships)
    BY <1>3, QuietStep
  <2>2. ASSUME r.builtAt = head, NEW l \in claims', l.id \in r.claims, ~OnAbsorbedSince(l)'
        PROVE  EdgeOf(canonical', CurrentAnchors', l) = r.edge
    <3>1. PICK k \in claims : SameClaim(k, l)
      BY <1>1, <2>2 DEF RowOK
    <3>2. EdgeOf(canonical', CurrentAnchors', l) = CurrentEdge(k) /\ ~OnAbsorbedSince(k)
      BY <1>3, <2>1, <2>2, <3>1, EdgeStays
    <3> QED
      BY <2>2, <3>1, <3>2 DEF RowOK, SameClaim
  <2>3. \A k : CurrentEdge(k)' = EdgeOf(canonical', CurrentAnchors', k)
    BY DEF CurrentEdge, CurrentAnchors
  <2>4. r.builtAt = head => \A l \in claims' : l.id \in r.claims /\ ~OnAbsorbedSince(l)' => CurrentEdge(l)' = r.edge
    BY <2>2, <2>3
  <2> QED
    BY <1>1, <1>3, <2>4 DEF RowOK
<1> QED
  BY <1>2, <1>3

\* What a rebuild at work has read is true, if no decision was committed since it began.
BuildOK(q) ==
  /\ q.revision \in Nat /\ q.revision <= head
  /\ q.stage \in {"map", "anchors"} /\ q.revision = head => q.map = canonical
  /\ q.stage = "anchors" /\ q.revision = head => AnchorsOK(q.anchors)
  /\ q.stage \in {"rows", "deleted"} => \A r \in q.rows : RowOK(r)

LEMMA BuildStays ==
  ASSUME IInv, IInv', AnchorsHeldWhenWritten, ClaimIdsUnique, [Next]_vars, NEW q, BuildOK(q)
  PROVE  BuildOK(q)'
<1>1. q.stage \in {"rows", "deleted"} => \A r \in q.rows : RowOK(r)'
  BY RowStays DEF BuildOK
<1>2. CASE head' # head
  <2>1. head' = head + 1 /\ head \in Nat
    BY <1>2, HeadGrows
  <2> QED
    BY <1>1, <2>1 DEF BuildOK
<1>3. CASE head' = head
  <2>1. canonical' = canonical /\ (OpensRows \/ memberships' = memberships)
    BY <1>3, QuietStep
  <2>2. q.stage = "anchors" /\ q.revision = head => AnchorsOK(q.anchors)'
    BY <1>3, <2>1, AnchorsOKStays DEF BuildOK
  <2> QED
    BY <1>1, <1>3, <2>1, <2>2 DEF BuildOK
<1> QED
  BY <1>2, <1>3

RowInv ==
  /\ BuildersOK /\ ClaimIdsUnique
  /\ \A b \in Builders : builder[b].stage # "idle" => BuildOK(builder[b])
  /\ \A r \in projected : RowOK(r)

LEMMA RowStart == ProjectionInit => RowInv
<1> SUFFICES ASSUME ProjectionInit PROVE RowInv
  OBVIOUS
<1>1. \A b \in Builders : builder[b] = NoBuild
  BY DEF ProjectionInit
<1>2. BuildersOK /\ \A b \in Builders : builder[b].stage = "idle"
  BY <1>1, NoBuildIdle DEF ProjectionInit, BuildersOK, Idle, Build6
<1> QED
  BY <1>2 DEF ProjectionInit, Init, RowInv, ClaimIdsUnique

\* Each read of a rebuild is true when it is made, and so are the rows made of them.
LEMMA RowBuild ==
  ASSUME RowInv, IInv, AnchorsHeldWhenWritten, NEW b \in Builders, Build(b)
  PROVE  RowInv'
<1> DEFINE q == builder[b]
<1>1. ASSUME OnlyBuilder(b), NEW stage \in {"idle", "revision", "map", "anchors", "rows", "deleted"},
             NEW revision, NEW map, NEW anchors, NEW rows, NEW old,
             Build6(builder'[b], stage, revision, map, anchors, rows, old),
             stage # "idle" => /\ revision \in Nat /\ revision <= head
                               /\ stage \in {"map", "anchors"} /\ revision = head => map = canonical
                               /\ stage = "anchors" /\ revision = head => AnchorsOK(anchors)
                               /\ stage \in {"rows", "deleted"} => \A r \in rows : RowOK(r),
             \A r \in projected' : RowOK(r)
      PROVE  RowInv'
  <2>1. UNCHANGED vars
    BY <1>1 DEF OnlyBuilder
  <2>2. BuildersOK' /\ ClaimIdsUnique'
    BY <1>1, <2>1 DEF RowInv, BuildersOK, OnlyBuilder, Build6, vars, ClaimIdsUnique
  <2>3. \A r : RowOK(r)' <=> RowOK(r)
    BY <2>1 DEF RowOK, vars, ClaimIds, OnAbsorbedSince, CurrentEdge, Active, Belongs
  <2>4. \A a : AnchorsOK(a)' <=> AnchorsOK(a)
    BY <2>1 DEF AnchorsOK, vars, Active, Belongs
  <2>5. \A x : BuildOK(x)' <=> BuildOK(x)
    BY <2>1, <2>3, <2>4 DEF BuildOK, vars
  <2>6. ASSUME NEW c \in Builders, builder'[c].stage # "idle" PROVE BuildOK(builder[c])'
    <3>1. PICK x : x = builder'[c]
      OBVIOUS
    <3>2. BuildOK(x)
      <4>1. CASE c = b
        BY <1>1, <2>6, <3>1, <4>1 DEF Build6, BuildOK
      <4>2. CASE c # b
        BY <1>1, <2>6, <3>1, <4>2 DEF OnlyBuilder, RowInv
      <4> QED
        BY <4>1, <4>2
    <3>3. BuildOK(x)'
      BY <2>5, <3>2
    <3> QED
      BY <3>1, <3>3 DEF BuildOK
  <2>7. \A c \in Builders : (builder[c].stage # "idle" => BuildOK(builder[c]))'
    BY <2>6
  <2> QED
    BY <1>1, <2>2, <2>3, <2>7 DEF RowInv
<1>2. BuildersOK /\ \A r \in projected : RowOK(r)
  BY DEF RowInv
<1>3. ASSUME q.stage # "idle" PROVE BuildOK(q)
  BY <1>3 DEF RowInv
<1>4. CASE StartRebuild(b)
  <2>1. /\ OnlyBuilder(b) /\ projected' = projected
        /\ Build6(builder'[b], "revision", head, q.map, q.anchors, q.rows, q.old)
    BY <1>2, <1>4, StartDoes
  <2>2. head \in Nat /\ head <= head
    BY LedgerAssumption DEF IInv, TypeOK, LedgerAssumption
  <2> QED
    BY <1>1, <1>2, <2>1, <2>2
<1>5. CASE ReadCanonical(b)
  <2>1. /\ OnlyBuilder(b) /\ projected' = projected /\ q.stage = "revision"
        /\ Build6(builder'[b], "map", q.revision, canonical, q.anchors, q.rows, q.old)
    BY <1>2, <1>5, ReadCanonicalDoes
  <2>2. q.revision \in Nat /\ q.revision <= head
    BY <1>3, <2>1 DEF BuildOK
  <2> QED
    BY <1>1, <1>2, <2>1, <2>2
<1>6. CASE ReadAnchors(b)
  <2>1. /\ OnlyBuilder(b) /\ projected' = projected /\ q.stage = "map"
        /\ Build6(builder'[b], "anchors", q.revision, q.map, CurrentAnchors, q.rows, q.old)
    BY <1>2, <1>6, ReadAnchorsDoes
  <2>2. q.revision \in Nat /\ q.revision <= head /\ (q.revision = head => q.map = canonical)
    BY <1>3, <2>1 DEF BuildOK
  <2>3. AnchorsOK(CurrentAnchors)
    BY AnchorsOKRead
  <2> QED
    BY <1>1, <1>2, <2>1, <2>2, <2>3
<1>7. CASE ReadClaims(b)
  <2> DEFINE rows == RowsFor(q.map, q.anchors, Projectable, q.revision)
  <2>1. /\ OnlyBuilder(b) /\ projected' = projected /\ q.stage = "anchors"
        /\ Build6(builder'[b], "rows", q.revision, NoLineage, NoLineage, rows, q.old)
    BY <1>2, <1>7, ReadClaimsDoes
  <2>2. /\ q.revision \in Nat /\ q.revision <= head
        /\ q.revision = head => q.map = canonical /\ AnchorsOK(q.anchors)
    BY <1>3, <2>1 DEF BuildOK
  <2>3. ASSUME NEW r \in rows PROVE RowOK(r)
    <3>1. /\ r.builtAt = q.revision
          /\ \A id \in r.claims : \E k \in Projectable : k.id = id /\ EdgeOf(q.map, q.anchors, k) = r.edge
      BY RowClaims
    <3>2. r.claims \subseteq ClaimIds
      BY <3>1 DEF Projectable, ClaimIds
    <3>3. ASSUME q.revision = head, NEW k \in claims, k.id \in r.claims, ~OnAbsorbedSince(k)
          PROVE  CurrentEdge(k) = r.edge
      <4>1. EdgeOf(canonical, q.anchors, k) = r.edge
        BY <2>2, <3>1, <3>3 DEF Projectable, RowInv, ClaimIdsUnique
      <4> QED
        BY <2>2, <3>3, <4>1, EdgeRead
    <3> QED
      BY <2>2, <3>1, <3>2, <3>3 DEF RowOK
  <2> HIDE DEF rows
  <2> QED
    BY <1>1, <1>2, <2>1, <2>2, <2>3
<1>8. CASE DeleteRows(b)
  <2>1. /\ OnlyBuilder(b) /\ projected' = projected /\ q.stage = "rows"
        /\ Build6(builder'[b], "deleted", q.revision, q.map, q.anchors, q.rows, projected)
    BY <1>2, <1>8, DeleteDoes
  <2>2. q.revision \in Nat /\ q.revision <= head /\ \A r \in q.rows : RowOK(r)
    BY <1>3, <2>1 DEF BuildOK
  <2> QED
    BY <1>1, <1>2, <2>1, <2>2
<1>9. CASE InsertRows(b)
  <2>1. /\ OnlyBuilder(b) /\ q.stage = "deleted" /\ Idle(builder'[b])
        /\ projected' = (projected \ q.old) \cup q.rows
    BY <1>2, <1>9, InsertDoes
  <2>2. \A r \in projected' : RowOK(r)
    BY <1>2, <1>3, <2>1 DEF BuildOK
  <2> QED
    BY <1>1, <2>1, <2>2 DEF Idle
<1>10. CASE FailBuild(b)
  <2>1. OnlyBuilder(b) /\ projected' = projected /\ Idle(builder'[b])
    BY <1>2, <1>10, FailDoes
  <2> QED
    BY <1>1, <1>2, <2>1 DEF Idle
<1> QED
  BY <1>4, <1>5, <1>6, <1>7, <1>8, <1>9, <1>10 DEF Build

LEMMA RowStep ==
  RowInv /\ IInv /\ IInv' /\ AnchorsHeldWhenWritten /\ [ProjectionNext]_projectionVars => RowInv'
<1> SUFFICES ASSUME RowInv, IInv, IInv', AnchorsHeldWhenWritten, [ProjectionNext]_projectionVars
             PROVE  RowInv'
  OBVIOUS
<1>1. CASE [Next]_vars /\ UNCHANGED <<validity, projected, builder>>
  <2>1. ClaimIdsUnique /\ ClaimIdsUnique'
    BY <1>1, ClaimsKept DEF RowInv
  <2>2. \A r \in projected : RowOK(r)'
    BY <1>1, <2>1, RowStays DEF RowInv
  <2>3. ASSUME NEW b \in Builders, builder[b].stage # "idle" PROVE BuildOK(builder[b])'
    <3>1. PICK q : q = builder[b] /\ q = builder'[b]
      BY <1>1
    <3>2. BuildOK(q)
      BY <2>3, <3>1 DEF RowInv
    <3>3. BuildOK(q)'
      BY <1>1, <2>1, <3>2, BuildStays
    <3> QED
      BY <3>1, <3>3 DEF BuildOK
  <2>4. BuildersOK'
    BY <1>1 DEF RowInv, BuildersOK
  <2>5. \A b \in Builders : (builder[b].stage # "idle" => BuildOK(builder[b]))'
    BY <1>1, <2>3
  <2> QED
    BY <1>1, <2>1, <2>2, <2>4, <2>5 DEF RowInv
<1>2. CASE \E b \in Builders : Build(b)
  BY <1>2, RowBuild
<1> QED
  BY <1>1, <1>2 DEF ProjectionNext, projectionVars

LEMMA ProjectionAnchors == ProjectionSpec => []AnchorsHeldWhenWritten
<1>1. ProjectionInit => Init
  BY DEF ProjectionInit
<1>2. ASSUME [ProjectionNext]_projectionVars PROVE [Next]_vars
  BY <1>2 DEF ProjectionNext, projectionVars, Build, Unbuilt, StartRebuild, ReadCanonical,
       ReadAnchors, ReadClaims, DeleteRows, InsertRows, FailBuild
<1> QED
  BY <1>1, <1>2, AnchorsHeld, PTL DEF ProjectionSpec, Spec

LEMMA RowInvHolds == ProjectionSpec => []RowInv
BY RowStart, RowStep, ProjectionLedger, ProjectionAnchors, PTL DEF ProjectionSpec

LEMMA RowsTell ==
  IInv /\ RowInv /\ ~IsStale =>
    \A row \in projected, k \in claims :
      k.id \in row.claims /\ ~OnAbsorbedSince(k) => CurrentEdge(k) = row.edge
<1> SUFFICES ASSUME IInv, RowInv, ~IsStale, NEW row \in projected, NEW k \in claims,
                    k.id \in row.claims, ~OnAbsorbedSince(k)
             PROVE  CurrentEdge(k) = row.edge
  OBVIOUS
<1>1. RowOK(row) /\ ~(row.builtAt < head)
  BY DEF RowInv, IsStale
<1>2. row.builtAt = head
  <2>1. row.builtAt \in Nat /\ row.builtAt <= head
    BY <1>1 DEF RowOK
  <2>2. head \in Nat
    BY LedgerAssumption DEF IInv, TypeOK, LedgerAssumption
  <2> QED
    BY <1>1, <2>1, <2>2
<1> QED
  BY <1>1, <1>2 DEF RowOK

\* A row that is not marked stale tells who is who now, whatever was decided, recorded or
\* retracted between the reads of the rebuild that made it (rebuild, projection_stamps).
THEOREM UnmarkedAreCurrent == ProjectionSpec => []UnmarkedRowsAreCurrent
<1>1. IInv /\ RowInv => UnmarkedRowsAreCurrent
  BY RowsTell DEF UnmarkedRowsAreCurrent
<1> QED
  BY <1>1, RowInvHolds, ProjectionLedger, PTL
-----------------------------------------------------------------------------
\* What a walk has collected is projected, as long as nobody disturbs it.
WalkInv ==
  /\ {"stage", "asked", "hops", "max", "window", "seeds", "frontier", "rows", "truncated",
      "stale", "began", "disturbed"} = DOMAIN walk
  /\ walk = [f \in DOMAIN walk |-> walk[f]]
  /\ walk.stage = "idle" => walk.rows = {}
  /\ ~walk.disturbed => walk.rows \subseteq projected

LEMMA WalkStart == GraphInit => WalkInv
<1> SUFFICES ASSUME walk = NoWalk PROVE WalkInv
  BY DEF GraphInit
<1>1. walk.stage = "idle" /\ walk.rows = {} /\ walk = [f \in DOMAIN walk |-> walk[f]]
  BY DEF NoWalk
<1>2. {"stage", "asked", "hops", "max", "window", "seeds", "frontier", "rows", "truncated",
      "stale", "began", "disturbed"} = DOMAIN walk
  BY Zenon DEF NoWalk
<1> QED
  BY <1>1, <1>2 DEF WalkInv

\* Whether it goes through all the rows or those it fetched, a walk takes what is there.
LEMMA TakesProjected ==
  /\ \A taken, w, max : taken \in Overview(Base(w), max) => taken \subseteq projected
  /\ \A taken, collected, reached, max :
       taken \in Taken(collected, reached, Ahead, max) => taken \subseteq projected
BY DEF Overview, Base, Taken, Ahead, Incident

LEMMA ReadDoes ==
  ASSUME WalkInv, Read
  PROVE  /\ DOMAIN walk' = DOMAIN walk /\ walk' = [f \in DOMAIN walk' |-> walk'[f]]
         /\ walk'.stage # "idle" /\ walk'.disturbed = walk.disturbed
         /\ walk.rows \subseteq projected => walk'.rows \subseteq projected
         /\ walk.stage # "answered"
         /\ walk'.stage = "answered" => walk'.rows = walk.rows /\ walk'.stale = IsStale
<1>1. CASE ResolveSeeds
  BY <1>1 DEF ResolveSeeds, WalkInv
<1>2. CASE TakeOverview
  <2>1. /\ walk.stage = "overview"
        /\ \E taken \in Overview(Base(walk.window), walk.max) :
             walk' = [walk EXCEPT !.stage = "hydrate", !.rows = taken,
                        !.truncated = taken # Base(walk.window)]
    BY <1>2 DEF TakeOverview
  <2>2. PICK taken \in Overview(Base(walk.window), walk.max) :
          walk' = [walk EXCEPT !.stage = "hydrate", !.rows = taken,
                     !.truncated = taken # Base(walk.window)]
    BY <2>1
  <2>3. taken \subseteq projected
    BY <2>2, TakesProjected
  <2>4. /\ walk'.stage = "hydrate" /\ walk'.rows = taken /\ walk'.disturbed = walk.disturbed
        /\ DOMAIN walk' = DOMAIN walk /\ walk' = [f \in DOMAIN walk' |-> walk'[f]]
    BY <2>2 DEF WalkInv
  <2> QED
    BY <2>1, <2>3, <2>4
<1>3. CASE Hop
  <2> DEFINE reached == walk.seeds \cup EndsOf(walk.rows)
  <2>1. /\ walk.stage = "hops"
        /\ \E taken \in Taken(walk.rows, reached, Ahead, walk.max) :
             walk' = [walk EXCEPT !.rows = walk.rows \cup taken, !.hops = walk.hops - 1,
                        !.frontier = EndsOf(taken) \ reached, !.truncated = taken # Ahead]
    BY <1>3 DEF Hop
  <2>2. PICK taken \in Taken(walk.rows, reached, Ahead, walk.max) :
             walk' = [walk EXCEPT !.rows = walk.rows \cup taken, !.hops = walk.hops - 1,
                        !.frontier = EndsOf(taken) \ reached, !.truncated = taken # Ahead]
    BY <2>1
  <2>3. taken \subseteq projected
    BY <2>2, TakesProjected
  <2>4. /\ walk'.stage = walk.stage /\ walk'.rows = walk.rows \cup taken
        /\ walk'.disturbed = walk.disturbed
        /\ DOMAIN walk' = DOMAIN walk /\ walk' = [f \in DOMAIN walk' |-> walk'[f]]
    BY <2>2 DEF WalkInv
  <2> QED
    BY <2>1, <2>3, <2>4
<1>4. CASE Hydrate
  <2>1. PICK rows : /\ rows \subseteq walk.rows
                    /\ walk' = [walk EXCEPT !.stage = "stamps", !.frontier = {}, !.rows = rows]
    BY <1>4 DEF Hydrate
  <2>2. walk.stage \in {"hydrate", "hops"}
    BY <1>4 DEF Hydrate
  <2>3. /\ walk'.stage = "stamps" /\ walk'.rows = rows /\ walk'.disturbed = walk.disturbed
        /\ DOMAIN walk' = DOMAIN walk /\ walk' = [f \in DOMAIN walk' |-> walk'[f]]
    BY <2>1 DEF WalkInv
  <2> QED
    BY <2>1, <2>2, <2>3
<1>5. CASE Stamp
  BY <1>5 DEF Stamp, WalkInv
<1> QED
  BY <1>1, <1>2, <1>3, <1>4, <1>5 DEF Read

LEMMA WalkStep == WalkInv /\ [GraphNext]_graphVars => WalkInv'
<1> SUFFICES ASSUME WalkInv, [GraphNext]_graphVars PROVE WalkInv'
  OBVIOUS
<1>1. CASE ProjectionNext /\ Noticed
  <2>1. CASE walk' = walk
    <3>1. walk.stage = "idle" \/ projected' = projected \/ walk.disturbed
      BY <1>1, <2>1 DEF Noticed, WalkInv
    <3> QED
      BY <2>1, <3>1 DEF WalkInv
  <2>2. CASE walk' # walk
    <3>1. /\ walk.stage # "idle"
          /\ walk' = [walk EXCEPT !.disturbed = walk.disturbed \/ projected' # projected
                                                  \/ claims' # claims]
      BY <1>1, <2>2 DEF Noticed
    <3> QED
      BY <3>1 DEF WalkInv
  <2> QED
    BY <2>1, <2>2
<1>2. CASE Read /\ UNCHANGED projectionVars
  <2>1. projected' = projected
    BY <1>2 DEF projectionVars
  <2> QED
    BY <1>2, <2>1, ReadDoes DEF WalkInv
<1>3. ASSUME NEW seeds, NEW hops, NEW max, NEW window, Ask(seeds, hops, max, window)
      PROVE  WalkInv'
  <2>1. PICK h, m : walk' = [NoWalk EXCEPT !.stage = "seeds", !.asked = hops, !.hops = h,
                !.max = m, !.seeds = seeds, !.window = window, !.began = head]
    BY <1>3 DEF Ask
  <2> QED
    BY <2>1 DEF NoWalk, WalkInv
<1>4. CASE UNCHANGED graphVars
  BY <1>4 DEF graphVars, projectionVars, WalkInv
<1> QED
  BY <1>1, <1>2, <1>3, <1>4 DEF GraphNext

LEMMA GraphIsProjection == GraphSpec => ProjectionSpec
<1>1. GraphInit => ProjectionInit
  BY DEF GraphInit
<1>2. [GraphNext]_graphVars => [ProjectionNext]_projectionVars
  BY DEF GraphNext, graphVars
<1> QED
  BY <1>1, <1>2, PTL DEF GraphSpec, ProjectionSpec

\* An answer that is not called stale is between the entities its claims are about when
\* it is given, although the hops and the stamps are read in statements of their own
\* (expand), as long as no rebuild and no retraction came between.
THEOREM NotStaleIsNow == GraphSpec => AnsweredAsOfNow
<1> DEFINE honest == ~Answered /\ Answered' /\ ~walk'.stale /\ ~walk'.disturbed =>
             \A row \in walk'.rows, k \in claims :
               k.id \in row.claims /\ ~OnAbsorbedSince(k) => CurrentEdge(k) = row.edge
<1>1. ASSUME IInv, RowInv, WalkInv, [GraphNext]_graphVars PROVE honest
  <2> SUFFICES ASSUME walk.stage # "answered", walk'.stage = "answered",
                      ~walk'.stale, ~walk'.disturbed, NEW row \in walk'.rows, NEW k \in claims,
                      k.id \in row.claims, ~OnAbsorbedSince(k)
               PROVE  CurrentEdge(k) = row.edge
    BY DEF Answered
  <2>1. Read
    <3>1. ASSUME NEW seeds, NEW hops, NEW max, NEW window, Ask(seeds, hops, max, window)
          PROVE  FALSE
      BY <3>1 DEF Ask, NoWalk
    <3>2. ~Noticed
      <4>1. walk.stage = "idle" \/ [walk EXCEPT !.disturbed = walk.disturbed \/ projected' # projected
                                       \/ claims' # claims].stage = walk.stage
        BY <1>1 DEF WalkInv
      <4> QED
        BY <4>1 DEF Noticed
    <3>3. walk' # walk
      OBVIOUS
    <3> QED
      BY <1>1, <3>1, <3>2, <3>3 DEF GraphNext, graphVars
  <2>2. walk'.rows = walk.rows /\ ~IsStale /\ ~walk.disturbed
    BY <2>1, <1>1, ReadDoes
  <2>3. row \in projected
    BY <1>1, <2>2 DEF WalkInv
  <2> QED
    BY <1>1, <2>2, <2>3, RowsTell
<1>2. GraphSpec => [](IInv /\ RowInv /\ WalkInv)
  BY WalkStart, WalkStep, GraphIsProjection, ProjectionLedger, RowInvHolds, PTL DEF GraphSpec
<1> QED
  BY <1>1, <1>2, PTL DEF GraphSpec, AnsweredAsOfNow
-----------------------------------------------------------------------------
\* What the rows say, before any walk: distances are the function that Within's recursion
\* defines, which exists for every number of hops; a window overlaps a row where they have a
\* day in common; and an id belongs to one row.
\* The definition of what is within some number of hops.
IsWithin(f, rows, sources, n) ==
  f = [i \in 0..n |-> IF i = 0 THEN sources ELSE f[i - 1] \cup EndsOf(Incident(rows, f[i - 1]))]

\* Within chooses the function so defined;
LEMMA WithinChosen ==
  ASSUME NEW rows, NEW sources, NEW n
  PROVE  Within(rows, sources, n) = CHOOSE f : IsWithin(f, rows, sources, n)
BY DEF Within, IsWithin

\* and there is one, for any number of hops.
LEMMA WithinExists ==
  ASSUME NEW rows, NEW sources
  PROVE  \A n \in Nat : \E f : IsWithin(f, rows, sources, n)
<1> DEFINE Bad == {n \in Nat : ~\E f : IsWithin(f, rows, sources, n)}
           After(es) == es \cup EndsOf(Incident(rows, es))
<1> SUFFICES ASSUME Bad # {} PROVE FALSE
  OBVIOUS
<1>1. PICK n \in Bad : \A x \in Bad : n <= x
  <2> HIDE DEF Bad
  <2>1. Bad \in SUBSET Nat
    BY DEF Bad
  <2> QED
    BY <2>1, LeastOf
<1>2. n # 0
  <2>1. IsWithin([i \in 0..0 |-> sources], rows, sources, 0)
    BY DEF IsWithin
  <2> QED
    BY <1>1, <2>1
<1>3. n \in Nat /\ n - 1 \in Nat /\ ~(n <= n - 1) /\ n > 0
  BY <1>1, <1>2
<1>4. PICK f : IsWithin(f, rows, sources, n - 1)
  <2>1. n - 1 \notin Bad
    BY <1>1, <1>3
  <2> QED
    BY <1>3, <2>1
<1> DEFINE g == [i \in 0..n |-> IF i = n THEN After(f[n - 1]) ELSE f[i]]
<1>5. \A i \in 0..(n - 1) : f[i] = IF i = 0 THEN sources ELSE After(f[i - 1])
  BY <1>4 DEF IsWithin
<1>6. g[n] = After(f[n - 1]) /\ \A i \in 0..(n - 1) : g[i] = f[i]
  <2> HIDE DEF After
  <2> QED
    BY <1>3
<1>7. DOMAIN g = 0..n /\ g = [i \in 0..n |-> g[i]]
  OBVIOUS
<1> HIDE DEF g, After
<1>8. \A i \in 0..n : g[i] = IF i = 0 THEN sources ELSE After(g[i - 1])
  <2> SUFFICES ASSUME NEW i \in 0..n PROVE g[i] = IF i = 0 THEN sources ELSE After(g[i - 1])
    OBVIOUS
  <2>1. n - 1 \in 0..(n - 1)
    BY <1>3
  <2>2. CASE i = n
    BY <1>3, <1>6, <2>1, <2>2
  <2>3. CASE i # n
    <3>1. i \in 0..(n - 1) /\ (i # 0 => i - 1 \in 0..(n - 1))
      BY <1>3, <2>3
    <3> QED
      BY <1>5, <1>6, <3>1
  <2> QED
    BY <2>2, <2>3
<1>9. IsWithin(g, rows, sources, n)
  <2>1. g = [i \in 0..n |-> IF i = 0 THEN sources ELSE After(g[i - 1])]
    BY <1>7, <1>8
  <2> QED
    BY <2>1 DEF IsWithin, After
<1> QED
  BY <1>1, <1>9

\* The distances, as two equations.
LEMMA WithinIs ==
  ASSUME NEW rows, NEW sources, NEW n \in Nat, NEW near, near = Within(rows, sources, n)
  PROVE  /\ near[0] = sources
         /\ \A i \in 1..n : near[i] = near[i - 1] \cup EndsOf(Incident(rows, near[i - 1]))
<1>1. IsWithin(near, rows, sources, n)
  BY WithinChosen, WithinExists
<1>2. \A i \in 0..n : near[i] = IF i = 0 THEN sources
                                ELSE near[i - 1] \cup EndsOf(Incident(rows, near[i - 1]))
  BY <1>1 DEF IsWithin
<1>3. 0 \in 0..n /\ \A i \in 1..n : i \in 0..n /\ i # 0
  OBVIOUS
<1>4. near[0] = sources
  BY <1>2, <1>3
<1>5. ASSUME NEW i \in 1..n
      PROVE  near[i] = near[i - 1] \cup EndsOf(Incident(rows, near[i - 1]))
  BY <1>2, <1>3
<1> QED
  BY <1>4, <1>5

\* What is near stays near, further out.
LEMMA WithinGrows ==
  ASSUME NEW rows, NEW sources, NEW n \in Nat, NEW near, near = Within(rows, sources, n),
         NEW i \in 0..n, NEW j \in i..n
  PROVE  near[i] \subseteq near[j]
<1> DEFINE Bad == {x \in i..n : ~(near[i] \subseteq near[x])}
<1> SUFFICES ASSUME Bad # {} PROVE FALSE
  OBVIOUS
<1>1. PICK x \in Bad : \A y \in Bad : x <= y
  <2>1. Bad \in SUBSET Nat
    OBVIOUS
  <2> HIDE DEF Bad
  <2> QED
    BY <2>1, LeastOf
<1>2. x # i /\ x \in i..n
  BY <1>1
<1>3. x - 1 \in i..n /\ x \in 1..n /\ ~(x <= x - 1)
  BY <1>2
<1>4. near[i] \subseteq near[x - 1]
  BY <1>1, <1>3
<1>5. near[x - 1] \subseteq near[x]
  BY <1>3, WithinIs
<1> QED
  BY <1>1, <1>4, <1>5

\* Where a hop adds nobody, no further hop does.
LEMMA WithinStops ==
  ASSUME NEW rows, NEW sources, NEW n \in Nat, NEW near, near = Within(rows, sources, n),
         NEW i \in 1..n, near[i] = near[i - 1], NEW j \in i..n
  PROVE  near[j] = near[i]
<1> DEFINE Bad == {x \in i..n : near[x] # near[i]}
<1> SUFFICES ASSUME Bad # {} PROVE FALSE
  OBVIOUS
<1>1. PICK x \in Bad : \A y \in Bad : x <= y
  <2>1. Bad \in SUBSET Nat
    OBVIOUS
  <2> HIDE DEF Bad
  <2> QED
    BY <2>1, LeastOf
<1>2. x # i /\ x \in i..n
  BY <1>1
<1>3. x - 1 \in i..n /\ x \in 1..n /\ ~(x <= x - 1)
  BY <1>2
<1>4. near[x - 1] = near[i]
  BY <1>1, <1>3
<1>5. /\ near[x] = near[x - 1] \cup EndsOf(Incident(rows, near[x - 1]))
      /\ near[i] = near[i - 1] \cup EndsOf(Incident(rows, near[i - 1]))
  BY <1>3, WithinIs
<1> QED
  BY <1>1, <1>4, <1>5

\* More entities have more rows, and more rows more ends.
LEMMA IncidentGrows ==
  ASSUME NEW rows, NEW es, NEW fs, es \subseteq fs
  PROVE  Incident(rows, es) \subseteq Incident(rows, fs)
BY DEF Incident

LEMMA EndsGrow ==
  ASSUME NEW rows, NEW more, rows \subseteq more
  PROVE  EndsOf(rows) \subseteq EndsOf(more)
BY DEF EndsOf
-----------------------------------------------------------------------------
\* Two stretches of days overlap as their bounds say (_time_overlap).
LEMMA OverlapIsADay ==
  ASSUME NEW row, WellFormed(row), NEW w \in Windows
  PROVE  Overlaps(row, w) <=> \E d \in Days : RowCovers(row, d) /\ RowCovers(w, d)
<1> DEFINE first == FirstDay(row)
           begins == IF w.from = 0 THEN 1 ELSE w.from
<1>1. /\ LastDay \in Nat \ {0} /\ w.from \in 0..LastDay /\ w.to \in 0..LastDay
      /\ w.from # 0 /\ w.to # 0 => w.from <= w.to
      /\ row.from \in 0..LastDay /\ row.to \in 0..LastDay
      /\ first \in Days /\ RowCovers(row, first) /\ first = IF row.from = 0 THEN 1 ELSE row.from
  BY CalendarAssumption DEF CalendarAssumption, Windows, WellFormed, FirstDay, Unbounded
<1>2. begins \in Days /\ RowCovers(w, begins)
  BY <1>1 DEF RowCovers, Days, Unbounded
<1>3. ASSUME NEW d \in Days, RowCovers(row, d), RowCovers(w, d) PROVE Overlaps(row, w)
  BY <1>1, <1>3 DEF RowCovers, Days, Unbounded, Overlaps
<1>4. ASSUME Overlaps(row, w) PROVE \E d \in Days : RowCovers(row, d) /\ RowCovers(w, d)
  <2>1. CASE first <= begins
    <3>1. RowCovers(row, begins)
      BY <1>1, <1>2, <1>4, <2>1 DEF RowCovers, Days, Unbounded, Overlaps
    <3> QED
      BY <1>2, <3>1
  <2>2. CASE begins <= first
    <3>1. RowCovers(w, first)
      BY <1>1, <1>2, <1>4, <2>2 DEF RowCovers, Days, Unbounded, Overlaps
    <3> QED
      BY <1>1, <3>1
  <2> QED
    BY <1>1, <1>2, <2>1, <2>2 DEF Days
<1> QED
  BY <1>3, <1>4

\* Rows are told apart by their ids (edge_id).
LEMMA IdsTellApart ==
  ASSUME NEW rows, TableOK(rows), NEW row \in rows, NEW other \in rows, IdOf(row) = IdOf(other)
  PROVE  row = other
<1>1. row.edge = other.edge /\ row.from = other.from
  BY DEF IdOf
<1> QED
  BY <1>1 DEF TableOK, WellFormed, DisjointRows, FirstDay
-----------------------------------------------------------------------------
\* A walk that takes each hop whole: what it has collected after n hops is what is incident
\* to those within n - 1, and its frontier is who was new with the last one.
\* What is wanted of these rows, around these seeds.
WantedOf(rows, seeds, hops) ==
  IF seeds = {} THEN rows
  ELSE IF hops = 0 THEN {} ELSE Incident(rows, Within(rows, seeds, hops)[hops - 1])

\* Where a walk that took every hop whole is after n of them.
Hopped(rows, seeds, hops, n, collected, frontier) ==
  LET near == Within(rows, seeds, hops)
  IN  /\ collected = IF n = 0 THEN {} ELSE Incident(rows, near[n - 1])
      /\ near[n] = seeds \cup EndsOf(collected)
      /\ frontier = IF n = 0 THEN seeds ELSE near[n] \ near[n - 1]

\* Before the first hop nothing is collected, and the seeds are the frontier.
LEMMA HoppedAtFirst ==
  ASSUME NEW rows, NEW seeds, NEW hops \in Nat
  PROVE  Hopped(rows, seeds, hops, 0, {}, seeds)
BY WithinIs DEF Hopped, EndsOf

\* The rows that were not collected complete the hop: there are none behind the frontier.
LEMMA HopGoesOn ==
  ASSUME NEW rows, NEW seeds, NEW hops \in Nat, NEW n \in Nat, n < hops,
         NEW collected, NEW frontier, Hopped(rows, seeds, hops, n, collected, frontier),
         NEW ahead, ahead = Incident(rows, frontier) \ collected, seeds # {}
  PROVE  /\ Hopped(rows, seeds, hops, n + 1, collected \cup ahead,
                   EndsOf(ahead) \ (seeds \cup EndsOf(collected)))
         /\ collected \cup ahead \subseteq WantedOf(rows, seeds, hops)
<1>1. PICK near : near = Within(rows, seeds, hops)
  OBVIOUS
<1>2. /\ n \in 0..hops /\ n + 1 \in 1..hops /\ (n + 1) - 1 = n /\ n + 1 # 0 /\ hops # 0
      /\ hops - 1 \in n..hops
      /\ n # 0 => n \in 1..hops /\ n - 1 \in 0..hops /\ n \in (n - 1)..hops
  OBVIOUS
<1>3. /\ collected = IF n = 0 THEN {} ELSE Incident(rows, near[n - 1])
      /\ near[n] = seeds \cup EndsOf(collected)
      /\ frontier = IF n = 0 THEN seeds ELSE near[n] \ near[n - 1]
  BY <1>1 DEF Hopped
<1>4. near[0] = seeds /\ near[n + 1] = near[n] \cup EndsOf(Incident(rows, near[n]))
  BY <1>1, <1>2, WithinIs
<1>5. collected \cup ahead = Incident(rows, near[n])
  <2>1. CASE n = 0
    BY <1>3, <1>4, <2>1
  <2>2. CASE n # 0
    <3>1. near[n - 1] \subseteq near[n]
      BY <1>1, <1>2, <2>2, WithinGrows
    <3>2. collected = Incident(rows, near[n - 1]) /\ frontier = near[n] \ near[n - 1]
      BY <1>3, <2>2
    <3> QED
      BY <3>1, <3>2 DEF Incident
  <2> QED
    BY <2>1, <2>2
<1>6. EndsOf(collected \cup ahead) = EndsOf(collected) \cup EndsOf(ahead)
  BY DEF EndsOf
<1>7. Hopped(rows, seeds, hops, n + 1, collected \cup ahead,
             EndsOf(ahead) \ (seeds \cup EndsOf(collected)))
  <2>1. near[n + 1] = seeds \cup EndsOf(collected \cup ahead)
    BY <1>3, <1>4, <1>5, <1>6
  <2>2. EndsOf(ahead) \ (seeds \cup EndsOf(collected)) = near[n + 1] \ near[n]
    BY <1>3, <1>6, <2>1
  <2> QED
    BY <1>1, <1>2, <1>5, <2>1, <2>2 DEF Hopped
<1>8. collected \cup ahead \subseteq WantedOf(rows, seeds, hops)
  <2>1. near[n] \subseteq near[hops - 1]
    <3>1. n \in 0..hops /\ hops - 1 \in n..hops
      BY <1>2
    <3> QED
      BY <1>1, <3>1, WithinGrows
  <2> QED
    BY <1>1, <1>2, <1>5, <2>1, IncidentGrows DEF WantedOf
<1> QED
  BY <1>7, <1>8

\* When the hops are used up, or nobody new is left, everything wanted is collected.
LEMMA HopsEnd ==
  ASSUME NEW rows, NEW seeds, NEW hops \in Nat, NEW n \in 0..hops,
         NEW collected, NEW frontier, Hopped(rows, seeds, hops, n, collected, frontier),
         seeds # {}, n = hops \/ frontier = {}
  PROVE  collected = WantedOf(rows, seeds, hops)
<1>1. PICK near : near = Within(rows, seeds, hops)
  OBVIOUS
<1>2. /\ collected = IF n = 0 THEN {} ELSE Incident(rows, near[n - 1])
      /\ near[n] = seeds \cup EndsOf(collected)
      /\ frontier = IF n = 0 THEN seeds ELSE near[n] \ near[n - 1]
  BY <1>1 DEF Hopped
<1>3. CASE n = hops
  BY <1>1, <1>2, <1>3 DEF WantedOf
<1>4. CASE n # hops
  <2>1. frontier = {} /\ n # 0
    BY <1>2, <1>4
  <2>2. /\ n \in 1..hops /\ n - 1 \in 0..hops /\ n \in (n - 1)..hops /\ hops # 0
        /\ hops - 1 \in n..hops
    BY <1>4, <2>1
  <2>3. near[n - 1] \subseteq near[n]
    BY <1>1, <2>2, WithinGrows
  <2>4. near[n] = near[n - 1]
    BY <1>2, <2>1, <2>3
  <2>5. near[hops - 1] = near[n]
    BY <1>1, <2>2, <2>4, WithinStops
  <2> QED
    BY <1>1, <1>2, <2>1, <2>2, <2>4, <2>5 DEF WantedOf
<1> QED
  BY <1>3, <1>4
-----------------------------------------------------------------------------
\* The query is what the promise is about: overlaps are common days.
LEMMA WantedIs ==
  ASSUME TableOK(projected), walk.window \in Windows, NEW hops
  PROVE  Wanted(hops) = WantedOf(Base(walk.window), walk.seeds, hops)
<1>1. Base(walk.window) = {row \in projected :
                 /\ \E k \in claims : k.id \in row.claims \cap Readable /\ ~k.retracted
                 /\ \E d \in Days : RowCovers(row, d) /\ RowCovers(walk.window, d)}
  BY OverlapIsADay DEF Base, Visible, TableOK
<1> QED
  BY <1>1 DEF Wanted, WantedOf

\* The next hop's rows, as long as what was collected is still there.
LEMMA AheadIs ==
  ASSUME TableOK(projected), walk.rows \subseteq projected
  PROVE  Ahead = Incident(Base(walk.window), walk.frontier) \ walk.rows
<1>1. ASSUME NEW row \in Incident(Base(walk.window), walk.frontier)
      PROVE  (\A old \in walk.rows : IdOf(old) # IdOf(row)) <=> row \notin walk.rows
  <2>1. row \in projected
    BY DEF Incident, Base
  <2> QED
    BY <2>1, IdsTellApart
<1> QED
  BY <1>1 DEF Ahead
-----------------------------------------------------------------------------
\* What each step makes of the walk, field by field.

\* A canvas has finitely many entities.
LEMMA EndsFinite ==
  ASSUME NEW rows, IsFiniteSet(rows), \A row \in rows : WellFormed(row)
  PROVE  IsFiniteSet(EndsOf(rows))
<1> DEFINE ends == [row \in rows |-> row.edge.ends]
           all == {row.edge.ends : row \in rows}
<1>1. IsFiniteSet(all)
  <2>1. ends \in Surjection(rows, all)
    BY DEF Surjection
  <2> QED
    BY <2>1, FS_Surjection
<1>2. ASSUME NEW es \in all PROVE IsFiniteSet(es)
  <2>1. PICK x, y : es = {x, y}
    BY DEF WellFormed
  <2>2. IsFiniteSet({x}) /\ {x} \cup {y} = {x, y}
    BY FS_Singleton
  <2>3. IsFiniteSet({x} \cup {y})
    BY <2>2, FS_AddElement
  <2> QED
    BY <2>1, <2>2, <2>3
<1> QED
  BY <1>1, <1>2, FS_UNION DEF EndsOf

\* What is left out makes room.
LEMMA SizeGrows ==
  ASSUME NEW rows, IsFiniteSet(rows), \A row \in rows : WellFormed(row),
         NEW reached, IsFiniteSet(reached), NEW kept \in SUBSET rows
  PROVE  /\ Size(kept, reached) \in Nat /\ Size(rows, reached) \in Nat
         /\ Size(kept, reached) <= Size(rows, reached)
<1>1. /\ IsFiniteSet(reached \cup EndsOf(rows))
      /\ (reached \cup EndsOf(kept)) \in SUBSET (reached \cup EndsOf(rows))
  BY EndsFinite, EndsGrow, FS_Union
<1>2. /\ IsFiniteSet(kept) /\ Cardinality(kept) <= Cardinality(rows)
      /\ IsFiniteSet(reached \cup EndsOf(kept))
      /\ Cardinality(reached \cup EndsOf(kept)) <= Cardinality(reached \cup EndsOf(rows))
  BY <1>1, FS_Subset
<1>3. /\ Cardinality(kept) \in Nat /\ Cardinality(rows) \in Nat
      /\ Cardinality(reached \cup EndsOf(kept)) \in Nat
      /\ Cardinality(reached \cup EndsOf(rows)) \in Nat
  BY <1>1, <1>2, FS_CardinalityType
<1> QED
  BY <1>2, <1>3 DEF Size
-----------------------------------------------------------------------------
\* The fields of a walk that its answer depends on.
WalkIs(w, stage, asked, hops, max, window, seeds, frontier, rows, truncated, disturbed) ==
  /\ w.stage = stage /\ w.asked = asked /\ w.hops = hops /\ w.max = max /\ w.window = window
  /\ w.seeds = seeds /\ w.frontier = frontier /\ w.rows = rows
  /\ w.truncated = truncated /\ w.disturbed = disturbed

\* A question begins a walk of its own.
LEMMA AskDoes ==
  ASSUME NEW seeds, NEW hops, NEW max, NEW window, Ask(seeds, hops, max, window)
  PROVE  WalkIs(walk', "seeds", hops, Clamped(hops, 0, MaxHops), Clamped(max, 1, MaxElements),
                window, seeds, {}, {}, FALSE, FALSE)
<1>1. PICK h, m : h = Clamped(hops, 0, MaxHops) /\ m = Clamped(max, 1, MaxElements)
  OBVIOUS
<1>2. walk' = [NoWalk EXCEPT !.stage = "seeds", !.asked = hops, !.hops = h,
                !.max = m, !.seeds = seeds, !.window = window, !.began = head]
  BY <1>1 DEF Ask
<1> QED
  BY <1>1, <1>2 DEF WalkIs, NoWalk

\* The seeds stand for whom they are now, and nobody asked about means an overview.
LEMMA ResolveDoes ==
  ASSUME WalkInv, ResolveSeeds
  PROVE  /\ walk.stage = "seeds"
         /\ \E resolved :
              /\ resolved = {CanonicalIn(canonical, e) : e \in walk.seeds}
              /\ WalkIs(walk', IF resolved = {} THEN "overview" ELSE "hops", walk.asked, walk.hops,
                        walk.max, walk.window, resolved, resolved, walk.rows, walk.truncated,
                        walk.disturbed)
<1>1. PICK resolved : resolved = {CanonicalIn(canonical, e) : e \in walk.seeds}
  OBVIOUS
<1>2. PICK stage : stage = IF resolved = {} THEN "overview" ELSE "hops"
  OBVIOUS
<1>3. walk' = [walk EXCEPT !.stage = stage, !.seeds = resolved, !.frontier = resolved]
  BY <1>1, <1>2 DEF ResolveSeeds
<1> QED
  BY <1>1, <1>2, <1>3 DEF WalkInv, WalkIs, ResolveSeeds

\* An overview takes of all there is what fits.
LEMMA OverviewDoes ==
  ASSUME WalkInv, TakeOverview
  PROVE  /\ walk.stage = "overview"
         /\ \E taken :
              /\ taken \subseteq Base(walk.window) /\ Size(taken, {}) <= walk.max
              /\ WalkIs(walk', "hydrate", walk.asked, walk.hops, walk.max, walk.window, walk.seeds,
                        walk.frontier, taken, taken # Base(walk.window), walk.disturbed)
<1>1. PICK all : all = Base(walk.window)
  OBVIOUS
<1>2. PICK taken \in Overview(all, walk.max) :
        walk' = [walk EXCEPT !.stage = "hydrate", !.rows = taken, !.truncated = taken # all]
  BY <1>1 DEF TakeOverview
<1>3. taken \subseteq all /\ Size(taken, {}) <= walk.max
  BY <1>2 DEF Overview
<1> QED
  BY <1>1, <1>2, <1>3 DEF WalkInv, WalkIs, TakeOverview

\* A hop takes of what is ahead what fits, and says when that was not all.
LEMMA HopDoes ==
  ASSUME WalkInv, Hop
  PROVE  /\ walk.stage = "hops" /\ walk.hops > 0 /\ ~walk.truncated
         /\ LET reached == walk.seeds \cup EndsOf(walk.rows)
            IN  \E taken :
                  /\ taken \subseteq Ahead
                  /\ taken # {} => Size(walk.rows \cup taken, reached) <= walk.max
                  /\ WalkIs(walk', "hops", walk.asked, walk.hops - 1, walk.max, walk.window,
                            walk.seeds, EndsOf(taken) \ reached, walk.rows \cup taken,
                            taken # Ahead, walk.disturbed)
<1>1. PICK reached, ahead : reached = walk.seeds \cup EndsOf(walk.rows) /\ ahead = Ahead
  OBVIOUS
<1>2. PICK taken \in Taken(walk.rows, reached, ahead, walk.max) :
        walk' = [walk EXCEPT !.rows = walk.rows \cup taken, !.hops = walk.hops - 1,
                   !.frontier = EndsOf(taken) \ reached, !.truncated = taken # ahead]
  BY <1>1 DEF Hop
<1>3. /\ taken \subseteq ahead
      /\ taken # {} => Size(walk.rows \cup taken, reached) <= walk.max
  BY <1>2 DEF Taken
<1>4. walk.stage = "hops" /\ walk.hops > 0 /\ ~walk.truncated
  BY DEF Hop
<1>5. WalkIs(walk', "hops", walk.asked, walk.hops - 1, walk.max, walk.window, walk.seeds,
             EndsOf(taken) \ reached, walk.rows \cup taken, taken # ahead, walk.disturbed)
  BY <1>2, <1>4 DEF WalkInv, WalkIs
<1> QED
  BY <1>1, <1>3, <1>4, <1>5

\* Hydration leaves out what is no longer visible.
LEMMA HydrateDoes ==
  ASSUME WalkInv, Hydrate
  PROVE  /\ \/ walk.stage = "hydrate"
            \/ walk.stage = "hops" /\ (walk.hops = 0 \/ walk.frontier = {} \/ walk.truncated)
         /\ \E kept : /\ kept = {row \in walk.rows : Visible(row)}
                      /\ WalkIs(walk', "stamps", walk.asked, walk.hops, walk.max, walk.window,
                                walk.seeds, {}, kept, walk.truncated, walk.disturbed)
<1>1. PICK kept : kept = {row \in walk.rows : Visible(row)}
  OBVIOUS
<1>2. walk' = [walk EXCEPT !.stage = "stamps", !.frontier = {}, !.rows = kept]
  BY <1>1 DEF Hydrate
<1> QED
  BY <1>1, <1>2 DEF WalkInv, WalkIs, Hydrate

\* The answer goes out as it was collected.
LEMMA StampDoes ==
  ASSUME WalkInv, Stamp
  PROVE  /\ walk.stage = "stamps"
         /\ WalkIs(walk', "answered", walk.asked, walk.hops, walk.max, walk.window, walk.seeds,
                   walk.frontier, walk.rows, walk.truncated, walk.disturbed)
BY DEF WalkInv, WalkIs, Stamp

\* Whatever the others do, a walk is as it was, and remembers it.
LEMMA NoticedDoes ==
  ASSUME WalkInv, Noticed
  PROVE  /\ \E disturbed :
              WalkIs(walk', walk.stage, walk.asked, walk.hops, walk.max, walk.window, walk.seeds,
                     walk.frontier, walk.rows, walk.truncated, disturbed)
         /\ walk.stage # "idle" /\ ~walk'.disturbed =>
              ~walk.disturbed /\ projected' = projected /\ claims' = claims
<1>1. CASE walk.stage = "idle"
  BY <1>1 DEF Noticed, WalkIs
<1>2. CASE walk.stage # "idle"
  <2>1. PICK disturbed : disturbed = (walk.disturbed \/ projected' # projected \/ claims' # claims)
    OBVIOUS
  <2>2. walk' = [walk EXCEPT !.disturbed = disturbed]
    BY <1>2, <2>1 DEF Noticed
  <2>3. WalkIs(walk', walk.stage, walk.asked, walk.hops, walk.max, walk.window, walk.seeds,
               walk.frontier, walk.rows, walk.truncated, disturbed)
    BY <2>2 DEF WalkInv, WalkIs
  <2> QED
    BY <2>1, <2>3 DEF WalkIs
<1> QED
  BY <1>1, <1>2
-----------------------------------------------------------------------------
\* What a walk may never get wrong, whoever disturbs it.
BudgetInv ==
  /\ walk.max \in 0..MaxElements
  /\ IsFiniteSet(walk.seeds) /\ IsFiniteSet(walk.rows) /\ \A row \in walk.rows : WellFormed(row)
  /\ walk.rows # {} => Size(walk.rows, walk.seeds) <= walk.max
  /\ walk.stage \in {"seeds", "overview"} => walk.rows = {}
  /\ walk.stage = "overview" => walk.seeds = {}

LEMMA BudgetStart == GraphInit => BudgetInv
<1> SUFFICES ASSUME walk = NoWalk PROVE BudgetInv
  BY DEF GraphInit
<1>1. walk.stage = "idle" /\ walk.rows = {} /\ walk.seeds = {} /\ walk.max = 0
  BY DEF NoWalk
<1> QED
  BY <1>1, FS_EmptySet, QueryAssumption DEF BudgetInv, QueryAssumption

LEMMA MaxIs ==
  ASSUME NEW max \in Nat
  PROVE  Clamped(max, 1, MaxElements) \in 0..MaxElements
BY QueryAssumption DEF QueryAssumption, Clamped

\* No step spends more than the budget.
LEMMA BudgetStep == BudgetInv /\ WalkInv /\ WorkInv /\ [GraphNext]_graphVars => BudgetInv'
<1> SUFFICES ASSUME BudgetInv, WalkInv, WorkInv, [GraphNext]_graphVars PROVE BudgetInv'
  OBVIOUS
<1>0. IsFiniteSet(projected) /\ \A row \in projected : WellFormed(row)
  BY DEF WorkInv, TableOK
\* The bound of a walk that keeps its rows and seeds stays.
<1>1. ASSUME NEW stage, NEW hops, NEW frontier, NEW truncated, NEW disturbed,
             stage \in {"seeds", "overview"} => walk.stage = stage,
             WalkIs(walk', stage, walk.asked, hops, walk.max, walk.window, walk.seeds, frontier,
                    walk.rows, truncated, disturbed)
      PROVE  BudgetInv'
  BY <1>1 DEF BudgetInv, WalkIs, WellFormed, FirstDay, RowCovers
<1>2. CASE ProjectionNext /\ Noticed
  BY <1>1, <1>2, NoticedDoes
<1>3. CASE ResolveSeeds
  <2>1. PICK resolved :
          /\ walk.stage = "seeds" /\ resolved = {CanonicalIn(canonical, e) : e \in walk.seeds}
          /\ WalkIs(walk', IF resolved = {} THEN "overview" ELSE "hops", walk.asked, walk.hops,
                    walk.max, walk.window, resolved, resolved, walk.rows, walk.truncated,
                    walk.disturbed)
    BY <1>3, ResolveDoes
  <2>2. IsFiniteSet(resolved)
    <3> DEFINE who == [e \in walk.seeds |-> CanonicalIn(canonical, e)]
    <3>1. who \in Surjection(walk.seeds, {CanonicalIn(canonical, e) : e \in walk.seeds})
      BY DEF Surjection
    <3> QED
      BY <2>1, <3>1, FS_Surjection DEF BudgetInv
  <2> QED
    BY <2>1, <2>2 DEF BudgetInv, WalkIs
<1>4. CASE TakeOverview
  <2>1. PICK taken :
          /\ walk.stage = "overview"
          /\ taken \subseteq Base(walk.window) /\ Size(taken, {}) <= walk.max
          /\ WalkIs(walk', "hydrate", walk.asked, walk.hops, walk.max, walk.window, walk.seeds,
                    walk.frontier, taken, taken # Base(walk.window), walk.disturbed)
    BY <1>4, OverviewDoes
  <2>2. taken \in SUBSET projected
    BY <2>1 DEF Base
  <2>3. IsFiniteSet(taken) /\ \A row \in taken : WellFormed(row)
    BY <1>0, <2>2, FS_Subset
  <2> QED
    BY <2>1, <2>3 DEF BudgetInv, WalkIs, WellFormed, FirstDay, RowCovers
<1>5. CASE Hop
  <2>1. PICK reached : reached = walk.seeds \cup EndsOf(walk.rows)
    OBVIOUS
  <2>2. PICK taken :
          /\ taken \subseteq Ahead
          /\ taken # {} => Size(walk.rows \cup taken, reached) <= walk.max
          /\ WalkIs(walk', "hops", walk.asked, walk.hops - 1, walk.max, walk.window, walk.seeds,
                    EndsOf(taken) \ reached, walk.rows \cup taken, taken # Ahead, walk.disturbed)
    BY <1>5, <2>1, HopDoes
  <2>3. PICK rows : rows = walk.rows \cup taken
    OBVIOUS
  <2>4. taken \in SUBSET projected
    BY <2>2 DEF Ahead, Incident, Base
  <2>5. IsFiniteSet(rows) /\ \A row \in rows : WellFormed(row)
    BY <1>0, <2>3, <2>4, FS_Subset, FS_Union DEF BudgetInv
  <2>6. rows # {} => Size(rows, walk.seeds) <= walk.max
    <3>1. CASE taken = {}
      BY <2>3, <3>1 DEF BudgetInv
    <3>2. CASE taken # {}
      <4>1. reached \cup EndsOf(rows) = walk.seeds \cup EndsOf(rows)
        BY <2>1, <2>3 DEF EndsOf
      <4>2. Size(rows, reached) <= walk.max
        BY <2>2, <2>3, <3>2
      <4> QED
        BY <4>1, <4>2 DEF Size
    <3> QED
      BY <3>1, <3>2
  <2> QED
    BY <2>2, <2>3, <2>5, <2>6 DEF BudgetInv, WalkIs, WellFormed, FirstDay, RowCovers
<1>6. CASE Hydrate
  <2>1. PICK kept :
          /\ kept = {row \in walk.rows : Visible(row)}
          /\ WalkIs(walk', "stamps", walk.asked, walk.hops, walk.max, walk.window, walk.seeds, {},
                    kept, walk.truncated, walk.disturbed)
    BY <1>6, HydrateDoes
  <2>2. kept \in SUBSET walk.rows
    BY <2>1
  <2>3. IsFiniteSet(kept) /\ \A row \in kept : WellFormed(row)
    BY <2>2, FS_Subset DEF BudgetInv
  <2>4. kept # {} => Size(kept, walk.seeds) <= walk.max
    <3>1. /\ Size(kept, walk.seeds) \in Nat /\ Size(walk.rows, walk.seeds) \in Nat
          /\ Size(kept, walk.seeds) <= Size(walk.rows, walk.seeds)
      BY <2>2, SizeGrows DEF BudgetInv
    <3> QED
      BY <2>2, <3>1 DEF BudgetInv
  <2> QED
    BY <2>1, <2>3, <2>4 DEF BudgetInv, WalkIs, WellFormed, FirstDay, RowCovers
<1>7. CASE Stamp
  BY <1>1, <1>7, StampDoes
<1>8. ASSUME NEW seeds \in SUBSET Entities, NEW hops, NEW max \in 1..MaxElements + 1, NEW window,
             Ask(seeds, hops, max, window)
      PROVE  BudgetInv'
  <2>1. WalkIs(walk', "seeds", hops, Clamped(hops, 0, MaxHops), Clamped(max, 1, MaxElements),
               window, seeds, {}, {}, FALSE, FALSE)
    BY <1>8, AskDoes
  <2>2. IsFiniteSet(seeds) /\ IsFiniteSet({})
    BY FS_Subset, FS_EmptySet, LedgerAssumption DEF LedgerAssumption
  <2>3. Clamped(max, 1, MaxElements) \in 0..MaxElements
    BY MaxIs, QueryAssumption DEF QueryAssumption
  <2> QED
    BY <2>1, <2>2, <2>3 DEF BudgetInv, WalkIs
<1>9. CASE UNCHANGED graphVars
  BY <1>9 DEF graphVars, BudgetInv, WellFormed, FirstDay, RowCovers
<1> QED
  BY <1>2, <1>3, <1>4, <1>5, <1>6, <1>7, <1>8, <1>9 DEF GraphNext, Read
-----------------------------------------------------------------------------
HopsAsked(w) == Clamped(w.asked, 0, MaxHops)

\* An undisturbed walk, over the rows it may see: on its way it has taken every hop whole,
\* and at its end what it has is wanted, and all of that unless it says otherwise.
Honest(w, rows) ==
  /\ w.stage = "hops" /\ ~w.truncated =>
       Hopped(rows, w.seeds, HopsAsked(w), HopsAsked(w) - w.hops, w.rows, w.frontier)
  /\ w.stage \in {"hydrate", "stamps", "answered"} \/ (w.stage = "hops" /\ w.truncated) =>
       /\ w.rows \subseteq WantedOf(rows, w.seeds, HopsAsked(w))
       /\ ~w.truncated => w.rows = WantedOf(rows, w.seeds, HopsAsked(w))

HonestInv ==
  /\ walk.asked \in Nat /\ walk.window \in Windows
  /\ walk.stage = "seeds" => walk.hops = HopsAsked(walk) /\ ~walk.truncated
  /\ walk.stage = "hops" => walk.seeds # {} /\ walk.hops \in 0..HopsAsked(walk)
  /\ ~walk.disturbed => Honest(walk, Base(walk.window))

LEMMA HopsAre ==
  ASSUME NEW w, w.asked \in Nat
  PROVE  HopsAsked(w) \in Nat
BY QueryAssumption DEF QueryAssumption, Clamped, HopsAsked

\* What an honest walk has at its end.
LEMMA HonestAtLast ==
  ASSUME NEW w, NEW rows, Honest(w, rows),
         w.stage \in {"hydrate", "stamps", "answered"} \/ (w.stage = "hops" /\ w.truncated)
  PROVE  /\ w.rows \subseteq WantedOf(rows, w.seeds, HopsAsked(w))
         /\ ~w.truncated => w.rows = WantedOf(rows, w.seeds, HopsAsked(w))
BY DEF Honest

LEMMA HonestStart == GraphInit => HonestInv
<1> SUFFICES ASSUME walk = NoWalk PROVE HonestInv
  BY DEF GraphInit
<1>1. walk.stage = "idle" /\ walk.asked = 0 /\ walk.window = NoWindow
  BY DEF NoWalk
<1>2. NoWindow \in Windows
  BY CalendarAssumption DEF CalendarAssumption, NoWindow, Windows, Unbounded
<1> QED
  BY <1>1, <1>2 DEF HonestInv, Honest

\* The rows a walk may see are the same as long as nobody disturbs it.
LEMMA BaseStays ==
  ASSUME projected' = projected, claims' = claims, walk'.window = walk.window
  PROVE  Base(walk.window)' = Base(walk.window)
BY DEF Base, Visible, Overlaps

\* An undisturbed step keeps a walk honest, and a disturbance ends the claim to be it.
LEMMA HonestStep ==
  HonestInv /\ BudgetInv /\ WalkInv /\ WorkInv /\ [GraphNext]_graphVars => HonestInv'
<1> SUFFICES ASSUME HonestInv, BudgetInv, WalkInv, WorkInv, [GraphNext]_graphVars PROVE HonestInv'
  OBVIOUS
<1>0. PICK all, asked : all = Base(walk.window) /\ asked = HopsAsked(walk)
  OBVIOUS
<1>1. /\ TableOK(projected) /\ asked \in Nat
      /\ ~walk.disturbed => walk.rows \subseteq projected
  BY <1>0, HopsAre DEF WorkInv, HonestInv, WalkInv
\* A step of the walk itself: what it leaves is to be shown of the same rows.
<1>2. ASSUME UNCHANGED projectionVars, NEW stage, NEW hops, NEW seeds, NEW frontier, NEW rows,
             NEW truncated,
             WalkIs(walk', stage, walk.asked, hops, walk.max, walk.window, seeds, frontier,
                    rows, truncated, walk.disturbed),
             stage # "seeds",
             stage = "hops" => seeds # {} /\ hops \in 0..asked,
             ~walk.disturbed /\ stage = "hops" /\ ~truncated =>
               Hopped(all, seeds, asked, asked - hops, rows, frontier),
             ~walk.disturbed /\ (stage \in {"hydrate", "stamps", "answered"}
                                   \/ (stage = "hops" /\ truncated)) =>
               /\ rows \subseteq WantedOf(all, seeds, asked)
               /\ ~truncated => rows = WantedOf(all, seeds, asked)
      PROVE  HonestInv'
  <2>1. PICK w : w = walk'
    OBVIOUS
  <2>2. WalkIs(w, stage, walk.asked, hops, walk.max, walk.window, seeds, frontier, rows, truncated,
               walk.disturbed)
    BY <1>2, <2>1
  <2>3. HopsAsked(w) = asked
    BY <1>0, <2>2 DEF HopsAsked, WalkIs
  <2>4. ~w.disturbed => Honest(w, all)
    BY <1>2, <2>2, <2>3 DEF Honest, WalkIs
  <2>5. Base(walk.window)' = all
    <3>1. projected' = projected /\ claims' = claims /\ walk'.window = walk.window
      BY <1>2, <2>1, <2>2 DEF projectionVars, vars, WalkIs
    <3> QED
      BY <1>0, <3>1, BaseStays
  <2>6. /\ w.asked \in Nat /\ w.window \in Windows /\ w.stage # "seeds"
        /\ w.stage = "hops" => w.seeds # {} /\ w.hops \in 0..HopsAsked(w)
    BY <1>2, <2>2, <2>3 DEF HonestInv, WalkIs
  <2> QED
    BY <2>1, <2>4, <2>5, <2>6 DEF HonestInv
<1>3. CASE ProjectionNext /\ Noticed
  <2>1. PICK disturbed :
          WalkIs(walk', walk.stage, walk.asked, walk.hops, walk.max, walk.window, walk.seeds,
                 walk.frontier, walk.rows, walk.truncated, disturbed)
    BY <1>3, NoticedDoes
  <2>2. PICK w : w = walk'
    OBVIOUS
  <2>3. WalkIs(w, walk.stage, walk.asked, walk.hops, walk.max, walk.window, walk.seeds,
               walk.frontier, walk.rows, walk.truncated, disturbed)
    BY <2>1, <2>2
  <2>4. HopsAsked(w) = HopsAsked(walk)
    BY <2>3 DEF HopsAsked, WalkIs
  <2>5. w.stage # "idle" /\ ~w.disturbed =>
          ~walk.disturbed /\ projected' = projected /\ claims' = claims
    BY <1>3, <2>2, <2>3, NoticedDoes DEF WalkIs
  <2>6. w.stage # "idle" /\ ~w.disturbed => Honest(w, all) /\ Base(walk.window)' = all
    <3>1. ~walk.disturbed => Honest(walk, all)
      BY <1>0 DEF HonestInv
    <3>2. Honest(walk, all) => Honest(w, all)
      BY <2>3, <2>4 DEF Honest, WalkIs
    <3> QED
      BY <1>0, <2>2, <2>3, <2>5, <3>1, <3>2, BaseStays DEF WalkIs
  <2>7. \A rows : w.stage = "idle" => Honest(w, rows)
    BY DEF Honest
  <2>8. ~w.disturbed => Honest(w, Base(walk.window)')
    BY <2>6, <2>7
  <2>9. /\ w.asked \in Nat /\ w.window \in Windows
        /\ w.stage = "seeds" => w.hops = HopsAsked(w) /\ ~w.truncated
        /\ w.stage = "hops" => w.seeds # {} /\ w.hops \in 0..HopsAsked(w)
    BY <2>3, <2>4 DEF HonestInv, WalkIs
  <2> QED
    BY <2>2, <2>8, <2>9 DEF HonestInv
<1>4. CASE ResolveSeeds /\ UNCHANGED projectionVars
  <2>1. PICK resolved :
          /\ walk.stage = "seeds"
          /\ WalkIs(walk', IF resolved = {} THEN "overview" ELSE "hops", walk.asked, walk.hops,
                    walk.max, walk.window, resolved, resolved, walk.rows, walk.truncated,
                    walk.disturbed)
    BY <1>4, ResolveDoes
  <2>2. walk.hops = asked /\ ~walk.truncated /\ walk.rows = {}
    BY <1>0, <2>1 DEF HonestInv, BudgetInv
  <2>3. Hopped(all, resolved, asked, asked - walk.hops, walk.rows, resolved)
    BY <1>1, <2>2, HoppedAtFirst
  <2>4. walk.hops \in 0..asked
    BY <1>1, <2>2
  <2>5. UNCHANGED projectionVars
    BY <1>4
  <2> QED
    BY <1>2, <2>1, <2>2, <2>3, <2>4, <2>5
<1>5. CASE TakeOverview /\ UNCHANGED projectionVars
  <2>1. PICK taken :
          /\ walk.stage = "overview" /\ taken \subseteq all
          /\ WalkIs(walk', "hydrate", walk.asked, walk.hops, walk.max, walk.window, walk.seeds,
                    walk.frontier, taken, taken # all, walk.disturbed)
    BY <1>0, <1>5, OverviewDoes
  <2>2. /\ taken \subseteq WantedOf(all, walk.seeds, asked)
        /\ taken = all => taken = WantedOf(all, walk.seeds, asked)
    BY <2>1 DEF BudgetInv, WantedOf
  <2>3. PICK cut : cut = (taken # all)
    OBVIOUS
  <2>4. WalkIs(walk', "hydrate", walk.asked, walk.hops, walk.max, walk.window, walk.seeds,
               walk.frontier, taken, cut, walk.disturbed)
    BY <2>1, <2>3
  <2>5. ~cut => taken = WantedOf(all, walk.seeds, asked)
    BY <2>2, <2>3
  <2>6. UNCHANGED projectionVars
    BY <1>5
  <2>7. taken \subseteq WantedOf(all, walk.seeds, asked)
    BY <2>2
  <2> QED
    BY <1>2, <2>4, <2>5, <2>6, <2>7
<1>6. CASE Hop /\ UNCHANGED projectionVars
  <2>1. PICK reached, ahead : reached = walk.seeds \cup EndsOf(walk.rows) /\ ahead = Ahead
    OBVIOUS
  <2>2. PICK taken :
          /\ walk.stage = "hops" /\ walk.hops > 0 /\ ~walk.truncated /\ taken \subseteq ahead
          /\ WalkIs(walk', "hops", walk.asked, walk.hops - 1, walk.max, walk.window, walk.seeds,
                    EndsOf(taken) \ reached, walk.rows \cup taken, taken # ahead, walk.disturbed)
    BY <1>6, <2>1, HopDoes
  <2>3. PICK n : n = asked - walk.hops
    OBVIOUS
  <2>4. /\ n \in Nat /\ n < asked /\ asked - (walk.hops - 1) = n + 1 /\ walk.hops - 1 \in 0..asked
        /\ walk.seeds # {}
    BY <1>0, <1>1, <2>2, <2>3 DEF HonestInv
  <2>5. ASSUME ~walk.disturbed
        PROVE  /\ Hopped(all, walk.seeds, asked, n + 1, walk.rows \cup ahead,
                         EndsOf(ahead) \ reached)
               /\ walk.rows \cup ahead \subseteq WantedOf(all, walk.seeds, asked)
    <3>1. ahead = Incident(all, walk.frontier) \ walk.rows
      BY <1>0, <1>1, <2>1, <2>5, AheadIs
    <3>2. Hopped(all, walk.seeds, asked, n, walk.rows, walk.frontier)
      BY <1>0, <2>2, <2>3, <2>5 DEF HonestInv, Honest
    <3> QED
      BY <1>1, <2>1, <2>4, <3>1, <3>2, HopGoesOn
  <2>6. PICK hops, frontier, rows :
          /\ hops = walk.hops - 1 /\ frontier = EndsOf(taken) \ reached
          /\ rows = walk.rows \cup taken
    OBVIOUS
  <2>7. hops \in 0..asked
    BY <2>4, <2>6
  <2>8. UNCHANGED projectionVars
    BY <1>6
  <2>9. CASE taken = ahead
    <3>1. WalkIs(walk', "hops", walk.asked, hops, walk.max, walk.window, walk.seeds, frontier, rows,
                 FALSE, walk.disturbed)
      BY <2>2, <2>6, <2>9
    <3>2. ~walk.disturbed => Hopped(all, walk.seeds, asked, asked - hops, rows, frontier)
      BY <2>4, <2>5, <2>6, <2>9
    <3> QED
      BY <1>2, <2>4, <2>7, <2>8, <3>1, <3>2
  <2>10. CASE taken # ahead
    <3>1. WalkIs(walk', "hops", walk.asked, hops, walk.max, walk.window, walk.seeds, frontier, rows,
                 TRUE, walk.disturbed)
      BY <2>2, <2>6, <2>10
    <3>2. ~walk.disturbed => rows \subseteq WantedOf(all, walk.seeds, asked)
      BY <2>2, <2>5, <2>6
    <3> QED
      BY <1>2, <2>4, <2>7, <2>8, <3>1, <3>2
  <2> QED
    BY <2>9, <2>10
<1>7. CASE Hydrate /\ UNCHANGED projectionVars
  <2>1. PICK kept :
          /\ \/ walk.stage = "hydrate"
             \/ walk.stage = "hops" /\ (walk.hops = 0 \/ walk.frontier = {} \/ walk.truncated)
          /\ kept = {row \in walk.rows : Visible(row)}
          /\ WalkIs(walk', "stamps", walk.asked, walk.hops, walk.max, walk.window, walk.seeds, {},
                    kept, walk.truncated, walk.disturbed)
    BY <1>7, HydrateDoes
  <2>2. ASSUME ~walk.disturbed
        PROVE  /\ walk.rows \subseteq WantedOf(all, walk.seeds, asked)
               /\ ~walk.truncated => walk.rows = WantedOf(all, walk.seeds, asked)
    <3>1. Honest(walk, all)
      BY <1>0, <2>2 DEF HonestInv
    <3>2. CASE walk.stage = "hydrate" \/ walk.truncated
      BY <1>0, <2>1, <3>1, <3>2 DEF Honest
    <3>3. CASE walk.stage = "hops" /\ ~walk.truncated
      <4>1. Hopped(all, walk.seeds, asked, asked - walk.hops, walk.rows, walk.frontier)
        BY <1>0, <3>1, <3>3 DEF Honest
      <4>2. /\ walk.seeds # {} /\ asked - walk.hops \in 0..asked
            /\ asked - walk.hops = asked \/ walk.frontier = {}
        BY <1>0, <1>1, <2>1, <3>3 DEF HonestInv
      <4>3. walk.rows = WantedOf(all, walk.seeds, asked)
        BY <1>1, <4>1, <4>2, HopsEnd
      <4> QED
        BY <4>3
    <3> QED
      BY <2>1, <3>2, <3>3
  <2>3. ~walk.disturbed => kept = walk.rows
    <3>1. WantedOf(all, walk.seeds, asked) \subseteq all
      BY DEF WantedOf, Incident
    <3>2. \A row \in all : Visible(row)
      BY <1>0 DEF Base
    <3> QED
      BY <2>1, <2>2, <3>1, <3>2
  <2>4. UNCHANGED projectionVars
    BY <1>7
  <2>5. ~walk.disturbed =>
          /\ kept \subseteq WantedOf(all, walk.seeds, asked)
          /\ ~walk.truncated => kept = WantedOf(all, walk.seeds, asked)
    BY <2>2, <2>3
  <2>6. WalkIs(walk', "stamps", walk.asked, walk.hops, walk.max, walk.window, walk.seeds, {},
               kept, walk.truncated, walk.disturbed)
    BY <2>1
  <2> QED
    BY <1>2, <2>4, <2>5, <2>6
<1>8. CASE Stamp /\ UNCHANGED projectionVars
  <2>1. /\ walk.stage = "stamps"
        /\ WalkIs(walk', "answered", walk.asked, walk.hops, walk.max, walk.window, walk.seeds,
                  walk.frontier, walk.rows, walk.truncated, walk.disturbed)
    BY <1>8, StampDoes
  <2>2. ~walk.disturbed =>
          /\ walk.rows \subseteq WantedOf(all, walk.seeds, asked)
          /\ ~walk.truncated => walk.rows = WantedOf(all, walk.seeds, asked)
    BY <1>0, <2>1 DEF HonestInv, Honest
  <2>3. UNCHANGED projectionVars
    BY <1>8
  <2> QED
    BY <1>2, <2>1, <2>2, <2>3
<1>9. ASSUME NEW seeds, NEW hops \in 0..MaxHops + 1, NEW max, NEW window \in Windows,
             Ask(seeds, hops, max, window)
      PROVE  HonestInv'
  <2>1. PICK w : w = walk'
    OBVIOUS
  <2>2. WalkIs(w, "seeds", hops, Clamped(hops, 0, MaxHops), Clamped(max, 1, MaxElements),
               window, seeds, {}, {}, FALSE, FALSE)
    BY <1>9, <2>1, AskDoes
  <2>3. \A rows : Honest(w, rows)
    BY <2>2 DEF Honest, WalkIs
  <2>4. /\ w.asked \in Nat /\ w.window \in Windows /\ w.stage = "seeds"
        /\ w.hops = HopsAsked(w) /\ ~w.truncated
    BY <2>2, QueryAssumption DEF QueryAssumption, WalkIs, HopsAsked
  <2> QED
    BY <2>1, <2>3, <2>4 DEF HonestInv
<1>10. CASE UNCHANGED graphVars
  <2>1. projected' = projected /\ claims' = claims /\ walk' = walk
    BY <1>10 DEF graphVars, projectionVars, vars
  <2>2. Base(walk.window)' = Base(walk.window)
    BY <2>1, BaseStays
  <2> QED
    BY <2>1, <2>2 DEF HonestInv
<1> QED
  BY <1>3, <1>4, <1>5, <1>6, <1>7, <1>8, <1>9, <1>10 DEF GraphNext, Read

\* The answer holds no more than was asked for and allowed; and an answer out of one state
\* of the projection has every row within the hops, or says that it was cut short, and has
\* no other: the hops, each of which looks at the last one's newcomers only, lead to all
\* that is near (expand, _breadth_first, _Budget).
THEOREM AnswerTellsAll == GraphSpec => []AnswerIsWhatWasAsked
<1>1. ASSUME HonestInv, BudgetInv, WorkInv PROVE AnswerIsWhatWasAsked
  <2>1. AnswerWithinBudget
    BY <1>1, QueryAssumption DEF AnswerWithinBudget, BudgetInv, Size, QueryAssumption
  <2>2. NothingMissingUnlessTold
    <3> SUFFICES ASSUME walk.stage = "answered", ~walk.disturbed PROVE NothingMissingUnlessTold
      BY DEF NothingMissingUnlessTold, Answered
    <3>1. Wanted(HopsAsked(walk)) = WantedOf(Base(walk.window), walk.seeds, HopsAsked(walk))
      BY <1>1, WantedIs DEF WorkInv, HonestInv
    <3> QED
      BY <1>1, <3>1, HonestAtLast DEF HonestInv, HopsAsked, NothingMissingUnlessTold
  <2> QED
    BY <2>1, <2>2 DEF AnswerIsWhatWasAsked
<1>2. GraphSpec => [](IInv /\ WorkInv /\ WalkInv)
  <2>1. WorkInv /\ IInv' /\ [GraphNext]_graphVars => WorkInv'
    BY WorkStep DEF GraphNext, graphVars
  <2>2. GraphInit /\ IInv => WorkInv
    BY WorkStart DEF GraphInit
  <2> QED
    BY <2>1, <2>2, WalkStart, WalkStep, GraphIsProjection, ProjectionLedger, PTL DEF GraphSpec
<1> QED
  BY <1>1, <1>2, BudgetStart, BudgetStep, HonestStart, HonestStep, PTL DEF GraphSpec
-----------------------------------------------------------------------------
\* The routes: the recursions of WalksFrom and of ShortestRoutes, one step of each, and the
\* two side by side.
\* A walk that has not left, and one that goes one row further.
Departs(source) == [rows |-> <<>>, at |-> source]
Longer(w, row, e) == [rows |-> Append(w.rows, row), at |-> e]

LEMMA LongerIs ==
  ASSUME NEW source, NEW w, NEW row, NEW e
  PROVE  /\ Departs(source).rows = <<>> /\ Departs(source).at = source
         /\ Longer(w, row, e).rows = Append(w.rows, row) /\ Longer(w, row, e).at = e
BY DEF Departs, Longer

WalkedOn(rows, walks) ==
  UNION {{[rows |-> Append(p[1].rows, p[2]), at |-> e] : e \in p[2].edge.ends \ {p[1].at}}
           : p \in {q \in walks \X rows : q[1].at \in q[2].edge.ends}}

IsWalks(f, rows, source, n) ==
  f = [i \in 0..n |-> IF i = 0 THEN {Departs(source)} ELSE WalkedOn(rows, f[i - 1])]

\* WalksFrom is the union of the walks of every length so defined.
LEMMA WalksChosen ==
  ASSUME NEW rows, NEW source, NEW n
  PROVE  WalksFrom(rows, source, n)
           = UNION {(CHOOSE f : IsWalks(f, rows, source, n))[i] : i \in 0..n}
BY DEF WalksFrom, IsWalks, WalkedOn, Departs

\* Who is in the n-th circle around the source, and the routes to them through the circles.
Circle(near, source, n) == IF n = 0 THEN {source} ELSE near[n] \ near[n - 1]

RoutesOn(rows, near, source, n, routes) ==
  [far \in Circle(near, source, n) |->
     UNION {{Append(p[1], p[2]) : p \in routes[e] \X Between(rows, e, far)}
              : e \in Circle(near, source, n - 1)}]

IsRoutes(f, rows, near, source, n) ==
  f = [i \in 0..n |-> IF i = 0 THEN [far \in {source} |-> {<<>>}]
                      ELSE RoutesOn(rows, near, source, i, f[i - 1])]

Routes(rows, near, source, n) == CHOOSE f : IsRoutes(f, rows, near, source, n)

\* ShortestRoutes are the routes of the circle that the target is in.
LEMMA RoutesChosen ==
  ASSUME NEW rows, NEW source, NEW target, NEW n, NEW near, near = Within(rows, {source}, n), NEW r
  PROVE  r \in ShortestRoutes(rows, source, target, n) <=>
           \E i \in 0..n : /\ target \in Circle(near, source, i)
                           /\ r \in Routes(rows, near, source, n)[i][target]
<1>1. ShortestRoutes(rows, source, target, n)
        = UNION {(CHOOSE f : IsRoutes(f, rows, near, source, n))[i][target]
                   : i \in {x \in 0..n : target \in Circle(near, source, x)}}
  BY DEF ShortestRoutes, IsRoutes, RoutesOn, Circle
<1> QED
  BY <1>1 DEF Routes

\* A walk went one row further if it is another with a row that it could take.
LEMMA WalkedOnIs ==
  ASSUME NEW rows, NEW walks, NEW x
  PROVE  x \in WalkedOn(rows, walks) <=>
           \E w \in walks, row \in rows : \E e \in row.edge.ends :
             w.at \in row.edge.ends /\ e # w.at /\ x = Longer(w, row, e)
<1>1. ASSUME x \in WalkedOn(rows, walks)
      PROVE  \E w \in walks, row \in rows : \E e \in row.edge.ends :
               w.at \in row.edge.ends /\ e # w.at /\ x = Longer(w, row, e)
  <2>1. PICK p \in {q \in walks \X rows : q[1].at \in q[2].edge.ends} :
          x \in {[rows |-> Append(p[1].rows, p[2]), at |-> e] : e \in p[2].edge.ends \ {p[1].at}}
    BY <1>1 DEF WalkedOn
  <2>2. PICK e \in p[2].edge.ends \ {p[1].at} : x = Longer(p[1], p[2], e)
    BY <2>1 DEF Longer
  <2>3. p[1] \in walks /\ p[2] \in rows /\ p[1].at \in p[2].edge.ends
    BY <2>1
  <2> QED
    BY <2>2, <2>3
<1>2. ASSUME NEW w \in walks, NEW row \in rows, NEW e \in row.edge.ends,
             w.at \in row.edge.ends, e # w.at, x = Longer(w, row, e)
      PROVE  x \in WalkedOn(rows, walks)
  <2> DEFINE p == <<w, row>>
  <2>1. p[1] = w /\ p[2] = row
    OBVIOUS
  <2>2. p \in {q \in walks \X rows : q[1].at \in q[2].edge.ends}
    BY <1>2, <2>1
  <2>3. x \in {[rows |-> Append(p[1].rows, p[2]), at |-> d] : d \in p[2].edge.ends \ {p[1].at}}
    BY <1>2, <2>1 DEF Longer
  <2> HIDE DEF p
  <2> QED
    BY <2>2, <2>3 DEF WalkedOn
<1> QED
  BY <1>1, <1>2

\* A route with one more row, from e to far.
Extended(paths, rows, e, far, r) ==
  \E route \in paths, row \in Between(rows, e, far) : r = Append(route, row)

\* The routes to somebody are those to the circle before, and a row from there.
LEMMA RoutesOnIs ==
  ASSUME NEW rows, NEW near, NEW source, NEW n, NEW routes,
         NEW far \in Circle(near, source, n), NEW r
  PROVE  r \in RoutesOn(rows, near, source, n, routes)[far] <=>
           \E e \in Circle(near, source, n - 1) : Extended(routes[e], rows, e, far, r)
<1>1. r \in RoutesOn(rows, near, source, n, routes)[far] <=>
        \E e \in Circle(near, source, n - 1) :
          r \in {Append(p[1], p[2]) : p \in routes[e] \X Between(rows, e, far)}
  BY DEF RoutesOn
<1>2. ASSUME NEW e, NEW paths
      PROVE  r \in {Append(p[1], p[2]) : p \in paths \X Between(rows, e, far)} <=>
               Extended(paths, rows, e, far, r)
  <2>1. ASSUME NEW p \in paths \X Between(rows, e, far)
        PROVE  p[1] \in paths /\ p[2] \in Between(rows, e, far)
    OBVIOUS
  <2>2. ASSUME NEW route \in paths, NEW row \in Between(rows, e, far)
        PROVE  /\ <<route, row>> \in paths \X Between(rows, e, far)
               /\ Append(<<route, row>>[1], <<route, row>>[2]) = Append(route, row)
    OBVIOUS
  <2> QED
    BY <2>1, <2>2 DEF Extended
<1> QED
  BY <1>1, <1>2

\* Both recursions define a function for every number of hops.

\* The walks of every length up to any are a function,
LEMMA WalksExist ==
  ASSUME NEW rows, NEW source
  PROVE  \A n \in Nat : \E f : IsWalks(f, rows, source, n)
<1> DEFINE Bad == {n \in Nat : ~\E f : IsWalks(f, rows, source, n)}
           After(i, walks) == WalkedOn(rows, walks)
<1> SUFFICES ASSUME Bad # {} PROVE FALSE
  OBVIOUS
<1>1. PICK n \in Bad : \A x \in Bad : n <= x
  <2>1. Bad \in SUBSET Nat
    OBVIOUS
  <2> HIDE DEF Bad
  <2> QED
    BY <2>1, LeastOf
<1>2. n # 0
  <2>1. IsWalks([i \in 0..0 |-> {Departs(source)}], rows, source, 0)
    BY DEF IsWalks
  <2> QED
    BY <1>1, <2>1
<1>3. n \in Nat /\ n - 1 \in Nat /\ ~(n <= n - 1) /\ n > 0
  BY <1>1, <1>2
<1>4. PICK f : IsWalks(f, rows, source, n - 1)
  <2>1. n - 1 \notin Bad
    BY <1>1, <1>3
  <2> QED
    BY <1>3, <2>1
<1> DEFINE g == [i \in 0..n |-> IF i = n THEN After(n, f[n - 1]) ELSE f[i]]
<1>5. \A i \in 0..(n - 1) : f[i] = IF i = 0 THEN {Departs(source)} ELSE After(i, f[i - 1])
  BY <1>4 DEF IsWalks
<1>6. g[n] = After(n, f[n - 1]) /\ \A i \in 0..(n - 1) : g[i] = f[i]
  <2> HIDE DEF After
  <2> QED
    BY <1>3
<1>7. g = [i \in 0..n |-> g[i]]
  OBVIOUS
<1> HIDE DEF g, After
<1>8. \A i \in 0..n : g[i] = IF i = 0 THEN {Departs(source)} ELSE After(i, g[i - 1])
  <2> SUFFICES ASSUME NEW i \in 0..n
               PROVE  g[i] = IF i = 0 THEN {Departs(source)} ELSE After(i, g[i - 1])
    OBVIOUS
  <2>1. n - 1 \in 0..(n - 1)
    BY <1>3
  <2>2. CASE i = n
    BY <1>3, <1>6, <2>1, <2>2
  <2>3. CASE i # n
    <3>1. i \in 0..(n - 1) /\ (i # 0 => i - 1 \in 0..(n - 1))
      BY <1>3, <2>3
    <3> QED
      BY <1>5, <1>6, <3>1
  <2> QED
    BY <2>2, <2>3
<1>9. IsWalks(g, rows, source, n)
  <2>1. g = [i \in 0..n |-> IF i = 0 THEN {Departs(source)} ELSE After(i, g[i - 1])]
    BY <1>7, <1>8
  <2> QED
    BY <2>1 DEF IsWalks, After
<1> QED
  BY <1>1, <1>9

\* and the routes to every circle.
LEMMA RoutesExist ==
  ASSUME NEW rows, NEW near, NEW source
  PROVE  \A n \in Nat : \E f : IsRoutes(f, rows, near, source, n)
<1> DEFINE Bad == {n \in Nat : ~\E f : IsRoutes(f, rows, near, source, n)}
           After(i, routes) == RoutesOn(rows, near, source, i, routes)
<1> SUFFICES ASSUME Bad # {} PROVE FALSE
  OBVIOUS
<1>1. PICK n \in Bad : \A x \in Bad : n <= x
  <2>1. Bad \in SUBSET Nat
    OBVIOUS
  <2> HIDE DEF Bad
  <2> QED
    BY <2>1, LeastOf
<1>2. n # 0
  <2>1. IsRoutes([i \in 0..0 |-> [far \in {source} |-> {<<>>}]], rows, near, source, 0)
    BY DEF IsRoutes
  <2> QED
    BY <1>1, <2>1
<1>3. n \in Nat /\ n - 1 \in Nat /\ ~(n <= n - 1) /\ n > 0
  BY <1>1, <1>2
<1>4. PICK f : IsRoutes(f, rows, near, source, n - 1)
  <2>1. n - 1 \notin Bad
    BY <1>1, <1>3
  <2> QED
    BY <1>3, <2>1
<1> DEFINE g == [i \in 0..n |-> IF i = n THEN After(n, f[n - 1]) ELSE f[i]]
<1>5. \A i \in 0..(n - 1) :
        f[i] = IF i = 0 THEN [far \in {source} |-> {<<>>}] ELSE After(i, f[i - 1])
  BY <1>4 DEF IsRoutes
<1>6. g[n] = After(n, f[n - 1]) /\ \A i \in 0..(n - 1) : g[i] = f[i]
  <2> HIDE DEF After
  <2> QED
    BY <1>3
<1>7. g = [i \in 0..n |-> g[i]]
  OBVIOUS
<1> HIDE DEF g, After
<1>8. \A i \in 0..n : g[i] = IF i = 0 THEN [far \in {source} |-> {<<>>}] ELSE After(i, g[i - 1])
  <2> SUFFICES ASSUME NEW i \in 0..n
               PROVE  g[i] = IF i = 0 THEN [far \in {source} |-> {<<>>}] ELSE After(i, g[i - 1])
    OBVIOUS
  <2>1. n - 1 \in 0..(n - 1)
    BY <1>3
  <2>2. CASE i = n
    BY <1>3, <1>6, <2>1, <2>2
  <2>3. CASE i # n
    <3>1. i \in 0..(n - 1) /\ (i # 0 => i - 1 \in 0..(n - 1))
      BY <1>3, <2>3
    <3> QED
      BY <1>5, <1>6, <3>1
  <2> QED
    BY <2>2, <2>3
<1>9. IsRoutes(g, rows, near, source, n)
  <2>1. g = [i \in 0..n |-> IF i = 0 THEN [far \in {source} |-> {<<>>}] ELSE After(i, g[i - 1])]
    BY <1>7, <1>8
  <2> QED
    BY <2>1 DEF IsRoutes, After
<1> QED
  BY <1>1, <1>9

\* Walks and routes, one number of rows after the other.
AreWalks(walks, rows, source, n) ==
  /\ walks[0] = {Departs(source)}
  /\ \A i \in 1..n : walks[i] = WalkedOn(rows, walks[i - 1])

AreRoutes(routes, rows, near, source, n) ==
  /\ routes[0][source] = {<<>>}
  /\ \A i \in 1..n : routes[i] = RoutesOn(rows, near, source, i, routes[i - 1])

\* WalksFrom collects such walks, and ShortestRoutes such routes.
LEMMA WalksAre ==
  ASSUME NEW rows, NEW source, NEW n \in Nat
  PROVE  \E walks : /\ AreWalks(walks, rows, source, n)
                    /\ \A w : w \in WalksFrom(rows, source, n) <=> \E i \in 0..n : w \in walks[i]
<1>1. PICK walks : /\ walks = (CHOOSE f : IsWalks(f, rows, source, n))
                   /\ IsWalks(walks, rows, source, n)
  BY WalksExist
<1>2. \A i \in 0..n :
        walks[i] = IF i = 0 THEN {Departs(source)} ELSE WalkedOn(rows, walks[i - 1])
  BY <1>1 DEF IsWalks
<1>3. 0 \in 0..n /\ \A i \in 1..n : i \in 0..n /\ i # 0
  OBVIOUS
<1>4. walks[0] = {Departs(source)}
  BY <1>2, <1>3
<1>5. ASSUME NEW i \in 1..n PROVE walks[i] = WalkedOn(rows, walks[i - 1])
  BY <1>2, <1>3
<1>6. WalksFrom(rows, source, n) = UNION {walks[i] : i \in 0..n}
  BY <1>1, WalksChosen
<1>7. AreWalks(walks, rows, source, n)
  BY <1>4, <1>5 DEF AreWalks
<1> QED
  BY <1>6, <1>7

LEMMA RoutesAre ==
  ASSUME NEW rows, NEW source, NEW n \in Nat, NEW near, near = Within(rows, {source}, n)
  PROVE  \E routes :
           /\ \A target, r : r \in ShortestRoutes(rows, source, target, n) <=>
                \E i \in 0..n : target \in Circle(near, source, i) /\ r \in routes[i][target]
           /\ AreRoutes(routes, rows, near, source, n)
<1>1. PICK routes : routes = Routes(rows, near, source, n)
  OBVIOUS
<1>2. IsRoutes(routes, rows, near, source, n)
  BY <1>1, RoutesExist DEF Routes
<1>3. ASSUME NEW target, NEW r
      PROVE  r \in ShortestRoutes(rows, source, target, n) <=>
               \E i \in 0..n : target \in Circle(near, source, i) /\ r \in routes[i][target]
  BY <1>1, RoutesChosen
<1>4. \A i \in 0..n : routes[i] = IF i = 0 THEN [far \in {source} |-> {<<>>}]
                                  ELSE RoutesOn(rows, near, source, i, routes[i - 1])
  BY <1>2 DEF IsRoutes
<1>5. 0 \in 0..n /\ \A i \in 1..n : i \in 0..n /\ i # 0
  OBVIOUS
<1>6. routes[0] = [far \in {source} |-> {<<>>}]
  BY <1>4, <1>5
<1>7. routes[0][source] = {<<>>}
  BY <1>6
<1>8. ASSUME NEW i \in 1..n PROVE routes[i] = RoutesOn(rows, near, source, i, routes[i - 1])
  BY <1>4, <1>5
<1>9. AreRoutes(routes, rows, near, source, n)
  BY <1>7, <1>8 DEF AreRoutes
<1> QED
  BY <1>3, <1>9

\* Every row has two ends.
HavePairs(rows) == \A row \in rows : \E x, y : x # y /\ row.edge.ends = {x, y}

\* A walk of so many rows comes there.
Arrives(walks, i, e) == \E w \in walks[i] : w.at = e
ArrivesBy(walks, i, e) == \E m \in 0..i : Arrives(walks, m, e)

LEMMA AtFirst ==
  ASSUME NEW walks, NEW rows, NEW source, NEW n \in Nat, AreWalks(walks, rows, source, n)
  PROVE  \A w : w \in walks[0] <=> w = Departs(source)
BY DEF AreWalks

\* A step of a walk, in so many words.
LEMMA WalkStepIs ==
  ASSUME NEW walks, NEW rows, NEW source, NEW n \in Nat, AreWalks(walks, rows, source, n),
         NEW i \in 1..n, NEW x
  PROVE  x \in walks[i] <=>
           \E w \in walks[i - 1], row \in rows : \E e \in row.edge.ends :
             w.at \in row.edge.ends /\ e # w.at /\ x = Longer(w, row, e)
<1>1. walks[i] = WalkedOn(rows, walks[i - 1])
  BY DEF AreWalks
<1> QED
  BY <1>1, WalkedOnIs

\* A walk can go on from where it is.
LEMMA GoesOn ==
  ASSUME NEW walks, NEW rows, NEW source, NEW n \in Nat, AreWalks(walks, rows, source, n),
         NEW i \in Nat, i < n, NEW w \in walks[i], NEW row \in rows, NEW e \in row.edge.ends,
         w.at \in row.edge.ends, e # w.at
  PROVE  Longer(w, row, e) \in walks[i + 1] /\ Arrives(walks, i + 1, e)
<1>1. i + 1 \in 1..n /\ (i + 1) - 1 = i
  OBVIOUS
<1>2. Longer(w, row, e) \in walks[i + 1]
  BY <1>1, WalkStepIs
<1> QED
  BY <1>2, LongerIs DEF Arrives

Counted(walks, rows, i) == \A w \in walks[i] : w.rows \in Seq(rows) /\ Len(w.rows) = i

LEMMA WalksCount ==
  ASSUME NEW walks, NEW rows, NEW source, NEW n \in Nat, AreWalks(walks, rows, source, n)
  PROVE  \A i \in 0..n : Counted(walks, rows, i)
<1> DEFINE Bad == {i \in 0..n : ~Counted(walks, rows, i)}
<1> SUFFICES ASSUME Bad # {} PROVE FALSE
  OBVIOUS
<1>1. PICK i \in Bad : \A x \in Bad : i <= x
  <2>1. Bad \in SUBSET Nat
    OBVIOUS
  <2> HIDE DEF Bad
  <2> QED
    BY <2>1, LeastOf
<1>2. i # 0
  <2>1. \A w \in walks[0] : w.rows = <<>>
    BY AtFirst, LongerIs
  <2>2. <<>> \in Seq(rows) /\ Len(<<>>) = 0
    OBVIOUS
  <2>3. Counted(walks, rows, 0)
    BY <2>1, <2>2 DEF Counted
  <2> QED
    BY <1>1, <2>3
<1>3. i \in 1..n /\ i - 1 \in 0..n /\ ~(i <= i - 1)
  BY <1>1, <1>2
<1>4. Counted(walks, rows, i - 1)
  BY <1>1, <1>3
<1>5. Counted(walks, rows, i)
  <2> SUFFICES ASSUME NEW x \in walks[i] PROVE x.rows \in Seq(rows) /\ Len(x.rows) = i
    BY DEF Counted
  <2>1. PICK w \in walks[i - 1], row \in rows : \E e : x = Longer(w, row, e)
    BY <1>3, WalkStepIs
  <2>2. w.rows \in Seq(rows) /\ Len(w.rows) = i - 1 /\ x.rows = Append(w.rows, row)
    BY <1>4, <2>1, LongerIs DEF Counted
  <2> QED
    BY <1>3, <2>2
<1> QED
  BY <1>1, <1>5

Reached(walks, near, i) == \A e : e \in near[i] <=> ArrivesBy(walks, i, e)

\* Within some number of hops are those to whom a walk of no more rows leads.
LEMMA WalksReach ==
  ASSUME NEW walks, NEW rows, NEW source, NEW n \in Nat, AreWalks(walks, rows, source, n),
         HavePairs(rows), NEW near, near = Within(rows, {source}, n)
  PROVE  \A i \in 0..n : Reached(walks, near, i)
<1> DEFINE Bad == {i \in 0..n : ~Reached(walks, near, i)}
<1> SUFFICES ASSUME Bad # {} PROVE FALSE
  OBVIOUS
<1>1. PICK i \in Bad : \A x \in Bad : i <= x
  <2>1. Bad \in SUBSET Nat
    OBVIOUS
  <2> HIDE DEF Bad
  <2> QED
    BY <2>1, LeastOf
<1>2. i # 0
  <2>1. near[0] = {source}
    BY WithinIs
  <2>2. \A e : Arrives(walks, 0, e) <=> e = source
    BY AtFirst, LongerIs DEF Arrives
  <2>3. \A e : ArrivesBy(walks, 0, e) <=> Arrives(walks, 0, e)
    BY DEF ArrivesBy
  <2>4. Reached(walks, near, 0)
    BY <2>1, <2>2, <2>3 DEF Reached
  <2> QED
    BY <1>1, <2>4
<1>3. /\ i \in 1..n /\ i - 1 \in 0..n /\ ~(i <= i - 1) /\ i \in 0..i /\ 0..i = 0..(i - 1) \cup {i}
      /\ i - 1 \in 0..(i - 1) /\ i - 1 \in Nat
  BY <1>1, <1>2
<1>4. near[i] = near[i - 1] \cup EndsOf(Incident(rows, near[i - 1]))
  BY <1>3, WithinIs
<1>5. \A e : e \in near[i - 1] <=> ArrivesBy(walks, i - 1, e)
  BY <1>1, <1>3 DEF Reached
<1>6. \A e : ArrivesBy(walks, i, e) <=> ArrivesBy(walks, i - 1, e) \/ Arrives(walks, i, e)
  BY <1>3 DEF ArrivesBy
<1>7. ASSUME NEW e \in EndsOf(Incident(rows, near[i - 1])) PROVE ArrivesBy(walks, i, e)
  <2>1. PICK row \in rows : e \in row.edge.ends /\ row.edge.ends \cap near[i - 1] # {}
    BY DEF EndsOf, Incident
  <2>2. PICK x \in row.edge.ends : x \in near[i - 1]
    BY <2>1
  <2>3. PICK m \in 0..(i - 1) : Arrives(walks, m, x)
    BY <1>5, <2>2 DEF ArrivesBy
  <2>4. PICK w \in walks[m] : w.at = x
    BY <2>3 DEF Arrives
  <2>5. CASE e = x
    BY <1>5, <1>6, <2>2, <2>5
  <2>6. CASE e # x
    <3>1. m \in Nat /\ m < n /\ m + 1 \in 0..i
      BY <1>3
    <3>2. Arrives(walks, m + 1, e)
      BY <2>1, <2>2, <2>4, <2>6, <3>1, GoesOn
    <3> QED
      BY <3>1, <3>2 DEF ArrivesBy
  <2> QED
    BY <2>5, <2>6
<1>8. ASSUME NEW e, Arrives(walks, i, e) PROVE e \in near[i]
  <2>1. PICK x \in walks[i] : x.at = e
    BY <1>8 DEF Arrives
  <2>2. PICK w \in walks[i - 1], row \in rows :
          w.at \in row.edge.ends /\ \E d \in row.edge.ends : x = Longer(w, row, d)
    BY <1>3, <2>1, WalkStepIs
  <2>3. w.at \in near[i - 1]
    BY <1>3, <1>5 DEF Arrives, ArrivesBy
  <2>4. row \in Incident(rows, near[i - 1]) /\ e \in row.edge.ends
    BY <2>1, <2>2, <2>3, LongerIs DEF Incident
  <2> QED
    BY <1>4, <2>4 DEF EndsOf
<1>9. Reached(walks, near, i)
  BY <1>4, <1>5, <1>6, <1>7, <1>8 DEF Reached
<1> QED
  BY <1>1, <1>9

\* In the n-th circle are those whom the shortest walk reaches with n rows.
LEMMA CirclesAre ==
  ASSUME NEW walks, NEW rows, NEW source, NEW n \in Nat, AreWalks(walks, rows, source, n),
         HavePairs(rows), NEW near, near = Within(rows, {source}, n), NEW i \in 0..n, NEW e
  PROVE  e \in Circle(near, source, i) <=>
           Arrives(walks, i, e) /\ \A m \in 0..n : m < i => ~Arrives(walks, m, e)
<1>1. \A j \in 0..n : e \in near[j] <=> \E m \in 0..j : Arrives(walks, m, e)
  BY WalksReach DEF Reached, ArrivesBy
<1>2. CASE i = 0
  <2>1. Arrives(walks, 0, e) <=> e = source
    BY AtFirst, LongerIs DEF Arrives
  <2>2. \A m \in 0..n : ~(m < 0)
    OBVIOUS
  <2> QED
    BY <1>2, <2>1, <2>2 DEF Circle
<1>3. CASE i # 0
  <2>1. /\ i - 1 \in 0..n /\ 0..i = 0..(i - 1) \cup {i}
        /\ \A m \in 0..n : m < i <=> m \in 0..(i - 1)
        /\ 0..(i - 1) \subseteq 0..n
    BY <1>3
  <2>2. Circle(near, source, i) = near[i] \ near[i - 1]
    BY <1>3 DEF Circle
  <2> QED
    BY <1>1, <2>1, <2>2
<1> QED
  BY <1>2, <1>3

\* The routes to somebody are what the walks that come there go along.
Comes(circle, far, r) == \E w \in circle : w.at = far /\ w.rows = r
AreTheWalks(paths, circle, far) == \A r : r \in paths <=> Comes(circle, far, r)

CircleDone(routes, walks, near, source, i) ==
  \A far \in Circle(near, source, i) : AreTheWalks(routes[i][far], walks[i], far)

\* A route with one more row is a walk with one more row.
LEMMA ComesFurther ==
  ASSUME NEW walks, NEW rows, NEW source, NEW n \in Nat, AreWalks(walks, rows, source, n),
         NEW i \in Nat, i < n, NEW paths, NEW e, AreTheWalks(paths, walks[i], e),
         NEW far, e # far, NEW r, Extended(paths, rows, e, far, r)
  PROVE  Comes(walks[i + 1], far, r)
<1>1. PICK route \in paths, row \in Between(rows, e, far) : r = Append(route, row)
  BY DEF Extended
<1>2. PICK w \in walks[i] : w.at = e /\ w.rows = route
  BY DEF AreTheWalks, Comes
<1>3. row \in rows /\ row.edge.ends = {e, far}
  BY DEF Between
<1>4. far \in row.edge.ends /\ w.at \in row.edge.ends /\ far # w.at
  BY <1>2, <1>3
<1>5. Longer(w, row, far) \in walks[i + 1]
  BY <1>3, <1>4, GoesOn
<1>6. Longer(w, row, far).at = far /\ Longer(w, row, far).rows = r
  BY <1>1, <1>2, LongerIs
<1> QED
  BY <1>5, <1>6 DEF Comes

\* A walk that came by e on its way to far.
CameBy(circle, rows, e, far, r) ==
  \E route : Comes(circle, e, route) /\ \E row \in Between(rows, e, far) : r = Append(route, row)

\* A walk to a circle came through the one before, and along a row from there.
LEMMA CameThrough ==
  ASSUME NEW walks, NEW rows, NEW source, NEW n \in Nat, AreWalks(walks, rows, source, n),
         HavePairs(rows), NEW near, near = Within(rows, {source}, n),
         NEW i \in 1..n, NEW far \in Circle(near, source, i), NEW r, Comes(walks[i], far, r)
  PROVE  \E e \in Circle(near, source, i - 1) : CameBy(walks[i - 1], rows, e, far, r)
<1>1. PICK x \in walks[i] : x.at = far /\ x.rows = r
  BY DEF Comes
<1>2. PICK w \in walks[i - 1], row \in rows : \E e \in row.edge.ends :
        w.at \in row.edge.ends /\ e # w.at /\ x = Longer(w, row, e)
  BY WalkStepIs
<1>3. r = Append(w.rows, row) /\ far \in row.edge.ends /\ w.at \in row.edge.ends /\ w.at # far
  BY <1>1, <1>2, LongerIs
<1>4. row \in Between(rows, w.at, far)
  <2>1. row.edge.ends = {w.at, far}
    BY <1>3 DEF HavePairs
  <2> QED
    BY <2>1 DEF Between
<1>5. ASSUME NEW m \in 0..n, m < i - 1, Arrives(walks, m, w.at) PROVE FALSE
  <2>1. m \in Nat /\ m < n /\ m + 1 \in 0..n /\ m + 1 < i
    BY <1>5
  <2>2. PICK v \in walks[m] : v.at = w.at
    BY <1>5 DEF Arrives
  <2>3. Arrives(walks, m + 1, far)
    BY <1>3, <2>1, <2>2, GoesOn
  <2>4. ~Arrives(walks, m + 1, far)
    BY <2>1, CirclesAre
  <2> QED
    BY <2>3, <2>4
<1>6. w.at \in Circle(near, source, i - 1)
  <2>1. Arrives(walks, i - 1, w.at)
    BY DEF Arrives
  <2>2. i - 1 \in 0..n
    OBVIOUS
  <2> QED
    BY <1>5, <2>1, <2>2, CirclesAre
<1>7. Comes(walks[i - 1], w.at, w.rows)
  BY DEF Comes
<1>8. CameBy(walks[i - 1], rows, w.at, far, r)
  BY <1>3, <1>4, <1>7 DEF CameBy
<1> QED
  BY <1>6, <1>8

\* A circle is done when the one before it is.
LEMMA CircleAfter ==
  ASSUME NEW walks, NEW rows, NEW source, NEW n \in Nat, AreWalks(walks, rows, source, n),
         HavePairs(rows), NEW near, near = Within(rows, {source}, n),
         NEW routes, AreRoutes(routes, rows, near, source, n),
         NEW i \in 1..n, CircleDone(routes, walks, near, source, i - 1)
  PROVE  CircleDone(routes, walks, near, source, i)
<1> SUFFICES ASSUME NEW far \in Circle(near, source, i)
             PROVE  AreTheWalks(routes[i][far], walks[i], far)
  BY DEF CircleDone
<1>1. PICK before : before = routes[i - 1]
  OBVIOUS
<1>2. routes[i] = RoutesOn(rows, near, source, i, before)
  BY <1>1 DEF AreRoutes
<1>3. \A e \in Circle(near, source, i - 1) : AreTheWalks(before[e], walks[i - 1], e)
  BY <1>1 DEF CircleDone
<1>4. i - 1 \in 0..n /\ i \in 0..n /\ i - 1 \in Nat /\ i - 1 < n /\ (i - 1) + 1 = i /\ i - 1 < i
  OBVIOUS
<1>5. ~Arrives(walks, i - 1, far)
  BY <1>4, CirclesAre
<1>6. ASSUME NEW e \in Circle(near, source, i - 1) PROVE e # far
  BY <1>4, <1>5, CirclesAre
<1>7. ASSUME NEW r, r \in routes[i][far] PROVE Comes(walks[i], far, r)
  <2>1. PICK e \in Circle(near, source, i - 1) : Extended(before[e], rows, e, far, r)
    BY <1>2, <1>7, RoutesOnIs
  <2>2. AreTheWalks(before[e], walks[i - 1], e) /\ e # far
    BY <1>3, <1>6
  <2>3. Comes(walks[(i - 1) + 1], far, r)
    BY <1>4, <2>1, <2>2, ComesFurther
  <2> QED
    BY <1>4, <2>3
<1>8. ASSUME NEW r, Comes(walks[i], far, r) PROVE r \in routes[i][far]
  <2>1. PICK e \in Circle(near, source, i - 1) : CameBy(walks[i - 1], rows, e, far, r)
    BY <1>8, CameThrough
  <2>2. PICK route : /\ Comes(walks[i - 1], e, route)
                     /\ \E row \in Between(rows, e, far) : r = Append(route, row)
    BY <2>1 DEF CameBy
  <2>3. route \in before[e]
    BY <1>3, <2>2 DEF AreTheWalks
  <2>4. Extended(before[e], rows, e, far, r)
    BY <2>2, <2>3 DEF Extended
  <2> QED
    BY <1>2, <2>4, RoutesOnIs
<1> QED
  BY <1>7, <1>8 DEF AreTheWalks

\* The routes through the circles are the walks that come to a circle as soon as one can.
LEMMA RoutesLead ==
  ASSUME NEW walks, NEW rows, NEW source, NEW n \in Nat, AreWalks(walks, rows, source, n),
         HavePairs(rows), NEW near, near = Within(rows, {source}, n),
         NEW routes, AreRoutes(routes, rows, near, source, n)
  PROVE  \A i \in 0..n : \A far \in Circle(near, source, i) : \A r :
           r \in routes[i][far] <=> Comes(walks[i], far, r)
<1> DEFINE Bad == {i \in 0..n : ~CircleDone(routes, walks, near, source, i)}
<1> SUFFICES ASSUME Bad # {} PROVE FALSE
  BY DEF CircleDone, AreTheWalks
<1>1. PICK i \in Bad : \A x \in Bad : i <= x
  <2>1. Bad \in SUBSET Nat
    OBVIOUS
  <2> HIDE DEF Bad
  <2> QED
    BY <2>1, LeastOf
<1>2. i # 0
  <2>1. Circle(near, source, 0) = {source} /\ routes[0][source] = {<<>>}
    BY DEF Circle, AreRoutes
  <2>2. \A w : w \in walks[0] <=> w = Departs(source)
    BY AtFirst
  <2>3. \A r : Comes(walks[0], source, r) <=> r = <<>>
    BY <2>2, LongerIs DEF Comes
  <2>4. AreTheWalks(routes[0][source], walks[0], source)
    BY <2>1, <2>3 DEF AreTheWalks
  <2>5. CircleDone(routes, walks, near, source, 0)
    BY <2>1, <2>4 DEF CircleDone
  <2> QED
    BY <1>1, <2>5
<1>3. i \in 1..n /\ i - 1 \in 0..n /\ ~(i <= i - 1)
  BY <1>1, <1>2
<1>4. CircleDone(routes, walks, near, source, i - 1)
  BY <1>1, <1>3
<1>5. CircleDone(routes, walks, near, source, i)
  BY <1>3, <1>4, CircleAfter
<1> QED
  BY <1>1, <1>5

\* For any rows, any source and target and any number of hops.
LEMMA ShortestAre ==
  ASSUME NEW rows, HavePairs(rows), NEW source, NEW target, NEW n \in Nat,
         NEW leading, leading = Leading(rows, source, target, n)
  PROVE  ShortestRoutes(rows, source, target, n) = Fewest(leading)
<1>1. PICK near : near = Within(rows, {source}, n)
  OBVIOUS
<1>2. PICK walks : /\ AreWalks(walks, rows, source, n)
                   /\ \A w : w \in WalksFrom(rows, source, n) <=> \E i \in 0..n : w \in walks[i]
  BY WalksAre
<1>3. PICK routes :
        /\ \A r : r \in ShortestRoutes(rows, source, target, n) <=>
             \E i \in 0..n : target \in Circle(near, source, i) /\ r \in routes[i][target]
        /\ AreRoutes(routes, rows, near, source, n)
  BY <1>1, RoutesAre
<1>4. \A r : r \in leading <=> \E i \in 0..n : Comes(walks[i], target, r)
  BY <1>2 DEF Leading, Comes
<1>5. ASSUME NEW i \in 0..n, target \in Circle(near, source, i), NEW r
      PROVE  r \in routes[i][target] <=> Comes(walks[i], target, r)
  BY <1>1, <1>2, <1>3, <1>5, RoutesLead
<1>6. ASSUME NEW i \in 0..n, NEW r, Comes(walks[i], target, r)
      PROVE  Len(r) = i /\ Arrives(walks, i, target)
  BY <1>2, <1>6, WalksCount DEF Comes, Counted, Arrives
<1>7. ASSUME NEW r, r \in ShortestRoutes(rows, source, target, n)
      PROVE  r \in leading /\ \A v \in leading : Len(r) <= Len(v)
  <2>1. PICK i \in 0..n : target \in Circle(near, source, i) /\ r \in routes[i][target]
    BY <1>3, <1>7
  <2>2. Comes(walks[i], target, r) /\ Len(r) = i
    BY <1>5, <1>6, <2>1
  <2>3. ASSUME NEW v \in leading PROVE Len(r) <= Len(v)
    <3>1. PICK m \in 0..n : Comes(walks[m], target, v)
      BY <1>4
    <3>2. Len(v) = m /\ Arrives(walks, m, target)
      BY <1>6, <3>1
    <3>3. ~(m < i)
      BY <1>1, <1>2, <2>1, <3>2, CirclesAre
    <3> QED
      BY <2>2, <3>2, <3>3
  <2> QED
    BY <1>4, <2>2, <2>3
<1>8. ASSUME NEW r \in leading, \A v \in leading : Len(r) <= Len(v)
      PROVE  r \in ShortestRoutes(rows, source, target, n)
  <2>1. PICK i \in 0..n : Comes(walks[i], target, r)
    BY <1>4
  <2>2. Len(r) = i /\ Arrives(walks, i, target)
    BY <1>6, <2>1
  <2>3. ASSUME NEW m \in 0..n, m < i, Arrives(walks, m, target) PROVE FALSE
    <3>1. PICK x \in walks[m] : x.at = target
      BY <2>3 DEF Arrives
    <3>2. Comes(walks[m], target, x.rows)
      BY <3>1 DEF Comes
    <3>3. x.rows \in leading /\ Len(x.rows) = m
      BY <1>4, <1>6, <3>2
    <3> QED
      BY <1>8, <2>2, <2>3, <3>3
  <2>4. target \in Circle(near, source, i)
    BY <1>1, <1>2, <2>2, <2>3, CirclesAre
  <2>5. r \in routes[i][target]
    BY <1>5, <2>1, <2>4
  <2> QED
    BY <1>3, <2>4, <2>5
<1> QED
  BY <1>7, <1>8 DEF Fewest

\* The service's routes are all the shortest walks, over whatever the projection holds.
THEOREM RoutesAreTheShortest == GraphSpec => []RoutesAreShortest
<1>1. ASSUME WorkInv PROVE RoutesAreShortest
  <2>1. HavePairs(Base(NoWindow))
    BY <1>1 DEF HavePairs, Base, WorkInv, TableOK, WellFormed
  <2>2. \A hops \in 1..MaxPathHops : hops \in Nat
    BY QueryAssumption DEF QueryAssumption
  <2> QED
    BY <2>1, <2>2, ShortestAre DEF RoutesAreShortest
<1>2. GraphSpec => [](IInv /\ WorkInv)
  <2>1. WorkInv /\ IInv' /\ [GraphNext]_graphVars => WorkInv'
    BY WorkStep DEF GraphNext, graphVars
  <2>2. GraphInit /\ IInv => WorkInv
    BY WorkStart DEF GraphInit
  <2> QED
    BY <2>1, <2>2, GraphIsProjection, ProjectionLedger, PTL DEF GraphSpec
<1> QED
  BY <1>1, <1>2, PTL
-----------------------------------------------------------------------------
\* A set of pairs of claims is no larger than the set of relations it is read off, and
\* what is read off fewer relations is fewer pairs.
LEMMA PairsCount ==
  ASSUME NEW S, NEW T, IsFiniteSet(T), S \subseteq T
  PROVE  /\ IsFiniteSet({EndsOfRelation(r) : r \in T})
         /\ Cardinality({EndsOfRelation(r) : r \in S}) <= Cardinality({EndsOfRelation(r) : r \in T})
<1> DEFINE pairs == {EndsOfRelation(r) : r \in T}
           ends == [r \in T |-> EndsOfRelation(r)]
<1>1. ends \in Surjection(T, pairs)
  BY DEF Surjection
<1>2. IsFiniteSet(pairs)
  BY <1>1, FS_Surjection
<1>3. {EndsOfRelation(r) : r \in S} \in SUBSET pairs
  OBVIOUS
<1> HIDE DEF pairs
<1>4. Cardinality({EndsOfRelation(r) : r \in S}) <= Cardinality(pairs)
  BY <1>2, <1>3, FS_Subset
<1> QED
  BY <1>2, <1>4 DEF pairs

\* What the canvas indexes of a claim is part of what the panel finds, and all of it when
\* the claims that disagree are drawn.
LEMMA IndexedIsRelated ==
  ASSUME NEW visible, NEW k \in visible, NEW kind
  PROVE  /\ {r \in RelationIndex(visible)[k] : r.relation = kind} \subseteq RelatedTo(k, kind)
         /\ (\A r \in relations : k \in EndsOfRelation(r) => EndsOfRelation(r) \subseteq visible)
              => {r \in RelationIndex(visible)[k] : r.relation = kind} = RelatedTo(k, kind)
BY DEF RelationIndex, RelatedTo

\* The two counts of the same claims.
LEMMA CountsAgree ==
  ASSUME IsFiniteSet(relations), NEW visible, NEW ks \in SUBSET visible
  PROVE  /\ AtMost(SupportSummary(ks, RelationIndex(visible)), PanelSupport(ks))
         /\ (\A r \in relations : EndsOfRelation(r) \cap ks # {} => EndsOfRelation(r) \subseteq visible)
              => SupportSummary(ks, RelationIndex(visible)) = PanelSupport(ks)
<1> DEFINE index == RelationIndex(visible)
           drawn(k, kind) == {r \in index[k] : r.relation = kind}
           drawnOfAll(kind) == {r \in UNION {index[k] : k \in ks} : r.relation = kind}
           foundOfAll(kind) == UNION {RelatedTo(k, kind) : k \in ks}
<1>1. \A k \in ks, kind \in Kinds :
        drawn(k, kind) \subseteq RelatedTo(k, kind) /\ RelatedTo(k, kind) \subseteq relations
  <2>1. ASSUME NEW k \in ks, NEW kind \in Kinds
        PROVE  {r \in RelationIndex(visible)[k] : r.relation = kind} \subseteq RelatedTo(k, kind)
    BY IndexedIsRelated
  <2>2. \A k, kind : RelatedTo(k, kind) \subseteq relations
    BY DEF RelatedTo
  <2> QED
    BY <2>1, <2>2
<1>2. \A kind \in Kinds : drawnOfAll(kind) = UNION {drawn(k, kind) : k \in ks}
  OBVIOUS
<1>3. /\ DOMAIN SupportSummary(ks, index).claims = ks
      /\ \A kind \in Kinds :
           /\ SupportSummary(ks, index).counts[kind] =
                Cardinality({EndsOfRelation(r) : r \in drawnOfAll(kind)})
           /\ PanelSupport(ks).counts[kind] =
                Cardinality({EndsOfRelation(r) : r \in foundOfAll(kind)})
           /\ \A k \in ks :
                /\ SupportSummary(ks, index).claims[k][kind] = Cardinality(drawn(k, kind))
                /\ PanelSupport(ks).claims[k][kind] = Cardinality(RelatedTo(k, kind))
  BY DEF SupportSummary, PanelSupport
<1>4. AtMost(SupportSummary(ks, index), PanelSupport(ks))
  <2> HIDE DEF index, drawn, drawnOfAll, foundOfAll
  <2>1. ASSUME NEW kind \in Kinds, NEW k \in ks
        PROVE  Cardinality(drawn(k, kind)) <= Cardinality(RelatedTo(k, kind))
    <3>1. IsFiniteSet(RelatedTo(k, kind))
      BY <1>1, FS_Subset
    <3> QED
      BY <1>1, <3>1, FS_Subset
  <2>2. ASSUME NEW kind \in Kinds
        PROVE  Cardinality({EndsOfRelation(r) : r \in drawnOfAll(kind)})
                 <= Cardinality({EndsOfRelation(r) : r \in foundOfAll(kind)})
    <3>1. drawnOfAll(kind) \subseteq foundOfAll(kind) /\ foundOfAll(kind) \subseteq relations
      BY <1>1, <1>2 DEF foundOfAll
    <3>2. IsFiniteSet(foundOfAll(kind))
      BY <3>1, FS_Subset
    <3> QED
      BY <3>1, <3>2, PairsCount
  <2>3. PICK canvas, panel : canvas = SupportSummary(ks, index) /\ panel = PanelSupport(ks)
    OBVIOUS
  <2>4. \A kind \in Kinds : canvas.counts[kind] <= panel.counts[kind]
    BY <1>3, <2>2, <2>3
  <2>5. DOMAIN canvas.claims = ks
    BY <1>3, <2>3
  <2>6. ASSUME NEW kind \in Kinds, NEW k \in ks
        PROVE  canvas.claims[k][kind] <= panel.claims[k][kind]
    BY <1>3, <2>1, <2>3
  <2>7. AtMost(canvas, panel)
    BY <2>4, <2>5, <2>6 DEF AtMost
  <2> QED
    BY <2>3, <2>7
<1>5. ASSUME \A r \in relations : EndsOfRelation(r) \cap ks # {} => EndsOfRelation(r) \subseteq visible
      PROVE  SupportSummary(ks, index) = PanelSupport(ks)
  <2>1. \A k \in ks, kind \in Kinds : drawn(k, kind) = RelatedTo(k, kind)
    BY <1>5, IndexedIsRelated
  <2>2. \A kind \in Kinds : drawnOfAll(kind) = foundOfAll(kind)
    BY <1>2, <2>1
  <2>3. [k \in ks |-> [kind \in Kinds |-> Cardinality(drawn(k, kind))]]
          = [k \in ks |-> [kind \in Kinds |-> Cardinality(RelatedTo(k, kind))]]
    BY <2>1
  <2>4. [kind \in Kinds |-> Cardinality({EndsOfRelation(r) : r \in drawnOfAll(kind)})]
          = [kind \in Kinds |-> Cardinality({EndsOfRelation(r) : r \in foundOfAll(kind)})]
    BY <2>2
  <2> QED
    BY <2>3, <2>4 DEF SupportSummary, PanelSupport
<1> QED
  BY <1>4, <1>5

\* The canvas never reports a disagreement that the panel has not, and reports all of them
\* when the claims that disagree are drawn too, although support_summary counts over the
\* canvas and _relation_ids over the table.
THEOREM CountsAlwaysAgree == SupportSpec => []CanvasAndPanelAgree
<1>1. IsFiniteSet(relations) /\ [SupportNext]_supportVars => IsFiniteSet(relations)'
  <2>1. ASSUME IsFiniteSet(relations), NEW k, NEW l, NEW kind, LinkClaims(k, l, kind)
        PROVE  IsFiniteSet(relations)'
    BY <2>1, FS_AddElement DEF LinkClaims
  <2> QED
    BY <2>1 DEF SupportNext, supportVars
<1>2. relations = {} => IsFiniteSet(relations)
  BY FS_EmptySet
<1>3. IsFiniteSet(relations) => CanvasAndPanelAgree
  <2> SUFFICES ASSUME IsFiniteSet(relations), NEW canvas \in SUBSET Base(NoWindow), NEW row \in canvas
               PROVE  LET ks == row.claims \cap VisibleOn(canvas)
                      IN  /\ AtMost(SupportOn(canvas, row), PanelSupport(ks))
                          /\ AllOnCanvas(canvas, ks) => SupportOn(canvas, row) = PanelSupport(ks)
    BY DEF CanvasAndPanelAgree
  <2> QED
    BY CountsAgree DEF SupportOn, AllOnCanvas
<1> QED
  BY <1>1, <1>2, <1>3, PTL DEF SupportSpec
=============================================================================
