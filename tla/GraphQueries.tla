---------------------------- MODULE GraphQueries ----------------------------
(***************************************************************************)
(* Reading the projection (aegis/queries/graph.py): an expansion from      *)
(* seeds, hop by hop within a budget of nodes and edges, the overview      *)
(* without seeds, and the shortest routes between two entities.            *)
(*                                                                         *)
(* An expansion is a series of statements (READ COMMITTED): the seeds      *)
(* against the map, one query a hop, the claims behind the edges, and the  *)
(* stamps last, while decisions and rebuilds commit.  It writes nothing,   *)
(* so one is enough.  Categories and labels are left out; the order of     *)
(* rows, by generated ids, is any order.  The caller is not an auditor.    *)
(***************************************************************************)
EXTENDS EdgeProjection, Sequences

CONSTANTS
  Readable,      \* the claims the caller's claim_filters let through
  MaxHops,       \* MAX_HOPS
  MaxElements,   \* MAX_ELEMENTS
  MaxPathHops    \* MAX_PATH_HOPS

ASSUME QueryAssumption ==
  {MaxHops, MaxElements, MaxPathHops} \subseteq Nat \ {0}

VARIABLES walk   \* the expansion at work, and its answer

graphVars == <<projectionVars, walk>>

Clamped(n, low, high) == IF n < low THEN low ELSE IF n > high THEN high ELSE n

\* _visible_edges: one of the claims behind the edge is readable, and not retracted.
Visible(row) == \E k \in claims : k.id \in row.claims \cap Readable /\ ~k.retracted

\* _time_overlap
Overlaps(row, w) ==
  /\ w.to # Unbounded /\ row.from # Unbounded => row.from <= w.to
  /\ w.from # Unbounded /\ row.to # Unbounded => row.to >= w.from

\* _base_query
Base(w) == {row \in projected : Visible(row) /\ Overlaps(row, w)}

EndsOf(rows) == UNION {row.edge.ends : row \in rows}
Incident(rows, es) == {row \in rows : row.edge.ends \cap es # {}}

\* What _Budget counts.
Size(rows, reached) == Cardinality(rows) + Cardinality(reached \cup EndsOf(rows))

\* What _breadth_first takes of a hop's rows: all, or those before one that does not fit.
Taken(collected, reached, rows, max) ==
  {taken \in SUBSET rows :
     /\ taken # {} => Size(collected \cup taken, reached) <= max
     /\ taken # rows => \E row \in rows \ taken :
                          Size(collected \cup taken \cup {row}, reached) > max}

\* What the overview takes of the rows it fetched: it passes over those that do not fit.
Overview(rows, max) ==
  UNION {{taken \in SUBSET fetched :
            /\ Size(taken, {}) <= max
            /\ \A row \in fetched \ taken : Size(taken \cup {row}, {}) > max}
         : fetched \in {f \in SUBSET rows : Cardinality(f) =
                          Clamped(Cardinality(rows), 0, max + 1)}}
-----------------------------------------------------------------------------
NoWindow == [from |-> Unbounded, to |-> Unbounded]
NoWalk == [stage |-> "idle", asked |-> 0, hops |-> 0, max |-> 0, window |-> NoWindow,
           seeds |-> {}, frontier |-> {}, rows |-> {}, truncated |-> FALSE,
           stale |-> FALSE, began |-> 0, disturbed |-> FALSE]

GraphInit == ProjectionInit /\ walk = NoWalk

Ask(seeds, hops, max, window) ==
  /\ walk.stage = "idle"
  /\ walk' = [NoWalk EXCEPT !.stage = "seeds", !.asked = hops, !.hops = Clamped(hops, 0, MaxHops),
                !.max = Clamped(max, 1, MaxElements), !.seeds = seeds, !.window = window,
                !.began = head]

\* _resolve_seeds: a seed that was absorbed stands for who it is now.
ResolveSeeds ==
  /\ walk.stage = "seeds"
  /\ LET resolved == {CanonicalIn(canonical, e) : e \in walk.seeds}
     IN  walk' = [walk EXCEPT !.stage = IF resolved = {} THEN "overview" ELSE "hops",
                    !.seeds = resolved, !.frontier = resolved]

TakeOverview ==
  /\ walk.stage = "overview"
  /\ \E taken \in Overview(Base(walk.window), walk.max) :
       walk' = [walk EXCEPT !.stage = "hydrate", !.rows = taken,
                  !.truncated = taken # Base(walk.window)]

\* The rows of the next hop that were not collected before, by edge_id.
Ahead ==
  {row \in Incident(Base(walk.window), walk.frontier) :
     \A old \in walk.rows : IdOf(old) # IdOf(row)}

\* Slip: a hop that does not fit ends the walk as if the graph had ended.
HopUntold ==
  /\ walk.stage = "hops" /\ walk.hops > 0 /\ walk.frontier # {}
  /\ LET reached == walk.seeds \cup EndsOf(walk.rows)
     IN  \E taken \in Taken(walk.rows, reached, Ahead, walk.max) :
           walk' = [walk EXCEPT !.rows = walk.rows \cup taken, !.hops = walk.hops - 1,
                      !.frontier = IF taken = Ahead THEN EndsOf(taken) \ reached ELSE {}]

\* One round of _breadth_first.
Hop ==
  /\ walk.stage = "hops" /\ walk.hops > 0 /\ walk.frontier # {} /\ ~walk.truncated
  /\ LET reached == walk.seeds \cup EndsOf(walk.rows)
     IN  \E taken \in Taken(walk.rows, reached, Ahead, walk.max) :
           walk' = [walk EXCEPT !.rows = walk.rows \cup taken, !.hops = walk.hops - 1,
                      !.frontier = EndsOf(taken) \ reached,
                      !.truncated = taken # Ahead]

\* _hydrate, when the rows are collected: those whose claims were all retracted
\* meanwhile are left out.
Hydrate ==
  /\ \/ walk.stage = "hydrate"
     \/ walk.stage = "hops" /\ (walk.hops = 0 \/ walk.frontier = {} \/ walk.truncated)
  /\ walk' = [walk EXCEPT !.stage = "stamps", !.frontier = {},
                !.rows = {row \in walk.rows : Visible(row)}]

\* Slip: the active revision is the one the walk began with.
StampOfBegin ==
  /\ walk.stage = "stamps"
  /\ walk' = [walk EXCEPT !.stage = "answered",
                !.stale = \E row \in projected : row.builtAt < walk.began]

\* projection_stamps
Stamp ==
  /\ walk.stage = "stamps"
  /\ walk' = [walk EXCEPT !.stage = "answered", !.stale = IsStale]

\* A rebuild or a retraction since the question was asked is remembered.
Noticed ==
  walk' = IF walk.stage = "idle" THEN walk
          ELSE [walk EXCEPT !.disturbed = walk.disturbed \/ projected' # projected \/ claims' # claims]

Read == ResolveSeeds \/ TakeOverview \/ Hop \/ Hydrate \/ Stamp

GraphNext ==
  \/ ProjectionNext /\ Noticed
  \/ Read /\ UNCHANGED projectionVars
  \/ /\ \E seeds \in SUBSET Entities, hops \in 0..MaxHops + 1, max \in 1..MaxElements + 1,
           window \in Windows : Ask(seeds, hops, max, window)
     /\ UNCHANGED projectionVars

GraphSpec == GraphInit /\ [][GraphNext]_graphVars
-----------------------------------------------------------------------------
\* depth: the entities within each number of hops of the sources.
Within(rows, sources, hops) ==
  LET within[n \in 0..hops] ==
        IF n = 0 THEN sources ELSE within[n - 1] \cup EndsOf(Incident(rows, within[n - 1]))
  IN  within

\* Slip: two entities are linked or they are not, as in a graph without parallel edges.
BetweenAny(rows, near, far) ==
  LET all == {row \in rows : row.edge.ends = {near, far}}
  IN  IF all = {} THEN {} ELSE {CHOOSE row \in all : TRUE}

\* parents: the rows that lead from one entity to the next.
Between(rows, near, far) == {row \in rows : row.edge.ends = {near, far}}

\* _shortest_paths: the routes through ever more distant entities.  Two ids of one
\* entity are linked by the empty route.
ShortestRoutes(rows, source, target, hops) ==
  LET within == Within(rows, {source}, hops)
      level(n) == IF n = 0 THEN {source} ELSE within[n] \ within[n - 1]
      routes[n \in 0..hops] ==
        IF n = 0 THEN [far \in {source} |-> {<<>>}]
        ELSE [far \in level(n) |->
                UNION {{Append(p[1], p[2]) : p \in routes[n - 1][near] \X Between(rows, near, far)}
                         : near \in level(n - 1)}]
  IN  UNION {routes[n][target] : n \in {x \in 0..hops : target \in level(x)}}
-----------------------------------------------------------------------------
Answered == walk.stage = "answered"

\* The canvas is bounded: the answer's edges and nodes together are within what the
\* caller asked for and within MAX_ELEMENTS, unless the seeds alone are more (_Budget).
AnswerWithinBudget ==
  Answered =>
    LET nodes == walk.seeds \cup EndsOf(walk.rows)
    IN  walk.rows # {} =>
          /\ Cardinality(walk.rows) + Cardinality(nodes) <= walk.max
          /\ walk.max <= MaxElements

\* What an expansion is about: the rows with a readable claim that hold on some day of
\* the window, up to so many hops from a seed; without seeds all of them.
Wanted(hops) ==
  LET rows == {row \in projected :
                 /\ \E k \in claims : k.id \in row.claims \cap Readable /\ ~k.retracted
                 /\ \E d \in Days : RowCovers(row, d) /\ RowCovers(walk.window, d)}
      near == Within(rows, walk.seeds, hops)
  IN  IF walk.seeds = {} THEN rows
      ELSE IF hops = 0 THEN {} ELSE Incident(rows, near[hops - 1])

\* A silently missing hop would look like an absence of evidence: an answer from one
\* state of the projection that is not called truncated lacks nothing within the hops
\* that the service allows, and no answer has more; a claim that was retracted since the
\* projection was built supports nothing (_breadth_first).
NothingMissingUnlessTold ==
  Answered /\ ~walk.disturbed =>
    /\ walk.rows \subseteq Wanted(Clamped(walk.asked, 0, MaxHops))
    /\ ~walk.truncated => walk.rows = Wanted(Clamped(walk.asked, 0, MaxHops))

\* The budget bounds the answer, and the answer says when it did.
AnswerIsWhatWasAsked == AnswerWithinBudget /\ NothingMissingUnlessTold

\* The stamps are honest about the walk (expand): what was decided while it was under
\* way shows, so that an answer that is not called stale is between the entities its
\* claims are about when it is given, unless the projection was rebuilt, or evidence was
\* retracted, under it (or as UnmarkedRowsAreCurrent says of late mentions).
AnsweredAsOfNow ==
  [][~Answered /\ Answered' /\ ~walk'.stale /\ ~walk'.disturbed =>
       \A row \in walk'.rows, k \in claims :
         k.id \in row.claims /\ ~OnAbsorbedSince(k) => CurrentEdge(k) = row.edge]_graphVars

\* Every walk of some number of rows from an entity, and where it leads.
WalksFrom(rows, source, hops) ==
  LET walks[n \in 0..hops] ==
        IF n = 0 THEN {[rows |-> <<>>, at |-> source]}
        ELSE UNION {{[rows |-> Append(p[1].rows, p[2]), at |-> e] : e \in p[2].edge.ends \ {p[1].at}}
                      : p \in {q \in walks[n - 1] \X rows : q[1].at \in q[2].edge.ends}}
  IN  UNION {walks[n] : n \in 0..hops}

Leading(rows, source, target, hops) ==
  {w.rows : w \in {x \in WalksFrom(rows, source, hops) : x.at = target}}
Fewest(walks) == {w \in walks : \A v \in walks : Len(w) <= Len(v)}

\* The routes between two entities are all those with the fewest hops, and none where
\* there is none within max_hops: parallel edges make as many routes (_shortest_paths).
RoutesAreShortest ==
  walk = NoWalk =>
    \A source, target \in Entities, hops \in 1..MaxPathHops :
      ShortestRoutes(Base(NoWindow), source, target, hops)
        = Fewest(Leading(Base(NoWindow), source, target, hops))
=============================================================================
