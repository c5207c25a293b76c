------------------------- MODULE CanonicalMapProofs -------------------------
(***************************************************************************)
(* The canonical map for any ledger: it is the replay of the decisions as  *)
(* long as no mention is attached at the revision of one that moves some,  *)
(* it leads to entities that hold mentions and stops there, undoing the    *)
(* last merge undoes what it did to the map, and a split queues the claims *)
(* it cannot attribute.  Where nothing was split, the map leads where the  *)
(* mentions went, so that the panel has what the graph draws.              *)
(*                                                                         *)
(* The replay and the chain that is followed are recursive functions.      *)
(* That they exist, agree and satisfy their equations goes by the least    *)
(* argument at which they would not (LeastOf).                             *)
(***************************************************************************)
EXTENDS Provenance, IdentityLedgerProofs, FiniteSetTheorems

\* The definition of the replay.
IsReplay(f, rows, ds, n) ==
  f = [rev \in 0..n |-> IF rev = 0 THEN NoLineage ELSE AfterRevision(rows, ds, rev, f[rev - 1])]

\* The lineage is what the replay chosen by its definition ends with.
LEMMA ReplayChosen ==
  ASSUME NEW rows, NEW ds, NEW n
  PROVE  LineageFromLedger(rows, ds, n) = (CHOOSE f : IsReplay(f, rows, ds, n))[n]
BY DEF LineageFromLedger, IsReplay

\* There is a replay of every length.
LEMMA ReplayExists ==
  ASSUME NEW rows, NEW ds
  PROVE  \A n \in Nat : \E f : IsReplay(f, rows, ds, n)
<1> DEFINE Bad == {n \in Nat : ~\E f : IsReplay(f, rows, ds, n)}
<1> SUFFICES ASSUME Bad # {} PROVE FALSE
  OBVIOUS
<1>1. PICK n \in Bad : \A x \in Bad : n <= x
  <2> HIDE DEF Bad
  <2>1. Bad \in SUBSET Nat
    BY DEF Bad
  <2> QED
    BY <2>1, LeastOf
<1>2. n # 0
  <2>1. IsReplay([rev \in 0..0 |-> NoLineage], rows, ds, 0)
    BY DEF IsReplay
  <2> QED
    BY <1>1, <2>1
<1>3. PICK f : IsReplay(f, rows, ds, n - 1)
  <2>1. n \in Nat /\ n - 1 \in Nat /\ ~(n <= n - 1)
    BY <1>1, <1>2
  <2>2. n - 1 \notin Bad
    BY <1>1, <2>1
  <2> QED
    BY <2>1, <2>2
<1> DEFINE g == [rev \in 0..n |-> IF rev = n THEN AfterRevision(rows, ds, n, f[n - 1]) ELSE f[rev]]
<1>4. \A rev \in 0..n : g[rev] = IF rev = 0 THEN NoLineage ELSE AfterRevision(rows, ds, rev, g[rev - 1])
  <2> SUFFICES ASSUME NEW rev \in 0..n
               PROVE  g[rev] = IF rev = 0 THEN NoLineage ELSE AfterRevision(rows, ds, rev, g[rev - 1])
    OBVIOUS
  <2>1. n \in Nat /\ n > 0
    BY <1>1, <1>2
  <2>2. \A k \in 0..(n - 1) : f[k] = IF k = 0 THEN NoLineage ELSE AfterRevision(rows, ds, k, f[k - 1])
    BY <1>3 DEF IsReplay
  <2>3. \A k \in 0..(n - 1) : g[k] = f[k]
    BY <2>1
  <2>4. CASE rev = n
    <3>1. g[n] = AfterRevision(rows, ds, n, f[n - 1])
      BY <2>1
    <3>2. g[n - 1] = f[n - 1]
      BY <2>1, <2>3
    <3> QED
      BY <2>1, <2>4, <3>1, <3>2
  <2>5. CASE rev # n
    <3>1. rev \in 0..(n - 1)
      BY <2>1, <2>5
    <3>2. rev # 0 => rev - 1 \in 0..(n - 1)
      BY <3>1, <2>1
    <3> HIDE DEF g
    <3> QED
      BY <2>2, <2>3, <3>1, <3>2
  <2> QED
    BY <2>4, <2>5
<1>5. IsReplay(g, rows, ds, n)
  BY <1>4 DEF IsReplay
<1> QED
  BY <1>1, <1>5

\* Two replays agree as far as their revisions do the same.
SameUpTo(rows, ds, others, es, n) ==
  \A rev \in 1..n : \A p : AfterRevision(rows, ds, rev, p) = AfterRevision(others, es, rev, p)

\* Replays of ledgers that do the same up to a revision agree up to it.
LEMMA ReplaysAgree ==
  ASSUME NEW rows, NEW ds, NEW others, NEW es, NEW m \in Nat, NEW n \in Nat, NEW k \in Nat,
         k <= m, k <= n, SameUpTo(rows, ds, others, es, k),
         NEW f, IsReplay(f, rows, ds, m), NEW g, IsReplay(g, others, es, n)
  PROVE  \A rev \in 0..k : f[rev] = g[rev]
<1> DEFINE Bad == {rev \in 0..k : f[rev] # g[rev]}
<1> SUFFICES ASSUME Bad # {} PROVE FALSE
  OBVIOUS
<1>1. PICK rev \in Bad : \A x \in Bad : rev <= x
  <2> HIDE DEF Bad
  <2>1. Bad \in SUBSET Nat
    BY DEF Bad
  <2> QED
    BY <2>1, LeastOf
<1>2. /\ \A x \in 0..m : f[x] = IF x = 0 THEN NoLineage ELSE AfterRevision(rows, ds, x, f[x - 1])
      /\ \A x \in 0..n : g[x] = IF x = 0 THEN NoLineage ELSE AfterRevision(others, es, x, g[x - 1])
  BY DEF IsReplay
<1>3. rev \in 0..k /\ rev \in 0..m /\ rev \in 0..n
  BY <1>1
<1>4. rev # 0
  BY <1>1, <1>2, <1>3
<1>5. rev - 1 \in 0..k /\ ~(rev <= rev - 1) /\ rev \in 1..k
  BY <1>3, <1>4
<1>6. f[rev - 1] = g[rev - 1]
  BY <1>1, <1>5
<1>7. f[rev] = AfterRevision(rows, ds, rev, f[rev - 1]) /\ g[rev] = AfterRevision(others, es, rev, g[rev - 1])
  BY <1>2, <1>3, <1>4
<1>8. f[rev] = g[rev]
  BY <1>5, <1>6, <1>7 DEF SameUpTo
<1> QED
  BY <1>1, <1>8

\* The recursion, as two equations.
LEMMA LineageSame ==
  ASSUME NEW rows, NEW ds, NEW others, NEW es, NEW n \in Nat, SameUpTo(rows, ds, others, es, n)
  PROVE  LineageFromLedger(rows, ds, n) = LineageFromLedger(others, es, n)
<1>1. PICK f : f = (CHOOSE x : IsReplay(x, rows, ds, n)) /\ IsReplay(f, rows, ds, n)
  BY ReplayExists
<1>2. PICK g : g = (CHOOSE x : IsReplay(x, others, es, n)) /\ IsReplay(g, others, es, n)
  BY ReplayExists
<1>3. f[n] = g[n]
  BY <1>1, <1>2, ReplaysAgree
<1> QED
  BY <1>1, <1>2, <1>3, ReplayChosen

\* At the baseline nobody was absorbed ...
LEMMA LineageAtZero ==
  ASSUME NEW rows, NEW ds
  PROVE  LineageFromLedger(rows, ds, 0) = NoLineage
<1>1. PICK f : f = (CHOOSE x : IsReplay(x, rows, ds, 0)) /\ IsReplay(f, rows, ds, 0)
  BY ReplayExists
<1>2. f[0] = NoLineage
  BY <1>1 DEF IsReplay
<1> QED
  BY <1>1, <1>2, ReplayChosen

\* ... and a revision applies its decision to the lineage before it.
LEMMA LineageAfter ==
  ASSUME NEW rows, NEW ds, NEW n \in Nat
  PROVE  LineageFromLedger(rows, ds, n + 1)
           = AfterRevision(rows, ds, n + 1, LineageFromLedger(rows, ds, n))
<1>1. PICK f : f = (CHOOSE x : IsReplay(x, rows, ds, n)) /\ IsReplay(f, rows, ds, n)
  BY ReplayExists
<1>2. PICK g : g = (CHOOSE x : IsReplay(x, rows, ds, n + 1)) /\ IsReplay(g, rows, ds, n + 1)
  BY ReplayExists
<1>3. f[n] = g[n]
  <2>1. SameUpTo(rows, ds, rows, ds, n)
    BY DEF SameUpTo
  <2>2. n + 1 \in Nat /\ n <= n + 1 /\ n <= n /\ n \in 0..n
    OBVIOUS
  <2> QED
    BY <1>1, <1>2, <2>1, <2>2, ReplaysAgree
<1>4. g[n + 1] = AfterRevision(rows, ds, n + 1, g[n])
  <2>1. n + 1 \in 0..(n + 1) /\ n + 1 # 0 /\ (n + 1) - 1 = n
    OBVIOUS
  <2>2. \A x \in 0..(n + 1) : g[x] = IF x = 0 THEN NoLineage
                                     ELSE AfterRevision(rows, ds, x, g[x - 1])
    BY <1>2 DEF IsReplay
  <2> QED
    BY <2>1, <2>2
<1> QED
  BY <1>1, <1>2, <1>3, <1>4, ReplayChosen

-----------------------------------------------------------------------------
\* What one revision does to a lineage over some entities leaves it one over them.
IsLineage(parent, es) ==
  /\ parent = [e \in DOMAIN parent |-> parent[e]]
  /\ DOMAIN parent \subseteq es
  /\ \A e \in DOMAIN parent : parent[e] \in es

\* Rows that name some entities lead from one of them to another.
LEMMA AfterIsLineage ==
  ASSUME NEW rows, NEW ds, NEW rev, NEW parent, NEW es, IsLineage(parent, es),
         \A row \in rows : row.entity \in es
  PROVE  IsLineage(AfterRevision(rows, ds, rev, parent), es)
<1>1. /\ OpenedAt(rows, rev) \subseteq es
      /\ ClosedAt(rows, rev) \subseteq es
  BY DEF OpenedAt, ClosedAt
<1>2. ASSUME NEW gained \in SUBSET es, NEW lost \in SUBSET es
      PROVE  IsLineage(AfterConfirm(parent, gained, lost), es)
  <2>1. CASE Cardinality(gained) = 1
    <3>1. gained # {}
      BY <2>1, FS_EmptySet
    <3>2. PICK w \in es : w = (CHOOSE e \in gained : TRUE)
      BY <3>1
    <3>3. AfterConfirm(parent, gained, lost)
            = [e \in DOMAIN parent \cup lost |-> IF e \in lost THEN w ELSE parent[e]]
      BY <2>1, <3>2 DEF AfterConfirm
    <3> QED
      BY <3>3 DEF IsLineage
  <2>2. CASE Cardinality(gained) # 1
    BY <2>2 DEF AfterConfirm
  <2> QED
    BY <2>1, <2>2
<1>3. ASSUME NEW gained
      PROVE  IsLineage(AfterSplit(parent, gained), es)
  <2>1. AfterSplit(parent, gained) = [e \in DOMAIN parent \ gained |-> parent[e]]
    BY DEF AfterSplit, Restrict
  <2> QED
    BY <2>1 DEF IsLineage
<1> QED
  BY <1>1, <1>2, <1>3 DEF AfterRevision

\* So does the whole replay.
LEMMA LineageOverRows ==
  ASSUME NEW rows, NEW ds, NEW es, \A row \in rows : row.entity \in es
  PROVE  \A n \in Nat : IsLineage(LineageFromLedger(rows, ds, n), es)
<1> DEFINE Bad == {n \in Nat : ~IsLineage(LineageFromLedger(rows, ds, n), es)}
<1> SUFFICES ASSUME Bad # {} PROVE FALSE
  OBVIOUS
<1>1. PICK n \in Bad : \A x \in Bad : n <= x
  <2> HIDE DEF Bad
  <2>1. Bad \in SUBSET Nat
    BY DEF Bad
  <2> QED
    BY <2>1, LeastOf
<1>2. n # 0
  <2>1. IsLineage(NoLineage, es)
    BY DEF IsLineage, NoLineage
  <2> QED
    BY <1>1, <2>1, LineageAtZero
<1>3. n - 1 \in Nat /\ ~(n <= n - 1) /\ (n - 1) + 1 = n
  BY <1>1, <1>2
<1>4. IsLineage(LineageFromLedger(rows, ds, n - 1), es)
  BY <1>1, <1>3
<1>5. LineageFromLedger(rows, ds, (n - 1) + 1)
        = AfterRevision(rows, ds, (n - 1) + 1, LineageFromLedger(rows, ds, n - 1))
  BY <1>3, LineageAfter
<1>6. IsLineage(LineageFromLedger(rows, ds, n), es)
  BY <1>3, <1>4, <1>5, AfterIsLineage
<1> QED
  BY <1>1, <1>6

-----------------------------------------------------------------------------
\* Following a chain never leaves a set that the lineage does not lead out of.
IsWalk(at, parent, entity, n) ==
  at = [k \in 0..n |->
          IF k = 0 THEN entity
          ELSE LET current == at[k - 1]
               IN  IF current \in DOMAIN parent THEN parent[current] ELSE current]

\* There is a walk along the lineage, of every length.
LEMMA WalkExists ==
  ASSUME NEW parent, NEW entity
  PROVE  \A n \in Nat : \E at : IsWalk(at, parent, entity, n)
<1> DEFINE Bad == {n \in Nat : ~\E at : IsWalk(at, parent, entity, n)}
           Next_(c) == IF c \in DOMAIN parent THEN parent[c] ELSE c
<1> SUFFICES ASSUME Bad # {} PROVE FALSE
  OBVIOUS
<1>1. PICK n \in Bad : \A x \in Bad : n <= x
  <2> HIDE DEF Bad
  <2>1. Bad \in SUBSET Nat
    BY DEF Bad
  <2> QED
    BY <2>1, LeastOf
<1>2. n # 0
  <2>1. IsWalk([k \in 0..0 |-> entity], parent, entity, 0)
    BY DEF IsWalk
  <2> QED
    BY <1>1, <2>1
<1>3. PICK f : IsWalk(f, parent, entity, n - 1)
  <2>1. n \in Nat /\ n - 1 \in Nat /\ ~(n <= n - 1)
    BY <1>1, <1>2
  <2>2. n - 1 \notin Bad
    BY <1>1, <2>1
  <2> QED
    BY <2>1, <2>2
<1> DEFINE g == [k \in 0..n |-> IF k = n THEN Next_(f[n - 1]) ELSE f[k]]
<1> HIDE DEF Next_
<1>4. \A k \in 0..n : g[k] = IF k = 0 THEN entity ELSE Next_(g[k - 1])
  <2> SUFFICES ASSUME NEW k \in 0..n PROVE g[k] = IF k = 0 THEN entity ELSE Next_(g[k - 1])
    OBVIOUS
  <2>1. n \in Nat /\ n > 0
    BY <1>1, <1>2
  <2>2. \A j \in 0..(n - 1) : f[j] = IF j = 0 THEN entity ELSE Next_(f[j - 1])
    BY <1>3 DEF IsWalk, Next_
  <2>3. \A j \in 0..(n - 1) : g[j] = f[j]
    BY <2>1
  <2>4. CASE k = n
    <3>1. g[n] = Next_(f[n - 1])
      BY <2>1
    <3>2. g[n - 1] = f[n - 1]
      BY <2>1, <2>3
    <3> QED
      BY <2>1, <2>4, <3>1, <3>2
  <2>5. CASE k # n
    <3>1. k \in 0..(n - 1)
      BY <2>1, <2>5
    <3>2. k # 0 => k - 1 \in 0..(n - 1)
      BY <3>1, <2>1
    <3> HIDE DEF g
    <3> QED
      BY <2>2, <2>3, <3>1, <3>2
  <2> QED
    BY <2>4, <2>5
<1>5. IsWalk(g, parent, entity, n)
  BY <1>4 DEF IsWalk, Next_
<1> QED
  BY <1>1, <1>5

\* A set that the lineage does not lead out of keeps what it resolves.
LEMMA ResolveStays ==
  ASSUME NEW parent, IsFiniteSet(DOMAIN parent), NEW S, NEW entity \in S,
         \A e \in S : e \in DOMAIN parent => parent[e] \in S
  PROVE  Resolve(parent, entity) \in S
<1> DEFINE N == Cardinality(DOMAIN parent)
<1>1. N \in Nat
  BY FS_CardinalityType
<1>2. Resolve(parent, entity) = (CHOOSE at : IsWalk(at, parent, entity, N))[N]
  BY DEF Resolve, IsWalk
<1> HIDE DEF N
<1>3. PICK at : at = (CHOOSE x : IsWalk(x, parent, entity, N)) /\ IsWalk(at, parent, entity, N)
  BY <1>1, WalkExists
<1> DEFINE Bad == {k \in 0..N : at[k] \notin S}
<1>4. Bad = {}
  <2> SUFFICES ASSUME Bad # {} PROVE FALSE
    OBVIOUS
  <2>1. PICK k \in Bad : \A x \in Bad : k <= x
    <3> HIDE DEF Bad
    <3>1. Bad \in SUBSET Nat
      BY <1>1 DEF Bad
    <3> QED
      BY <3>1, LeastOf
  <2>2. \A j \in 0..N : at[j] = IF j = 0 THEN entity
                                  ELSE IF at[j - 1] \in DOMAIN parent THEN parent[at[j - 1]]
                                       ELSE at[j - 1]
    BY <1>3 DEF IsWalk
  <2>3. k # 0
    BY <1>1, <2>1, <2>2
  <2>4. k - 1 \in 0..N /\ ~(k <= k - 1)
    BY <1>1, <2>1, <2>3
  <2>5. at[k - 1] \in S
    BY <2>1, <2>4
  <2> QED
    BY <2>1, <2>2, <2>3, <2>5
<1>5. at[N] \in S
  BY <1>1, <1>4
<1> QED
  BY <1>2, <1>3, <1>5

\* An entity nobody absorbed resolves to itself.
LEMMA ResolveOutside ==
  ASSUME NEW parent, IsFiniteSet(DOMAIN parent), NEW entity, entity \notin DOMAIN parent
  PROVE  Resolve(parent, entity) = entity
BY ResolveStays, entity \in {entity}

-----------------------------------------------------------------------------
At(rev) == LineageFromLedger(memberships, decisions, rev)
Moving(d) == d.kind \in {"confirm", "split"}

\* Every row stays, or is closed by the decision; every other row is new.
LEMMA RowStays ==
  ASSUME Rows, MovesRows \/ OpensRows \/ KeepsRows, NEW row \in memberships
  PROVE  \E y \in memberships' :
           /\ y.mention = row.mention /\ y.entity = row.entity /\ y.opened = row.opened
           /\ y.closed = row.closed \/ (row.closed = Open /\ y.closed = head + 1 /\ MovesRows)
<1>1. CASE MovesRows
  <2>1. PICK ms \in SUBSET Mentions, target \in Entities :
          memberships' = Moved(ms, target, head + 1)
    BY <1>1 DEF MovesRows
  <2>2. CASE row \in Leaving(ms, target)
    <3>1. [mention |-> row.mention, entity |-> row.entity, opened |-> row.opened,
           closed |-> head + 1] \in memberships'
      BY <2>1, <2>2, MovedHas
    <3>2. row.closed = Open
      BY <2>2 DEF Leaving, Active
    <3> QED
      BY <1>1, <3>1, <3>2
  <2>3. CASE row \notin Leaving(ms, target)
    BY <2>1, <2>3, MovedHas
  <2> QED
    BY <2>2, <2>3
<1>2. CASE OpensRows
  BY <1>2 DEF OpensRows
<1>3. CASE KeepsRows
  BY <1>3 DEF KeepsRows
<1> QED
  BY <1>1, <1>2, <1>3

\* A row not opened by this step was there, and was open if it is closed now.
LEMMA RowWas ==
  ASSUME Rows, MovesRows \/ OpensRows \/ KeepsRows, NEW y \in memberships'
  PROVE  \/ \E row \in memberships :
              /\ y.mention = row.mention /\ y.entity = row.entity /\ y.opened = row.opened
              /\ y.closed = row.closed \/ (row.closed = Open /\ y.closed = head + 1 /\ MovesRows)
         \/ /\ y.opened = head' /\ y.closed = Open
            /\ MovesRows \/ (OpensRows /\ ~Resolved(y.mention))
<1>1. CASE MovesRows
  <2>1. PICK ms \in SUBSET Mentions, target \in Entities :
          memberships' = Moved(ms, target, head + 1)
    BY <1>1 DEF MovesRows
  <2>2. ASSUME NEW x \in Leaving(ms, target),
               y = [mention |-> x.mention, entity |-> x.entity, opened |-> x.opened,
                    closed |-> head + 1]
        PROVE  /\ y.mention = x.mention /\ y.entity = x.entity /\ y.opened = x.opened
               /\ x.closed = Open /\ y.closed = head + 1 /\ x \in memberships
    BY <2>2 DEF Leaving, Active
  <2>3. ASSUME NEW x \in Leaving(ms, target),
               y = [mention |-> x.mention, entity |-> target, opened |-> head + 1,
                    closed |-> Open]
        PROVE  y.opened = head' /\ y.closed = Open
    BY <1>1, <2>3 DEF MovesRows
  <2> QED
    BY <1>1, <2>1, <2>2, <2>3, MovedRow
<1>2. CASE OpensRows
  <2>1. CASE y \in memberships
    BY <2>1
  <2>2. CASE y \notin memberships
    <3>1. \E e, m : y \in Opening(e, m)
      BY <1>2, <2>2 DEF OpensRows
    <3> QED
      BY <1>2, <3>1, OpeningRow DEF OpensRows
  <2> QED
    BY <2>1, <2>2
<1>3. CASE KeepsRows
  BY <1>3 DEF KeepsRows
<1> QED
  BY <1>1, <1>2, <1>3

\* A step adds at most a decision, that results in the new head.
LEMMA DecisionsStep ==
  ASSUME IInv, [Next]_vars
  PROVE  /\ \/ decisions' = decisions /\ head' = head
            \/ /\ head' = head + 1
               /\ \E d : d.revision = head + 1 /\ decisions' = decisions \cup {d}
         /\ head \in Nat
         /\ \A d \in decisions' : d.revision <= head <=> d \in decisions
<1>1. head \in Nat
  BY LedgerAssumption DEF IInv, TypeOK, LedgerAssumption
<1>2. \/ decisions' = decisions /\ head' = head
      \/ /\ head' = head + 1
         /\ \E d : d.revision = head + 1 /\ decisions' = decisions \cup {d}
  <2>1. ASSUME NEW kind, NEW parent, NEW inputs, OpenDecision(kind, parent, inputs)
        PROVE  /\ head' = head + 1
               /\ \E d : d.revision = head + 1 /\ decisions' = decisions \cup {d}
    <3>1. PICK d : d = [kind |-> kind, parent |-> parent, inputs |-> inputs,
                        revision |-> head + 1]
      OBVIOUS
    <3>2. d.revision = head + 1 /\ decisions' = decisions \cup {d} /\ head' = head + 1
      BY <2>1, <3>1 DEF OpenDecision
    <3> QED
      BY <3>2
  <2>2. CASE UNCHANGED vars
    BY <2>2 DEF vars
  <2>3. CASE Record
    BY <2>3 DEF Record, RecordClaim, RetractClaim
  <2>4. ASSUME NEW parent \in 0..MaxRevision, Adjudicate(parent)
        PROVE  \E kind, inputs : OpenDecision(kind, parent, inputs)
    BY <2>4 DEF Adjudicate, ConfirmMatch, RejectMatch, MarkUnresolved, SplitEntity
  <2> QED
    BY <2>1, <2>2, <2>3, <2>4 DEF Next
<1>3. \A d \in decisions : d.revision <= head
  BY <1>1 DEF IInv, Stamps
<1> QED
  BY <1>1, <1>2, <1>3

\* Every step does to the rows one of three things.
LEMMA SomeStep ==
  ASSUME IInv, [Next]_vars
  PROVE  MovesRows \/ OpensRows \/ KeepsRows
BY StepOnRows, LedgerAssumption DEF IInv, TypeOK, LedgerAssumption

\* No late mention comes at the revision of a decision that moved mentions.
LEMMA LateElsewhere ==
  ASSUME IInv, [Next]_vars, NoLateMentionAtDecision', OpensRows, memberships' # memberships,
         NEW d \in decisions, d.revision = head
  PROVE  ~Moving(d)
<1> SUFFICES ASSUME Moving(d) PROVE FALSE
  OBVIOUS
<1>1. PICK y \in memberships' : y \notin memberships
  BY DEF OpensRows
<1>2. y.opened = head /\ ~Resolved(y.mention)
  <2>1. \E e, m : y \in Opening(e, m)
    BY <1>1 DEF OpensRows
  <2> QED
    BY <2>1, OpeningRow
<1>3. d \in decisions' /\ head \in Nat /\ d.revision \in 1..head
  BY DecisionsStep DEF IInv, Stamps, OpensRows
<1>4. PICK x \in memberships' : x.mention = y.mention /\ x.closed = head
  BY <1>1, <1>2, <1>3 DEF NoLateMentionAtDecision, Moving
<1>5. x.closed # Open
  BY <1>3, <1>4 DEF Open
<1>6. \E row \in memberships : row.mention = x.mention
  BY <1>5, RowWas DEF IInv
<1>7. Resolved(y.mention)
  BY <1>4, <1>6 DEF IInv, OneEntityPerMention, Resolved
<1> QED
  BY <1>2, <1>7

\* A revision closes nothing any more, and opens nothing but late mentions.
LEMMA ClosedAtStays ==
  ASSUME IInv, [Next]_vars, NEW k \in 1..head
  PROVE  ClosedAt(memberships', k) = ClosedAt(memberships, k)
<1>1. head \in Nat /\ Rows /\ (MovesRows \/ OpensRows \/ KeepsRows)
  BY DecisionsStep, SomeStep DEF IInv
<1>2. k # Open /\ k # head + 1 /\ k \in Nat
  BY <1>1 DEF Open
<1>3. ASSUME NEW y \in memberships', y.closed = k
      PROVE  \E row \in memberships : row.closed = k /\ row.entity = y.entity
  BY <1>1, <1>2, <1>3, RowWas
<1>4. ASSUME NEW row \in memberships, row.closed = k
      PROVE  \E y \in memberships' : y.closed = k /\ row.entity = y.entity
  BY <1>1, <1>2, <1>4, RowStays
<1> QED
  BY <1>2, <1>3, <1>4 DEF ClosedAt

\* What was opened at a past revision stays what it was, but for late mentions.
LEMMA OpenedAtStays ==
  ASSUME IInv, [Next]_vars, NEW k \in 1..head,
         memberships' = memberships \/ k < head \/ ~OpensRows
  PROVE  OpenedAt(memberships', k) = OpenedAt(memberships, k)
<1>1. head \in Nat /\ Rows /\ (MovesRows \/ OpensRows \/ KeepsRows)
  BY DecisionsStep, SomeStep DEF IInv
<1>2. k \in Nat /\ k # head + 1 /\ k <= head
  BY <1>1
<1>3. ASSUME NEW y \in memberships', y.opened = k
      PROVE  \E row \in memberships : row.opened = k /\ row.entity = y.entity
  <2>1. y.opened = head' => y \in memberships
    <3>1. CASE MovesRows
      BY <1>2, <1>3, <3>1 DEF MovesRows
    <3>2. CASE KeepsRows
      BY <3>2 DEF KeepsRows
    <3>3. CASE OpensRows
      BY <1>1, <1>2, <1>3, <3>3 DEF OpensRows
    <3> QED
      BY <1>1, <3>1, <3>2, <3>3
  <2> QED
    BY <1>1, <1>3, <2>1, RowWas
<1>4. ASSUME NEW row \in memberships, row.opened = k
      PROVE  \E y \in memberships' : y.opened = k /\ row.entity = y.entity
  BY <1>1, <1>4, RowStays
<1> QED
  BY <1>3, <1>4 DEF OpenedAt

\* The past of the lineage is frozen, and so is its present but for late mentions.
LEMMA LineageStays ==
  ASSUME IInv, [Next]_vars, NEW rev \in Nat,
         rev < head \/ (rev = head /\ (OpensRows => NoLateMentionAtDecision'))
  PROVE  At(rev)' = At(rev)
<1>1. head \in Nat /\ rev <= head /\ Rows /\ (MovesRows \/ OpensRows \/ KeepsRows)
  BY DecisionsStep, SomeStep DEF IInv
<1>2. ASSUME NEW k \in 1..rev
      PROVE  {d.kind : d \in {x \in decisions' : x.revision = k}}
               = {d.kind : d \in {x \in decisions : x.revision = k}}
  <2>1. {x \in decisions' : x.revision = k} = {x \in decisions : x.revision = k}
    BY <1>1, DecisionsStep
  <2> QED
    BY <2>1
<1>3. ASSUME NEW k \in 1..rev
      PROVE  ClosedAt(memberships', k) = ClosedAt(memberships, k)
  BY <1>1, ClosedAtStays
<1>4. ASSUME NEW k \in 1..rev, memberships' = memberships \/ k < head \/ ~OpensRows
      PROVE  OpenedAt(memberships', k) = OpenedAt(memberships, k)
  BY <1>1, <1>4, OpenedAtStays
<1>5. ASSUME NEW k \in 1..rev, NEW p
      PROVE  AfterRevision(memberships', decisions', k, p)
               = AfterRevision(memberships, decisions, k, p)
  <2>1. CASE memberships' = memberships \/ k < head \/ ~OpensRows
    BY <1>2, <1>3, <1>4, <2>1 DEF AfterRevision
  <2>2. CASE memberships' # memberships /\ ~(k < head) /\ OpensRows
    <3>1. k = head /\ rev = head
      BY <1>1, <2>2
    <3>2. \A d \in decisions : d.revision = k => ~Moving(d)
      BY <1>1, <2>2, <3>1, LateElsewhere
    <3>3. /\ "confirm" \notin {d.kind : d \in {x \in decisions : x.revision = k}}
          /\ "split" \notin {d.kind : d \in {x \in decisions : x.revision = k}}
      BY <3>2 DEF Moving
    <3> QED
      BY <1>2, <3>3 DEF AfterRevision
  <2> QED
    BY <2>1, <2>2
<1>6. SameUpTo(memberships', decisions', memberships, decisions, rev)
  BY <1>5 DEF SameUpTo
<1> QED
  BY <1>6, LineageSame DEF At

\* What was late stays late, and what was on an absorbed entity stays there.
LEMMA LateStays ==
  ASSUME IInv, [Next]_vars, NoLateMentionAtDecision'
  PROVE  NoLateMentionAtDecision
<1>1. head \in Nat /\ Rows /\ (MovesRows \/ OpensRows \/ KeepsRows)
  BY DecisionsStep, SomeStep DEF IInv
<1> SUFFICES ASSUME NEW row \in memberships, NEW d \in decisions,
                    d.kind \in {"confirm", "split"}, d.revision = row.opened
             PROVE  \E x \in memberships : x.mention = row.mention /\ x.closed = row.opened
  BY DEF NoLateMentionAtDecision
<1>2. PICK y \in memberships' : y.mention = row.mention /\ y.opened = row.opened
  BY <1>1, RowStays
<1>3. d \in decisions' /\ d.revision \in 1..head
  BY DecisionsStep DEF IInv, Stamps
<1>4. PICK x \in memberships' : x.mention = row.mention /\ x.closed = row.opened
  BY <1>2, <1>3 DEF NoLateMentionAtDecision
<1>5. x.closed # Open /\ x.closed # head + 1
  BY <1>1, <1>3, <1>4 DEF Open
<1> QED
  BY <1>1, <1>4, <1>5, RowWas

\* A mention on an absorbed entity stays on record.
LEMMA OnAbsorbedStays ==
  ASSUME IInv, [Next]_vars, NoLateMentionAtDecision', NoMentionOnAbsorbedEntity'
  PROVE  NoMentionOnAbsorbedEntity
<1>1. head \in Nat /\ Rows /\ (MovesRows \/ OpensRows \/ KeepsRows)
  BY DecisionsStep, SomeStep DEF IInv
<1> SUFFICES ASSUME NEW row \in memberships
             PROVE  row.entity \notin DOMAIN At(row.opened)
  BY DEF NoMentionOnAbsorbedEntity, At
<1>2. PICK y \in memberships' : y.entity = row.entity /\ y.opened = row.opened
  BY <1>1, RowStays
<1>3. PICK rev \in Nat : rev = row.opened /\ rev <= head
  BY <1>1, LedgerAssumption DEF Rows, Membership, LedgerAssumption
<1>4. At(rev)' = At(rev)
  BY <1>1, <1>3, LineageStays
<1>5. y.entity \notin DOMAIN LineageFromLedger(memberships', decisions', y.opened)
  BY DEF NoMentionOnAbsorbedEntity
<1> QED
  BY <1>2, <1>3, <1>4, <1>5 DEF At

-----------------------------------------------------------------------------
\* What a decision moves is what its revision opens and closes.
LEMMA MovedAt ==
  ASSUME Rows, NEW ms \in SUBSET Mentions, NEW target \in Entities
  PROVE  /\ OpenedAt(Moved(ms, target, head + 1), head + 1)
              = {e \in {target} : Leaving(ms, target) # {}}
         /\ ClosedAt(Moved(ms, target, head + 1), head + 1) = {x.entity : x \in Leaving(ms, target)}
<1> DEFINE rows == Moved(ms, target, head + 1)
<1>1. head \in Nat /\ head + 1 # Open
  BY LedgerAssumption DEF Rows, LedgerAssumption, Open
<1>2. \A row \in memberships : row.opened # head + 1 /\ row.closed # head + 1
  BY <1>1 DEF Rows, Membership
<1>3. ASSUME NEW row \in rows, row.opened = head + 1
      PROVE  row.entity = target /\ Leaving(ms, target) # {}
  BY <1>1, <1>2, <1>3, MovedRow DEF Leaving, Active
<1>4. ASSUME NEW row \in rows, row.closed = head + 1
      PROVE  \E x \in Leaving(ms, target) : x.entity = row.entity
  BY <1>1, <1>2, <1>4, MovedRow
<1>5. ASSUME NEW x \in Leaving(ms, target)
      PROVE  /\ \E row \in rows : row.opened = head + 1 /\ row.entity = target
             /\ \E row \in rows : row.closed = head + 1 /\ row.entity = x.entity
  BY MovedHas
<1> HIDE DEF rows
<1>6. OpenedAt(rows, head + 1) = {e \in {target} : Leaving(ms, target) # {}}
  BY <1>3, <1>5 DEF OpenedAt
<1>7. ClosedAt(rows, head + 1) = {x.entity : x \in Leaving(ms, target)}
  BY <1>1, <1>4, <1>5 DEF ClosedAt
<1> QED
  BY <1>6, <1>7 DEF rows

\* What a decision is of, is what its revision does to the lineage.
LEMMA DecisionLineage ==
  ASSUME IInv, [Next]_vars, ~OpensRows, NEW kind, NEW parent, NEW inputs,
         OpenDecision(kind, parent, inputs)
  PROVE  /\ kind = "confirm" =>
              Lineage' = AfterConfirm(Lineage, OpenedAt(memberships', head + 1),
                           ClosedAt(memberships', head + 1) \ OpenedAt(memberships', head + 1))
         /\ kind = "split" => Lineage' = AfterSplit(Lineage, OpenedAt(memberships', head + 1))
         /\ kind \in {"reject", "unresolved"} => Lineage' = Lineage
<1>1. head \in Nat /\ head' = head + 1
  BY DecisionsStep DEF OpenDecision
<1>2. LineageFromLedger(memberships', decisions', head) = Lineage
  BY <1>1, LineageStays DEF At, Lineage
<1>3. Lineage' = AfterRevision(memberships', decisions', head + 1, Lineage)
  BY <1>1, <1>2, LineageAfter DEF Lineage
<1>4. {d.kind : d \in {x \in decisions' : x.revision = head + 1}} = {kind}
  <2>1. PICK new : new = [kind |-> kind, parent |-> parent, inputs |-> inputs,
                          revision |-> head + 1]
    OBVIOUS
  <2>2. new.kind = kind /\ new.revision = head + 1 /\ decisions' = decisions \cup {new}
    BY <2>1 DEF OpenDecision
  <2>3. \A d \in decisions : d.revision # head + 1
    BY <1>1 DEF IInv, Stamps
  <2>4. {x \in decisions' : x.revision = head + 1} = {new}
    BY <2>2, <2>3
  <2> QED
    BY <2>2, <2>4
<1> QED
  BY <1>3, <1>4 DEF AfterRevision

\* A confirm takes everything from one entity and gives it to another.
LEMMA ConfirmShape ==
  ASSUME IInv, NEW parent, NEW x \in Mentions, NEW y \in Mentions, NEW c,
         ConfirmMatch(parent, x, y, c)
  PROVE  \E s, a \in Entities :
           /\ s # a /\ memberships' = Moved(MentionsOf(a), s, head + 1)
           /\ Leaving(MentionsOf(a), s) = {row \in Active : row.entity = a}
           /\ \E row \in Active : row.entity = a
           /\ \E row \in Active : row.entity = s
<1>1. PICK s \in Entities, a \in Entities :
        Belongs(x, s) /\ Belongs(y, a) /\ memberships' = Moved(MentionsOf(a), s, head + 1)
  BY DEF ConfirmMatch
<1>2. \A u, v \in Active : u.mention = v.mention => u = v
  BY DEF IInv, OneEntityPerMention, Active
<1>3. s # a
  <2> SUFFICES ASSUME s = a PROVE FALSE
    OBVIOUS
  <2>1. EntitiesOf({x, y}) = {s}
    BY <1>1, <1>2 DEF EntitiesOf, Belongs
  <2>2. Cardinality({s}) = 1
    BY FS_Singleton
  <2> QED
    BY <2>1, <2>2 DEF ConfirmMatch
<1>4. \A row \in Active : row.mention \in Mentions
  BY DEF IInv, Rows, Active, Membership
<1>5. Leaving(MentionsOf(a), s) = {row \in Active : row.entity = a}
  BY <1>2, <1>3, <1>4 DEF Leaving, MentionsOf, Belongs
<1> QED
  BY <1>1, <1>3, <1>5 DEF Belongs

\* A split takes some of what one entity holds, and leaves it some.
LEMMA SplitShape ==
  ASSUME IInv, NEW parent, NEW e \in entities, NEW ms \in SUBSET Mentions, NEW target \in Entities,
         SplitEntity(parent, e, ms, target)
  PROVE  /\ \A row \in Leaving(ms, target) : row.entity = e
         /\ \E row \in Active : row.entity = e /\ row \notin Leaving(ms, target)
         /\ target # e => Leaving(ms, target) # {}
         /\ target = e => Leaving(ms, target) = {}
<1>1. ms # {} /\ ms \subseteq MentionsOf(e) /\ ms # MentionsOf(e)
  BY DEF SplitEntity, MayLeave
<1>2. \A u, v \in Active : u.mention = v.mention => u = v
  BY DEF IInv, OneEntityPerMention, Active
<1>3. \A m \in ms : \E row \in Active : row.mention = m /\ row.entity = e
  BY <1>1 DEF MentionsOf, Belongs
<1>4. \A row \in Active : row.mention \in ms => row.entity = e
  BY <1>2, <1>3
<1>5. PICK m \in MentionsOf(e) : m \notin ms
  BY <1>1
<1>6. PICK row \in Active : row.mention = m /\ row.entity = e
  BY <1>5 DEF MentionsOf, Belongs
<1>7. row \notin Leaving(ms, target)
  BY <1>5, <1>6 DEF Leaving
<1> QED
  BY <1>1, <1>3, <1>4, <1>6, <1>7 DEF Leaving

\* What becomes of the lineage, then.
LEMMA ConfirmLineage ==
  ASSUME IInv, [Next]_vars, NEW parent, NEW x, NEW y, NEW c, ConfirmMatch(parent, x, y, c),
         NEW s \in Entities, NEW a \in Entities, s # a, memberships' = Moved(MentionsOf(a), s, head + 1),
         Leaving(MentionsOf(a), s) = {row \in Active : row.entity = a},
         \E row \in Active : row.entity = a
  PROVE  /\ OpenedAt(memberships', head + 1) = {s} /\ ClosedAt(memberships', head + 1) = {a}
         /\ Lineage' = [e \in DOMAIN Lineage \cup {a} |-> IF e \in {a} THEN s ELSE Lineage[e]]
<1>1. MentionsOf(a) \in SUBSET Mentions /\ Rows
  BY DEF MentionsOf, IInv
<1>2. OpenedAt(memberships', head + 1) = {s} /\ ClosedAt(memberships', head + 1) = {a}
  <2>1. /\ OpenedAt(memberships', head + 1) = {e \in {s} : Leaving(MentionsOf(a), s) # {}}
        /\ ClosedAt(memberships', head + 1) = {row.entity : row \in Leaving(MentionsOf(a), s)}
    BY <1>1, MovedAt
  <2>2. Leaving(MentionsOf(a), s) # {} /\ \A row \in Leaving(MentionsOf(a), s) : row.entity = a
    OBVIOUS
  <2>3. {row.entity : row \in Leaving(MentionsOf(a), s)} = {a}
    BY <2>2
  <2> QED
    BY <2>1, <2>2, <2>3
<1>3. OpenDecision("confirm", parent, {x, y}) /\ head \in Nat /\ head' = head + 1
  BY DecisionsStep DEF ConfirmMatch, OpenDecision
<1>4. Lineage' = AfterConfirm(Lineage, {s}, {a} \ {s})
  <2>1. ~OpensRows
    BY <1>3 DEF OpensRows
  <2>2. Lineage' = AfterConfirm(Lineage, OpenedAt(memberships', head + 1),
                     ClosedAt(memberships', head + 1) \ OpenedAt(memberships', head + 1))
    BY <1>3, <2>1, DecisionLineage
  <2> QED
    BY <1>2, <2>2
<1>5. Cardinality({s}) = 1 /\ (CHOOSE e \in {s} : TRUE) = s /\ {a} \ {s} = {a}
  BY FS_Singleton
<1> QED
  BY <1>2, <1>4, <1>5 DEF AfterConfirm

StandingUp(e, target) == {z \in {target} : target # e}

\* A split lets its target stand on its own, unless it moves nothing.
LEMMA SplitLineage ==
  ASSUME IInv, [Next]_vars, NEW parent, NEW e \in entities, NEW ms \in SUBSET Mentions,
         NEW target \in Entities, SplitEntity(parent, e, ms, target)
  PROVE  Lineage' = AfterSplit(Lineage, StandingUp(e, target))
<1>1. OpenDecision("split", parent, ms) /\ memberships' = Moved(ms, target, head + 1)
  BY DEF SplitEntity
<1>2. head \in Nat /\ head' = head + 1 /\ Rows
  BY <1>1, DecisionsStep DEF OpenDecision, IInv
<1>3. OpenedAt(memberships', head + 1) = StandingUp(e, target)
  BY <1>1, <1>2, MovedAt, SplitShape DEF StandingUp
<1> QED
  BY <1>1, <1>2, <1>3, DecisionLineage DEF OpensRows

-----------------------------------------------------------------------------
\* The map says what the ledger says, no chain is a cycle, and an entity that held a
\* mention holds one now or was absorbed.
MapOK ==
  /\ MapIsReplay
  /\ Replayable(Lineage, entities)
  /\ \A row \in memberships : row.entity \in DOMAIN Lineage \/ \E x \in Active : x.entity = row.entity

\* The lineage has as many entries as there are rows of entities, at most.
LEMMA LineageFinite ==
  ASSUME NEW rows, NEW ds, NEW es, es \subseteq Entities, \A row \in rows : row.entity \in es,
         NEW n \in Nat
  PROVE  /\ IsFiniteSet(DOMAIN LineageFromLedger(rows, ds, n))
         /\ DOMAIN LineageFromLedger(rows, ds, n) \subseteq es
<1>1. IsFiniteSet(es)
  BY LedgerAssumption, FS_Subset DEF LedgerAssumption
<1>2. DOMAIN LineageFromLedger(rows, ds, n) \subseteq es
  BY LineageOverRows DEF IsLineage
<1> QED
  BY <1>1, <1>2, FS_Subset

\* A rebuilt map is the replay, and it has no cycle.
LEMMA RebuiltIsReplay ==
  ASSUME RebuildCanonicalMap, head' = head + 1
  PROVE  MapIsReplay' /\ Replayable(Lineage, entities)'
<1>1. PICK L : L = LineageFromLedger(memberships', decisions', head + 1)
  OBVIOUS
<1>2. Lineage' = L
  BY <1>1 DEF Lineage
<1>3. canonical' = [e \in entities' |-> Resolve(L, e)] /\ Replayable(L, entities')
  BY <1>1 DEF RebuildCanonicalMap, MapOf
<1>4. \A e \in entities' : CanonicalIn(canonical', e) = Resolve(L, e)
  BY <1>3 DEF CanonicalIn
<1> QED
  BY <1>2, <1>3, <1>4 DEF MapIsReplay

\* No step takes the map away from the replay.
LEMMA MapStep ==
  ASSUME IInv, IInv', [Next]_vars, NoLateMentionAtDecision', MapOK
  PROVE  MapOK'
<1> DEFINE Placed(row, L, active) == row.entity \in DOMAIN L \/ \E x \in active : x.entity = row.entity
<1>1. head \in Nat /\ Rows /\ (MovesRows \/ OpensRows \/ KeepsRows)
  BY DecisionsStep, SomeStep DEF IInv
<1>2. \A row \in memberships : Placed(row, Lineage, Active)
  BY DEF MapOK
<1>3. ASSUME NEW y \in memberships', \A row \in memberships : Placed(row, Lineage', Active')
      PROVE  Placed(y, Lineage', Active')
  <2>1. CASE \E row \in memberships : row.entity = y.entity
    BY <1>3, <2>1
  <2>2. CASE y.closed = Open
    BY <2>2 DEF Active
  <2> QED
    BY <1>1, <2>1, <2>2, RowWas
<1>4. ASSUME NEW parent, NEW x \in Mentions, NEW y \in Mentions, NEW c, ConfirmMatch(parent, x, y, c)
      PROVE  MapOK'
  <2>1. PICK s \in Entities, a \in Entities :
          /\ s # a /\ memberships' = Moved(MentionsOf(a), s, head + 1)
          /\ Leaving(MentionsOf(a), s) = {row \in Active : row.entity = a}
          /\ \E row \in Active : row.entity = a
    BY <1>4, ConfirmShape
  <2>2. Lineage' = [e \in DOMAIN Lineage \cup {a} |-> IF e \in {a} THEN s ELSE Lineage[e]]
    BY <1>4, <2>1, ConfirmLineage
  <2>3. MapIsReplay' /\ Replayable(Lineage, entities)'
    BY <1>4, RebuiltIsReplay DEF ConfirmMatch, OpenDecision
  <2>4. ASSUME NEW row \in memberships PROVE Placed(row, Lineage', Active')
    <3>1. CASE row.entity \in DOMAIN Lineage \cup {a}
      BY <2>2, <3>1
    <3>2. ASSUME NEW z \in Active, z.entity = row.entity, row.entity # a
          PROVE  Placed(row, Lineage', Active')
      <4>1. z \notin Leaving(MentionsOf(a), s) /\ MentionsOf(a) \in SUBSET Mentions
        BY <2>1, <3>2 DEF MentionsOf
      <4>2. z \in Active'
        BY <1>1, <2>1, <4>1, MovedHas DEF Active
      <4> QED
        BY <3>2, <4>2
    <3> QED
      BY <1>2, <3>1, <3>2
  <2> QED
    BY <1>3, <2>3, <2>4 DEF MapOK
<1>5. ASSUME NEW parent, NEW e \in entities, NEW ms \in SUBSET Mentions, NEW target \in Entities,
             SplitEntity(parent, e, ms, target)
      PROVE  MapOK'
  <2>1. /\ \A row \in Leaving(ms, target) : row.entity = e
        /\ \E row \in Active : row.entity = e /\ row \notin Leaving(ms, target)
        /\ target # e => Leaving(ms, target) # {}
        /\ memberships' = Moved(ms, target, head + 1)
    <3>1. memberships' = Moved(ms, target, head + 1)
      BY <1>5 DEF SplitEntity
    <3> QED
      BY <1>5, <3>1, SplitShape
  <2>2. DOMAIN Lineage' = DOMAIN Lineage \ StandingUp(e, target)
    <3>1. Lineage' = AfterSplit(Lineage, StandingUp(e, target))
      BY <1>5, SplitLineage
    <3> QED
      BY <3>1 DEF AfterSplit, Restrict
  <2>3. MapIsReplay' /\ Replayable(Lineage, entities)'
    BY <1>5, RebuiltIsReplay DEF SplitEntity, OpenDecision
  <2>4. \A z \in Active : z \notin Leaving(ms, target) => z \in Active'
    BY <1>1, <2>1, MovedHas DEF Active
  <2>5. ASSUME NEW row \in memberships PROVE Placed(row, Lineage', Active')
    <3>1. CASE row.entity = target /\ target # e
      <4>1. PICK z \in Leaving(ms, target) : TRUE
        BY <2>1, <3>1
      <4>2. PICK new \in memberships' : new = [mention |-> z.mention, entity |-> target,
                                              opened |-> head + 1, closed |-> Open]
        BY <1>1, <2>1, MovedHas
      <4>3. new \in Active' /\ new.entity = row.entity
        BY <3>1, <4>2 DEF Active
      <4> QED
        BY <4>3
    <3>2. CASE row.entity \in DOMAIN Lineage /\ ~(row.entity = target /\ target # e)
      BY <2>2, <3>2 DEF StandingUp
    <3>3. ASSUME NEW z \in Active, z.entity = row.entity
          PROVE  Placed(row, Lineage', Active')
      <4>1. CASE z \in Leaving(ms, target)
        BY <2>1, <2>4, <3>3, <4>1
      <4>2. CASE z \notin Leaving(ms, target)
        BY <2>4, <3>3, <4>2
      <4> QED
        BY <4>1, <4>2
    <3> QED
      BY <1>2, <3>1, <3>2, <3>3
  <2> QED
    BY <1>3, <2>3, <2>5 DEF MapOK
<1>6. ASSUME NEW parent, NEW x, NEW y, NEW c,
             RejectMatch(parent, x, y, c) \/ MarkUnresolved(parent, x, y, c)
      PROVE  MapOK'
  <2>1. /\ entities' = entities /\ memberships' = memberships /\ canonical' = canonical
        /\ \E kind \in {"reject", "unresolved"} : \E inputs : OpenDecision(kind, parent, inputs)
    BY <1>6 DEF RejectMatch, MarkUnresolved
  <2>2. Lineage' = Lineage
    <3>1. PICK kind \in {"reject", "unresolved"} : \E inputs : OpenDecision(kind, parent, inputs)
      BY <2>1
    <3>2. ~OpensRows
      BY <1>1, <3>1 DEF OpensRows, OpenDecision
    <3> QED
      BY <3>1, <3>2, DecisionLineage
  <2> QED
    BY <2>1, <2>2 DEF MapOK, MapIsReplay, Active
<1>7. ASSUME NEW k \in Claims, NEW s \in Entities, NEW o \in Entities \cup {None},
             NEW sm \in Mentions \cup {None}, NEW om \in Mentions \cup {None},
             RecordClaim(k, s, sm, o, om)
      PROVE  MapOK'
  <2>1. /\ head' = head /\ canonical' = canonical /\ entities \subseteq entities'
        /\ memberships \subseteq memberships'
    BY <1>7 DEF RecordClaim
  <2>2. Lineage' = Lineage
    BY <1>1, <2>1, LineageStays DEF At, Lineage
  <2>3. /\ DOMAIN canonical \subseteq entities /\ DOMAIN Lineage \subseteq entities
        /\ IsFiniteSet(DOMAIN Lineage)
    BY <1>1, LineageFinite DEF IInv, TypeOK, Lineage
  <2>4. ASSUME NEW e \in entities'
        PROVE  CanonicalIn(canonical', e) = Resolve(Lineage, e) /\ Resolve(Lineage, e) \notin DOMAIN Lineage
    <3>1. CASE e \in entities
      BY <2>1, <3>1 DEF MapOK, MapIsReplay, Replayable
    <3>2. CASE e \notin entities
      <4>1. Resolve(Lineage, e) = e
        BY <2>3, <3>2, ResolveOutside
      <4> QED
        BY <2>1, <2>3, <3>2, <4>1 DEF CanonicalIn
    <3> QED
      BY <3>1, <3>2
  <2>5. Active \subseteq Active'
    BY <2>1 DEF Active
  <2>6. \A row \in memberships : Placed(row, Lineage', Active')
    BY <1>2, <2>2, <2>5
  <2> QED
    BY <1>3, <2>2, <2>4, <2>6 DEF MapOK, MapIsReplay, Replayable
<1>8. CASE UNCHANGED vars \/ \E k \in Claims : RetractClaim(k)
  <2>1. /\ entities' = entities /\ memberships' = memberships /\ canonical' = canonical
        /\ head' = head /\ decisions' = decisions
    BY <1>8 DEF vars, RetractClaim
  <2> QED
    BY <2>1 DEF MapOK, MapIsReplay, Active, Lineage
<1> QED
  BY <1>4, <1>5, <1>6, <1>7, <1>8 DEF Next, Record, Adjudicate

\* The map is the replay as long as no mention came late.
LEMMA MapHolds == Spec => [](NoLateMentionAtDecision => MapOK)
<1>1. Init => MapOK
  <2> SUFFICES ASSUME Init PROVE MapOK
    OBVIOUS
  <2>1. Lineage = NoLineage /\ canonical = NoLineage
    BY LineageAtZero DEF Lineage, Init
  <2>2. DOMAIN NoLineage = {} /\ IsFiniteSet({})
    BY FS_EmptySet DEF NoLineage
  <2>3. \A e : Resolve(NoLineage, e) = e /\ CanonicalIn(NoLineage, e) = e
    BY <2>2, ResolveOutside DEF CanonicalIn
  <2>4. Active = memberships
    BY DEF Init, Active
  <2> QED
    BY <2>1, <2>2, <2>3, <2>4 DEF MapOK, MapIsReplay, Replayable
<1>2. IInv /\ IInv' /\ [Next]_vars /\ (NoLateMentionAtDecision => MapOK)
        => (NoLateMentionAtDecision => MapOK)'
  BY LateStays, MapStep
<1> QED
  BY <1>1, <1>2, InvariantHolds, PTL DEF Spec

\* Dropped and rebuilt from the ledger, the map resolves every entity as it does now,
\* whatever was adjudicated and recorded, as long as no mention was attached late at the
\* revision of a merge or a split (rebuild_canonical_map).
THEOREM MapIsReplayed == Spec => []MapIsReplayWithoutLateMentions
<1>1. (NoLateMentionAtDecision => MapOK) => MapIsReplayWithoutLateMentions
  BY DEF MapOK, MapIsReplayWithoutLateMentions
<1> QED
  BY <1>1, MapHolds, PTL
-----------------------------------------------------------------------------
\* What a rebuild writes resolves to ends of chains; nothing else writes the map.
LEMMA FinalStep ==
  ASSUME IInv, IInv', [Next]_vars, ResolutionIsFinal
  PROVE  ResolutionIsFinal'
<1>1. CASE RebuildCanonicalMap
  <2>1. PICK L : L = LineageFromLedger(memberships', decisions', head + 1)
    OBVIOUS
  <2>2. canonical' = [e \in entities' |-> Resolve(L, e)] /\ \A e \in entities' : Resolve(L, e) \notin DOMAIN L
    BY <1>1, <2>1 DEF RebuildCanonicalMap, MapOf, Replayable
  <2>3. IsFiniteSet(DOMAIN L)
    <3>1. entities' \subseteq Entities /\ (\A row \in memberships' : row.entity \in entities')
            /\ head + 1 \in Nat
      BY DecisionsStep DEF IInv, TypeOK
    <3> QED
      BY <2>1, <3>1, LineageFinite
  <2>4. \A t : t \notin DOMAIN L => Resolve(L, t) = t
    BY <2>3, ResolveOutside
  <2> QED
    BY <2>2, <2>4 DEF ResolutionIsFinal, CanonicalIn
<1>2. CASE canonical' = canonical
  <2>1. DOMAIN canonical \subseteq entities
    BY DEF IInv, TypeOK
  <2>2. \A e : e \notin entities => CanonicalIn(canonical, e) = e
    BY <2>1 DEF CanonicalIn
  <2> QED
    BY <1>2, <2>2 DEF ResolutionIsFinal
<1>3. RebuildCanonicalMap \/ canonical' = canonical
  <2>1. CASE UNCHANGED vars
    BY <2>1 DEF vars
  <2>2. CASE Record
    BY <2>2 DEF Record, RecordClaim, RetractClaim
  <2>3. ASSUME NEW parent, Adjudicate(parent) PROVE RebuildCanonicalMap \/ canonical' = canonical
    <3>1. ASSUME NEW x, NEW y, NEW c, ConfirmMatch(parent, x, y, c) PROVE RebuildCanonicalMap
      BY <3>1 DEF ConfirmMatch
    <3>2. ASSUME NEW x, NEW y, NEW c, RejectMatch(parent, x, y, c) \/ MarkUnresolved(parent, x, y, c)
          PROVE  canonical' = canonical
      BY <3>2 DEF RejectMatch, MarkUnresolved
    <3>3. ASSUME NEW e, NEW ms, NEW target, SplitEntity(parent, e, ms, target) PROVE RebuildCanonicalMap
      BY <3>3 DEF SplitEntity
    <3> QED
      BY <2>3, <3>1, <3>2, <3>3 DEF Adjudicate
  <2> QED
    BY <2>1, <2>2, <2>3 DEF Next
<1> QED
  BY <1>1, <1>2, <1>3

\* Where the map leads, it leads no further.
LEMMA FinalHolds == Spec => []ResolutionIsFinal
<1>1. Init => ResolutionIsFinal
  BY DEF Init, ResolutionIsFinal, CanonicalIn, NoLineage
<1> QED
  BY <1>1, FinalStep, InvariantHolds, PTL DEF Spec

\* A chain ends at an entity with a row, and one that was not absorbed.
LEMMA ReachTheLiving == IInv /\ (NoLateMentionAtDecision => MapOK) => AbsorbedReachTheLiving
<1> SUFFICES ASSUME IInv, MapOK, NEW row \in memberships
             PROVE  \E x \in Active : x.entity = CanonicalIn(canonical, row.entity)
  BY DEF AbsorbedReachTheLiving
<1> DEFINE es == {r.entity : r \in memberships}
<1>1. head \in Nat /\ es \subseteq entities /\ entities \subseteq Entities
  BY LedgerAssumption DEF IInv, TypeOK, LedgerAssumption
<1>2. IsLineage(Lineage, es) /\ IsFiniteSet(DOMAIN Lineage)
  BY <1>1, LineageOverRows, LineageFinite DEF Lineage
<1> DEFINE t == Resolve(Lineage, row.entity)
<1>3. t \in es
  BY <1>2, ResolveStays DEF IsLineage
<1>4. t \notin DOMAIN Lineage /\ CanonicalIn(canonical, row.entity) = t
  BY <1>1 DEF MapOK, MapIsReplay, Replayable
<1> HIDE DEF t
<1> QED
  BY <1>3, <1>4 DEF MapOK

-----------------------------------------------------------------------------
\* What is on record of the decisions that moved mentions: a confirm took everything
\* from one entity and gave it to another, and nothing else closes rows.
Absorption(d, s, a) ==
  /\ s # a /\ ClosedAt(memberships, d.revision) = {a}
  /\ NoLateMentionAtDecision => OpenedAt(memberships, d.revision) = {s}
  /\ \A row \in memberships : row.closed = d.revision =>
       \E x \in memberships : x.mention = row.mention /\ x.entity = s /\ x.opened = d.revision

OnRecord ==
  /\ \A d \in decisions : d.kind = "confirm" => \E s, a \in Entities : Absorption(d, s, a)
  /\ \A row \in memberships : row.closed # Open =>
       \E d \in decisions : Moving(d) /\ d.revision = row.closed

\* An entity was nobody's while it held what it held.
NotAbsorbedWhileHolding ==
  \A row \in memberships : \A rev \in row.opened..head :
    row.closed = Open \/ rev < row.closed => row.entity \notin DOMAIN At(rev)

HistoryOK ==
  /\ OnRecord
  /\ NoLateMentionAtDecision /\ NoMentionOnAbsorbedEntity => NotAbsorbedWhileHolding

\* An absorption stays on record ...
LEMMA AbsorptionStays ==
  ASSUME IInv, [Next]_vars, NEW d \in decisions, d.kind = "confirm",
         NEW s \in Entities, NEW a \in Entities, Absorption(d, s, a)
  PROVE  Absorption(d, s, a)'
<1>1. head \in Nat /\ Rows /\ (MovesRows \/ OpensRows \/ KeepsRows) /\ d.revision \in 1..head
  BY DecisionsStep, SomeStep DEF IInv, Stamps
<1>2. ClosedAt(memberships', d.revision) = {a}
  BY <1>1, ClosedAtStays DEF Absorption
<1>3. ASSUME NoLateMentionAtDecision'
      PROVE  OpenedAt(memberships', d.revision) = {s}
  <2>1. memberships' = memberships \/ d.revision < head \/ ~OpensRows
    BY <1>1, <1>3, LateElsewhere DEF Moving
  <2> QED
    BY <1>1, <1>3, <2>1, OpenedAtStays, LateStays DEF Absorption
<1>4. ASSUME NEW y \in memberships', y.closed = d.revision
      PROVE  \E x \in memberships' : x.mention = y.mention /\ x.entity = s /\ x.opened = d.revision
  <2>1. y.closed # Open /\ y.closed # head + 1
    BY <1>1, <1>4 DEF Open
  <2>2. PICK row \in memberships : row.mention = y.mention /\ row.closed = d.revision
    BY <1>1, <1>4, <2>1, RowWas
  <2>3. PICK x \in memberships : x.mention = row.mention /\ x.entity = s /\ x.opened = d.revision
    BY <2>2 DEF Absorption
  <2> QED
    BY <1>1, <2>2, <2>3, RowStays
<1> QED
  BY <1>2, <1>3, <1>4 DEF Absorption

\* ... and a confirm puts one there.
LEMMA AbsorptionComes ==
  ASSUME IInv, [Next]_vars, NEW parent, NEW x \in Mentions, NEW y \in Mentions, NEW c,
         ConfirmMatch(parent, x, y, c), NEW d, d.revision = head + 1
  PROVE  \E s, a \in Entities : Absorption(d, s, a)'
<1>1. PICK s \in Entities, a \in Entities :
        /\ s # a /\ memberships' = Moved(MentionsOf(a), s, head + 1)
        /\ Leaving(MentionsOf(a), s) = {row \in Active : row.entity = a}
        /\ \E row \in Active : row.entity = a
  BY ConfirmShape
<1>2. OpenedAt(memberships', head + 1) = {s} /\ ClosedAt(memberships', head + 1) = {a}
  BY <1>1, ConfirmLineage
<1>3. ASSUME NEW row \in memberships', row.closed = head + 1
      PROVE  \E z \in memberships' : z.mention = row.mention /\ z.entity = s /\ z.opened = head + 1
  <2>1. Rows /\ MentionsOf(a) \in SUBSET Mentions /\ head \in Nat /\ head + 1 # Open
    BY DecisionsStep DEF IInv, MentionsOf, Open
  <2>2. \A z \in memberships : z.closed # head + 1
    BY <2>1 DEF Rows, Membership
  <2>3. PICK z \in Leaving(MentionsOf(a), s) : row.mention = z.mention
    BY <1>1, <1>3, <2>1, <2>2, MovedRow
  <2> QED
    BY <1>1, <2>1, <2>3, MovedHas
<1>4. Absorption(d, s, a)'
  BY <1>1, <1>2, <1>3 DEF Absorption
<1> QED
  BY <1>4

\* The decision of a step is the one it opened.
LEMMA NewDecision ==
  ASSUME NEW kind, NEW parent, NEW inputs, OpenDecision(kind, parent, inputs)
  PROVE  /\ head' = head + 1 /\ decisions \subseteq decisions'
         /\ \E d \in decisions' : d.kind = kind /\ d.revision = head + 1 /\ d.inputs = inputs
         /\ \A d \in decisions' \ decisions :
              d.kind = kind /\ d.revision = head + 1 /\ d.inputs = inputs
<1>1. PICK new : new = [kind |-> kind, parent |-> parent, inputs |-> inputs, revision |-> head + 1]
  OBVIOUS
<1>2. new.kind = kind /\ new.revision = head + 1 /\ new.inputs = inputs
  BY <1>1
<1>3. decisions' = decisions \cup {new} /\ head' = head + 1
  BY <1>1 DEF OpenDecision
<1> QED
  BY <1>2, <1>3

\* Absorptions are put on record, and nothing else closes a row.
LEMMA OnRecordStep ==
  ASSUME IInv, [Next]_vars, OnRecord
  PROVE  OnRecord'
<1>1. head \in Nat /\ Rows /\ (MovesRows \/ OpensRows \/ KeepsRows)
  BY DecisionsStep, SomeStep DEF IInv
<1>2. ASSUME \A d \in decisions' \ decisions : d.kind = "confirm" => \E s, a \in Entities : Absorption(d, s, a)',
             decisions \subseteq decisions',
             \A y \in memberships' : y.closed = head + 1 => \E d \in decisions' : Moving(d) /\ d.revision = head + 1
      PROVE  OnRecord'
  <2>1. ASSUME NEW d \in decisions', d.kind = "confirm"
        PROVE  \E s, a \in Entities : Absorption(d, s, a)'
    <3>1. CASE d \in decisions
      <4>1. PICK s \in Entities, a \in Entities : Absorption(d, s, a)
        BY <2>1, <3>1 DEF OnRecord
      <4>2. Absorption(d, s, a)'
        BY <2>1, <3>1, <4>1, AbsorptionStays
      <4> QED
        BY <4>2
    <3>2. CASE d \notin decisions
      BY <1>2, <2>1, <3>2
    <3> QED
      BY <3>1, <3>2
  <2>2. ASSUME NEW y \in memberships', y.closed # Open
        PROVE  \E d \in decisions' : Moving(d) /\ d.revision = y.closed
    <3>1. CASE y.closed = head + 1
      BY <1>2, <3>1
    <3>2. CASE y.closed # head + 1
      <4>1. PICK row \in memberships : row.closed = y.closed
        BY <1>1, <2>2, <3>2, RowWas
      <4> QED
        BY <1>2, <2>2, <4>1 DEF OnRecord
    <3> QED
      BY <3>1, <3>2
  <2> QED
    BY <2>1, <2>2 DEF OnRecord, Moving
<1>3. ASSUME NEW parent, NEW x \in Mentions, NEW y \in Mentions, NEW c, ConfirmMatch(parent, x, y, c)
      PROVE  OnRecord'
  <2>1. OpenDecision("confirm", parent, {x, y})
    BY <1>3 DEF ConfirmMatch
  <2>2. \E d \in decisions' : Moving(d) /\ d.revision = head + 1
    BY <2>1, NewDecision DEF Moving
  <2>3. \A d \in decisions' \ decisions : \E s, a \in Entities : Absorption(d, s, a)'
    BY <1>3, <2>1, NewDecision, AbsorptionComes
  <2> QED
    BY <1>2, <2>1, <2>2, <2>3, NewDecision
<1>4. ASSUME NEW parent, NEW e, NEW ms, NEW target, SplitEntity(parent, e, ms, target)
      PROVE  OnRecord'
  <2>1. OpenDecision("split", parent, ms)
    BY <1>4 DEF SplitEntity
  <2>2. \E d \in decisions' : Moving(d) /\ d.revision = head + 1
    BY <2>1, NewDecision DEF Moving
  <2>3. \A d \in decisions' \ decisions : d.kind = "split"
    BY <2>1, NewDecision
  <2> QED
    BY <1>2, <2>1, <2>2, <2>3, NewDecision
<1>5. ASSUME NEW parent, NEW x, NEW y, NEW c,
             RejectMatch(parent, x, y, c) \/ MarkUnresolved(parent, x, y, c)
      PROVE  OnRecord'
  <2>1. PICK kind \in {"reject", "unresolved"} : OpenDecision(kind, parent, {x, y})
    BY <1>5 DEF RejectMatch, MarkUnresolved
  <2>2. memberships' = memberships
    BY <1>5 DEF RejectMatch, MarkUnresolved
  <2>3. \A d \in decisions' \ decisions : d.kind # "confirm"
    BY <2>1, NewDecision
  <2>4. \A z \in memberships' : z.closed # head + 1
    BY <1>1, <2>2 DEF Rows, Membership
  <2> QED
    BY <1>2, <2>1, <2>3, <2>4, NewDecision
<1>6. CASE decisions' = decisions /\ head' = head
  <2>1. \A y \in memberships' : y.closed # head + 1
    <3> SUFFICES ASSUME NEW y \in memberships', y.closed = head + 1 PROVE FALSE
      OBVIOUS
    <3>1. y.closed # Open /\ \A row \in memberships : row.closed # head + 1
      BY <1>1 DEF Open, Rows, Membership
    <3> QED
      BY <1>1, <1>6, <3>1, RowWas DEF MovesRows
  <2> QED
    BY <1>2, <1>6, <2>1
<1>7. CASE UNCHANGED vars \/ Record
  BY <1>6, <1>7 DEF vars, Record, RecordClaim, RetractClaim
<1> QED
  BY <1>3, <1>4, <1>5, <1>7 DEF Next, Adjudicate

\* What stays with an entity through a decision keeps it from being absorbed by it.
LEMMA HoldersStand ==
  ASSUME IInv, [Next]_vars, head' = head + 1, NEW y \in memberships', y.opened <= head,
         y.closed = Open, y.entity \notin DOMAIN Lineage
  PROVE  y.entity \notin DOMAIN Lineage'
<1>1. head \in Nat /\ Rows
  BY DecisionsStep DEF IInv
<1>2. ASSUME NEW parent, NEW u \in Mentions, NEW v \in Mentions, NEW c, ConfirmMatch(parent, u, v, c)
      PROVE  y.entity \notin DOMAIN Lineage'
  <2>1. PICK s \in Entities, a \in Entities :
          /\ s # a /\ memberships' = Moved(MentionsOf(a), s, head + 1)
          /\ Leaving(MentionsOf(a), s) = {row \in Active : row.entity = a}
          /\ \E row \in Active : row.entity = a
    BY <1>2, ConfirmShape
  <2>2. Lineage' = [e \in DOMAIN Lineage \cup {a} |-> IF e \in {a} THEN s ELSE Lineage[e]]
    BY <1>2, <2>1, ConfirmLineage
  <2>3. y \in memberships \ Leaving(MentionsOf(a), s)
    <3>1. MentionsOf(a) \in SUBSET Mentions /\ head + 1 # Open /\ ~(head + 1 <= head)
      BY <1>1 DEF MentionsOf, Open
    <3> QED
      BY <1>1, <2>1, <3>1, MovedRow
  <2>4. y.entity # a
    BY <2>1, <2>3 DEF Active
  <2> QED
    BY <2>2, <2>4
<1>3. ASSUME NEW parent, NEW e \in entities, NEW ms \in SUBSET Mentions, NEW target \in Entities,
             SplitEntity(parent, e, ms, target)
      PROVE  y.entity \notin DOMAIN Lineage'
  <2>1. Lineage' = AfterSplit(Lineage, StandingUp(e, target))
    BY <1>3, SplitLineage
  <2> QED
    BY <2>1 DEF AfterSplit, Restrict
<1>4. ASSUME NEW parent, NEW u, NEW v, NEW c,
             RejectMatch(parent, u, v, c) \/ MarkUnresolved(parent, u, v, c)
      PROVE  y.entity \notin DOMAIN Lineage'
  <2>1. PICK kind \in {"reject", "unresolved"} : OpenDecision(kind, parent, {u, v})
    BY <1>4 DEF RejectMatch, MarkUnresolved
  <2>2. Lineage' = Lineage
    BY <1>1, <2>1, DecisionLineage DEF OpensRows
  <2> QED
    BY <2>2
<1>5. CASE UNCHANGED vars \/ Record
  BY <1>1, <1>5 DEF vars, Record, RecordClaim, RetractClaim
<1> QED
  BY <1>2, <1>3, <1>4, <1>5 DEF Next, Adjudicate

\* No step makes an entity absorbed while it holds a mention.
LEMMA HoldingStep ==
  ASSUME IInv, IInv', [Next]_vars, NoLateMentionAtDecision', NoMentionOnAbsorbedEntity',
         NotAbsorbedWhileHolding
  PROVE  NotAbsorbedWhileHolding'
<1>1. /\ head \in Nat /\ Rows /\ Rows' /\ (MovesRows \/ OpensRows \/ KeepsRows)
      /\ head' = head \/ head' = head + 1
  BY DecisionsStep, SomeStep DEF IInv
<1> SUFFICES ASSUME NEW y \in memberships', NEW rev \in y.opened..head',
                    y.closed = Open \/ rev < y.closed
             PROVE  y.entity \notin DOMAIN At(rev)'
  BY DEF NotAbsorbedWhileHolding
<1>2. y.opened \in Nat /\ y.closed \in Nat /\ y.closed <= head'
  BY <1>1, LedgerAssumption DEF Rows, Membership, LedgerAssumption
<1>3. rev = y.opened => y.entity \notin DOMAIN At(rev)'
  BY DEF NoMentionOnAbsorbedEntity, At
<1>4. CASE rev # y.opened /\ rev <= head
  <2>1. PICK row \in memberships :
          /\ y.entity = row.entity /\ y.opened = row.opened
          /\ y.closed = row.closed \/ (row.closed = Open /\ y.closed = head + 1)
    BY <1>1, <1>2, <1>4, RowWas
  <2>2. rev \in row.opened..head /\ (row.closed = Open \/ rev < row.closed)
    BY <1>1, <1>2, <1>4, <2>1
  <2>3. row.entity \notin DOMAIN At(rev)
    BY <2>2 DEF NotAbsorbedWhileHolding
  <2>4. At(rev)' = At(rev)
    BY <1>1, <1>2, <1>4, LineageStays
  <2> QED
    BY <2>1, <2>3, <2>4
<1>5. CASE rev # y.opened /\ rev = head + 1 /\ head' = head + 1
  <2>1. y.closed = Open /\ y.opened <= head
    BY <1>1, <1>2, <1>5
  <2>2. PICK row \in memberships :
          y.entity = row.entity /\ y.opened = row.opened /\ row.closed = Open
    BY <1>1, <1>5, <2>1, RowWas
  <2>3. row.entity \notin DOMAIN At(head)
    BY <1>1, <1>2, <2>1, <2>2 DEF NotAbsorbedWhileHolding
  <2>4. y.entity \notin DOMAIN Lineage'
    BY <1>5, <2>1, <2>2, <2>3, HoldersStand DEF At, Lineage
  <2> QED
    BY <1>5, <2>4 DEF At, Lineage
<1> QED
  BY <1>1, <1>2, <1>3, <1>4, <1>5

\* The history is in order in every state.
LEMMA HistoryHolds == Spec => []HistoryOK
<1>1. Init => HistoryOK
  <2> SUFFICES ASSUME Init PROVE HistoryOK
    OBVIOUS
  <2>1. decisions = {} /\ head = 0 /\ \A row \in memberships : row.closed = Open /\ row.opened = 0
    BY DEF Init
  <2>2. At(0) = NoLineage
    BY LineageAtZero DEF At
  <2>3. NotAbsorbedWhileHolding
    BY <2>1, <2>2 DEF NotAbsorbedWhileHolding, NoLineage
  <2> QED
    BY <2>1, <2>3 DEF HistoryOK, OnRecord
<1>2. IInv /\ IInv' /\ [Next]_vars /\ HistoryOK => HistoryOK'
  BY LateStays, OnAbsorbedStays, OnRecordStep, HoldingStep DEF HistoryOK
<1> QED
  BY <1>1, <1>2, InvariantHolds, PTL DEF Spec

-----------------------------------------------------------------------------
\* Revisions without a merge or a split leave the lineage alone.
LEMMA QuietStays ==
  ASSUME NEW rows, NEW ds, NEW m \in Nat,
         NEW n \in Nat, m <= n, \A d \in ds : d.revision > m /\ d.revision <= n => ~Moving(d)
  PROVE  LineageFromLedger(rows, ds, n) = LineageFromLedger(rows, ds, m)
<1> DEFINE Bad == {k \in m..n : LineageFromLedger(rows, ds, k) # LineageFromLedger(rows, ds, m)}
<1> SUFFICES ASSUME Bad # {} PROVE FALSE
  OBVIOUS
<1>1. PICK k \in Bad : \A x \in Bad : k <= x
  <2> HIDE DEF Bad
  <2>1. Bad \in SUBSET Nat
    BY DEF Bad
  <2> QED
    BY <2>1, LeastOf
<1>2. k # m /\ k \in Nat
  BY <1>1
<1>3. k - 1 \in m..n /\ k - 1 \in Nat /\ ~(k <= k - 1) /\ (k - 1) + 1 = k /\ k > m /\ k <= n
  BY <1>1, <1>2
<1>4. LineageFromLedger(rows, ds, k - 1) = LineageFromLedger(rows, ds, m)
  BY <1>1, <1>3
<1>5. LineageFromLedger(rows, ds, (k - 1) + 1)
        = AfterRevision(rows, ds, (k - 1) + 1, LineageFromLedger(rows, ds, k - 1))
  BY <1>3, LineageAfter
<1>6. /\ "confirm" \notin {d.kind : d \in {x \in ds : x.revision = k}}
      /\ "split" \notin {d.kind : d \in {x \in ds : x.revision = k}}
  BY <1>3 DEF Moving
<1>7. LineageFromLedger(rows, ds, k) = LineageFromLedger(rows, ds, k - 1)
  BY <1>3, <1>5, <1>6 DEF AfterRevision
<1> QED
  BY <1>1, <1>4, <1>7

\* Moving mentions at a later revision leaves the earlier ones alone.
LEMMA MovedBefore ==
  ASSUME Rows, NEW ms \in SUBSET Mentions, NEW target \in Entities, NEW k \in 1..head
  PROVE  /\ OpenedAt(Moved(ms, target, head + 1), k) = OpenedAt(memberships, k)
         /\ ClosedAt(Moved(ms, target, head + 1), k) = ClosedAt(memberships, k)
<1> DEFINE rows == Moved(ms, target, head + 1)
<1>1. head \in Nat /\ k # head + 1 /\ k # Open /\ k \in Nat
  BY LedgerAssumption DEF Rows, LedgerAssumption, Open
<1>2. ASSUME NEW row \in rows
      PROVE  \E x \in memberships :
               /\ row.opened = k => row.opened = x.opened /\ row.entity = x.entity
               /\ row.closed = k => row.closed = x.closed /\ row.entity = x.entity
  <2>1. CASE row \in memberships
    BY <2>1
  <2>2. CASE row \notin memberships
    BY <1>1, <2>2, MovedRow DEF Leaving, Active
  <2> QED
    BY <2>1, <2>2
<1>3. ASSUME NEW x \in memberships
      PROVE  \E row \in rows : /\ row.opened = x.opened /\ row.entity = x.entity
                               /\ x.closed = k => row.closed = x.closed
  <2>1. CASE x \in Leaving(ms, target)
    <3>1. x.closed # k
      BY <1>1, <2>1 DEF Leaving, Active
    <3> QED
      BY <2>1, <3>1, MovedHas
  <2>2. CASE x \notin Leaving(ms, target)
    BY <2>2, MovedHas
  <2> QED
    BY <2>1, <2>2
<1> HIDE DEF rows
<1>4. OpenedAt(rows, k) = OpenedAt(memberships, k)
  <2>1. \A row \in rows : row.opened = k => \E x \in memberships : x.opened = k /\ x.entity = row.entity
    BY <1>2
  <2>2. \A x \in memberships : x.opened = k => \E row \in rows : row.opened = k /\ row.entity = x.entity
    BY <1>3
  <2> QED
    BY <2>1, <2>2 DEF OpenedAt
<1>5. ClosedAt(rows, k) = ClosedAt(memberships, k)
  <2>1. \A row \in rows : row.closed = k => \E x \in memberships : x.closed = k /\ x.entity = row.entity
    BY <1>2
  <2>2. \A x \in memberships : x.closed = k => \E row \in rows : row.closed = k /\ row.entity = x.entity
    BY <1>3
  <2> QED
    BY <1>1, <2>1, <2>2 DEF ClosedAt
<1> QED
  BY <1>4, <1>5 DEF rows

\* What one more split does to the lineage there is.
LEMMA OneMoreSplit ==
  ASSUME IInv, NEW ms \in SUBSET Mentions, NEW target \in Entities, NEW d,
         d.kind = "split", d.revision = head + 1
  PROVE  LineageFromLedger(Moved(ms, target, head + 1), decisions \cup {d}, head + 1)
           = AfterSplit(Lineage, {e \in {target} : Leaving(ms, target) # {}})
<1> DEFINE rows == Moved(ms, target, head + 1)
           ds == decisions \cup {d}
<1>1. head \in Nat /\ Rows /\ \A x \in decisions : x.revision \in 1..head
  BY LedgerAssumption DEF IInv, TypeOK, LedgerAssumption, Stamps
<1>2. ASSUME NEW k \in 1..head
      PROVE  {x \in ds : x.revision = k} = {x \in decisions : x.revision = k}
  BY <1>1
<1>3. ASSUME NEW k \in 1..head
      PROVE  OpenedAt(rows, k) = OpenedAt(memberships, k) /\ ClosedAt(rows, k) = ClosedAt(memberships, k)
  BY <1>1, MovedBefore
<1>4. {x \in ds : x.revision = head + 1} = {d}
  BY <1>1
<1>5. OpenedAt(rows, head + 1) = {e \in {target} : Leaving(ms, target) # {}}
  BY <1>1, MovedAt
<1> HIDE DEF rows, ds
<1>6. SameUpTo(rows, ds, memberships, decisions, head)
  BY <1>2, <1>3 DEF SameUpTo, AfterRevision
<1>7. LineageFromLedger(rows, ds, head) = Lineage
  BY <1>1, <1>6, LineageSame DEF Lineage
<1>8. LineageFromLedger(rows, ds, head + 1) = AfterRevision(rows, ds, head + 1, Lineage)
  BY <1>1, <1>7, LineageAfter
<1>9. {x.kind : x \in {y \in ds : y.revision = head + 1}} = {"split"}
  BY <1>4
<1>10. AfterRevision(rows, ds, head + 1, Lineage) = AfterSplit(Lineage, OpenedAt(rows, head + 1))
  BY <1>9 DEF AfterRevision
<1> QED
  BY <1>5, <1>8, <1>10 DEF rows, ds

\* Undoing the last absorption leaves the lineage as before it.
LEMMA Reversal ==
  ASSUME IInv, HistoryOK, NoLateMentionAtDecision, NoMentionOnAbsorbedEntity,
         NEW d \in LastMerges, NEW e \in entities, NEW back \in SUBSET Mentions,
         back = {row.mention : row \in {x \in memberships : x.closed = d.revision /\ x.entity = e}},
         back # {}, NEW split, split.kind = "split", split.revision = head + 1
  PROVE  LineageFromLedger(Moved(back, e, head + 1), decisions \cup {split}, head + 1)
           = At(d.revision - 1)
<1>1. /\ head \in Nat /\ Rows /\ d \in decisions /\ d.kind = "confirm" /\ d.revision \in 1..head
      /\ \A x \in decisions : x.revision \in Nat /\ (x.revision > d.revision => x.kind = "reject")
      /\ e \in Entities
  BY LedgerAssumption DEF IInv, TypeOK, LedgerAssumption, Stamps, LastMerges
<1> DEFINE before == At(d.revision - 1)
<1>2. PICK s \in Entities, a \in Entities : Absorption(d, s, a)
  BY <1>1 DEF HistoryOK, OnRecord
<1>3. PICK row \in memberships : row.closed = d.revision /\ row.entity = e /\ row.mention \in back
  OBVIOUS
<1>4. e = a
  BY <1>1, <1>2, <1>3 DEF Absorption, ClosedAt, Open
<1>5. PICK x \in memberships : x.mention = row.mention /\ x.entity = s /\ x.opened = d.revision
  BY <1>2, <1>3 DEF Absorption
<1>6. x.closed = Open
  <2> SUFFICES ASSUME x.closed # Open PROVE FALSE
    OBVIOUS
  <2>1. PICK c \in decisions : Moving(c) /\ c.revision = x.closed
    BY DEF HistoryOK, OnRecord
  <2>2. c.revision > d.revision
    BY <1>1, <1>5, <2>1 DEF Rows
  <2> QED
    BY <1>1, <2>1, <2>2 DEF Moving
<1>7. Leaving(back, e) # {}
  BY <1>2, <1>3, <1>4, <1>5, <1>6 DEF Leaving, Active, Absorption
<1>8. Lineage = At(d.revision)
  <2>1. \A c \in decisions : c.revision > d.revision /\ c.revision <= head => ~Moving(c)
    BY <1>1 DEF Moving
  <2> QED
    BY <1>1, <2>1, QuietStays DEF Lineage, At
<1>9. At(d.revision) = [y \in DOMAIN before \cup {a} |-> IF y \in {a} THEN s ELSE before[y]]
  <2>1. d.revision - 1 \in Nat /\ (d.revision - 1) + 1 = d.revision
    BY <1>1
  <2>2. At((d.revision - 1) + 1) = AfterRevision(memberships, decisions, (d.revision - 1) + 1, before)
    BY <2>1, LineageAfter DEF At
  <2>3. "confirm" \in {c.kind : c \in {y \in decisions : y.revision = d.revision}}
    BY <1>1
  <2>4. OpenedAt(memberships, d.revision) = {s} /\ ClosedAt(memberships, d.revision) = {a} /\ s # a
    BY <1>2 DEF Absorption
  <2> HIDE DEF before
  <2>5. At(d.revision) = AfterConfirm(before, {s}, {a} \ {s})
    BY <2>1, <2>2, <2>3, <2>4 DEF AfterRevision
  <2>6. Cardinality({s}) = 1 /\ (CHOOSE y \in {s} : TRUE) = s /\ {a} \ {s} = {a}
    BY <2>4, FS_Singleton
  <2> QED
    BY <2>5, <2>6 DEF AfterConfirm
<1>10. a \notin DOMAIN before /\ before = [y \in DOMAIN before |-> before[y]]
  <2>1. d.revision - 1 \in Nat /\ d.revision - 1 \in row.opened..head /\ d.revision - 1 < row.closed
    BY <1>1, <1>3, LedgerAssumption DEF Rows, Membership, Open, LedgerAssumption
  <2>2. a \notin DOMAIN before
    BY <1>3, <1>4, <2>1 DEF HistoryOK, NotAbsorbedWhileHolding
  <2>3. IsLineage(before, {r.entity : r \in memberships})
    BY <2>1, LineageOverRows DEF At
  <2> QED
    BY <2>2, <2>3 DEF IsLineage
<1>11. AfterSplit(At(d.revision), {a}) = before
  <2> HIDE DEF before
  <2>1. PICK f : f = At(d.revision)
    OBVIOUS
  <2>2. DOMAIN f \ {a} = DOMAIN before /\ \A y \in DOMAIN before : f[y] = before[y]
    BY <1>9, <1>10, <2>1
  <2>3. AfterSplit(f, {a}) = [y \in DOMAIN f \ {a} |-> f[y]]
    BY DEF AfterSplit, Restrict
  <2>4. AfterSplit(f, {a}) = [y \in DOMAIN before |-> before[y]]
    BY <2>2, <2>3
  <2> QED
    BY <1>10, <2>1, <2>4
<1>12. LineageFromLedger(Moved(back, e, head + 1), decisions \cup {split}, head + 1)
         = AfterSplit(Lineage, {z \in {e} : Leaving(back, e) # {}})
  BY <1>1, OneMoreSplit
<1> QED
  BY <1>4, <1>7, <1>8, <1>11, <1>12

\* The last merge can be undone.
LEMMA Reversible == IInv /\ HistoryOK => MergeIsReversible
<1> SUFFICES ASSUME IInv, HistoryOK, NEW d \in LastMerges, NoLateMentionAtDecision, NoMentionOnAbsorbedEntity
             PROVE  LET back(e) == {row.mention : row \in
                                     {x \in memberships : x.closed = d.revision /\ x.entity = e}}
                        undone(e) == LineageFromLedger(Moved(back(e), e, head + 1),
                                       decisions \cup {[kind |-> "split", parent |-> head,
                                                        inputs |-> back(e), revision |-> head + 1]},
                                       head + 1)
                        before == LineageFromLedger(memberships, decisions, d.revision - 1)
                    IN  \A e \in {x \in entities : back(x) # {}}, x \in entities :
                          Resolve(undone(e), x) = Resolve(before, x)
  BY DEF MergeIsReversible
<1> DEFINE back(e) == {row.mention : row \in {x \in memberships : x.closed = d.revision /\ x.entity = e}}
           split(e) == [kind |-> "split", parent |-> head, inputs |-> back(e), revision |-> head + 1]
<1>1. ASSUME NEW e \in entities, back(e) # {}
      PROVE  LineageFromLedger(Moved(back(e), e, head + 1), decisions \cup {split(e)}, head + 1)
               = LineageFromLedger(memberships, decisions, d.revision - 1)
  <2>1. back(e) \in SUBSET Mentions
    BY DEF IInv, TypeOK, Membership
  <2>2. PICK c : c = split(e)
    OBVIOUS
  <2>3. c.kind = "split" /\ c.revision = head + 1
    BY <2>2
  <2> HIDE DEF split
  <2> QED
    BY <1>1, <2>1, <2>2, <2>3, Reversal DEF At
<1> QED
  BY <1>1

\* What decisions leave behind makes sense together, in any order of them: the chains of
\* constraints, the ends the map leads to, and what undoing a merge restores.
THEOREM Coherent == Spec => []LedgerIsCoherent
<1>1. IInv /\ ConstraintsFormAChain /\ ResolutionIsFinal /\ HistoryOK
        /\ (NoLateMentionAtDecision => MapOK) => LedgerIsCoherent
  BY ReachTheLiving, Reversible DEF LedgerIsCoherent
<1> QED
  BY <1>1, InvariantHolds, OneConstraintInForce, FinalHolds, HistoryHolds, MapHolds, PTL
-----------------------------------------------------------------------------
\* Claims have ids of their own, drafts are of claims there are, and every entity that
\* came since the baseline came with a mention.
QueueOK ==
  /\ \A k, l \in claims : k.id = l.id => k = l
  /\ \A q \in queue : \E k \in claims : k.id = q.claim
  /\ \A e \in entities \ BaselineEntities : \E row \in memberships : row.entity = e

\* Only a split that creates its target queues drafts.
LEMMA QueueStep ==
  ASSUME IInv, [Next]_vars
  PROVE  \/ queue' = queue /\ \A d \in decisions' \ decisions : d.kind # "split"
         \/ \E parent \in 0..MaxRevision, e \in entities, ms \in SUBSET Mentions, target \in Entities :
              SplitEntity(parent, e, ms, target)
<1>1. CASE UNCHANGED vars \/ Record
  BY <1>1 DEF vars, Record, RecordClaim, RetractClaim
<1>2. ASSUME NEW parent, NEW x, NEW y, NEW c, ConfirmMatch(parent, x, y, c)
      PROVE  queue' = queue /\ \A d \in decisions' \ decisions : d.kind # "split"
  <2>1. OpenDecision("confirm", parent, {x, y}) /\ queue' = queue
    BY <1>2 DEF ConfirmMatch
  <2> QED
    BY <2>1, NewDecision
<1>3. ASSUME NEW parent, NEW x, NEW y, NEW c,
             RejectMatch(parent, x, y, c) \/ MarkUnresolved(parent, x, y, c)
      PROVE  queue' = queue /\ \A d \in decisions' \ decisions : d.kind # "split"
  <2>1. PICK kind \in {"reject", "unresolved"} : OpenDecision(kind, parent, {x, y})
    BY <1>3 DEF RejectMatch, MarkUnresolved
  <2>2. queue' = queue
    BY <1>3 DEF RejectMatch, MarkUnresolved
  <2> QED
    BY <2>1, <2>2, NewDecision
<1> QED
  BY <1>1, <1>2, <1>3 DEF Next, Adjudicate

\* An entity comes with a mention, and its rows are never deleted.
LEMMA EntitiesHeld ==
  ASSUME IInv, [Next]_vars, \A e \in entities \ BaselineEntities : \E row \in memberships : row.entity = e
  PROVE  \A e \in entities' \ BaselineEntities : \E row \in memberships' : row.entity = e
<1>1. Rows /\ (MovesRows \/ OpensRows \/ KeepsRows) /\ head \in Nat
  BY SomeStep, DecisionsStep DEF IInv
<1>2. \A e \in entities \ BaselineEntities : \E row \in memberships' : row.entity = e
  BY <1>1, RowStays
<1>3. ASSUME NEW k, NEW s \in Entities, NEW o \in Entities \cup {None},
             NEW sm, NEW om, RecordClaim(k, s, sm, o, om), NEW e \in entities' \ entities
      PROVE  \E row \in memberships' : row.entity = e
  <2>1. /\ entities' = entities \cup ({s, o} \ {None})
        /\ memberships' = memberships \cup Opening(s, sm) \cup Opening(o, om)
        /\ ArgumentOK(s, sm) /\ (o # None => ArgumentOK(o, om))
    BY <1>3 DEF RecordClaim
  <2>2. ASSUME NEW x, NEW m, ArgumentOK(x, m), x \notin entities
        PROVE  \E row \in memberships \cup Opening(x, m) : row.entity = x
    <3>1. CASE Belongs(m, x)
      BY <3>1 DEF Belongs, Active
    <3>2. CASE m # None /\ ~Resolved(m)
      <4>1. PICK row : row = [mention |-> m, entity |-> x, opened |-> head, closed |-> Open]
        OBVIOUS
      <4>2. row \in Opening(x, m) /\ row.entity = x
        BY <3>2, <4>1 DEF Opening
      <4> QED
        BY <4>2
    <3> QED
      BY <2>2, <3>1, <3>2 DEF ArgumentOK
  <2> QED
    BY <1>3, <2>1, <2>2
<1>4. ASSUME NEW parent, NEW f \in entities, NEW ms \in SUBSET Mentions, NEW target \in Entities,
             SplitEntity(parent, f, ms, target), NEW e \in entities' \ entities
      PROVE  \E row \in memberships' : row.entity = e
  <2>1. e = target /\ memberships' = Moved(ms, target, head + 1)
    BY <1>4 DEF SplitEntity
  <2>2. PICK x \in Leaving(ms, target) : TRUE
    BY <1>4, <2>1, SplitShape
  <2>3. PICK row \in memberships' : row = [mention |-> x.mention, entity |-> target,
                                         opened |-> head + 1, closed |-> Open]
    BY <1>1, <2>1, MovedHas
  <2> QED
    BY <2>1, <2>3
<1>5. \/ entities' = entities
      \/ \E k \in Claims, s \in Entities, o \in Entities \cup {None}, sm, om \in Mentions \cup {None} :
           RecordClaim(k, s, sm, o, om)
      \/ \E parent \in 0..MaxRevision, e \in entities, ms \in SUBSET Mentions, target \in Entities :
           SplitEntity(parent, e, ms, target)
  BY ZenonT(60) DEF Next, vars, Record, Adjudicate, RetractClaim, ConfirmMatch, RejectMatch, MarkUnresolved
<1> QED
  BY <1>2, <1>3, <1>4, <1>5

\* What a split in doubt leaves behind, by the lineage and the holdings of a revision.
InDoubt(k, d, before, held) ==
  LET split(e) == \E x \in d.inputs : <<x, Resolve(before, e)>> \in held
  IN  \/ split(k.subject) /\ k.subjectMention = None
      \/ k.object # None /\ split(k.object) /\ k.objectMention = None

\* What a split left behind is in doubt by the revision before it.
LEMMA LeftBehindIs ==
  ASSUME NEW d
  PROVE  LeftBehind(d) = {k \in claims : /\ k.revision < d.revision /\ ~k.retracted
                                         /\ InDoubt(k, d, At(d.revision - 1), HeldAt(d.revision - 1))}
BY DEF LeftBehind, InDoubt, At

\* An old split leaves nothing more behind, and does not turn into one that created.
LEMMA OldSplits ==
  ASSUME IInv, [Next]_vars, NoLateMentionAtDecision', NEW d \in decisions, d.kind = "split"
  PROVE  /\ LeftBehind(d)' \subseteq LeftBehind(d)
         /\ WentToNewEntity(d)' => WentToNewEntity(d)
<1>1. /\ head \in Nat /\ Rows /\ (MovesRows \/ OpensRows \/ KeepsRows) /\ d.revision \in 1..head
      /\ d.revision - 1 \in Nat /\ d.revision - 1 < head
  BY DecisionsStep, SomeStep DEF IInv, Stamps
<1>2. At(d.revision - 1)' = At(d.revision - 1) /\ HeldAt(d.revision - 1)' = HeldAt(d.revision - 1)
  BY <1>1, LineageStays, HeldFrozen
<1>3. ASSUME NEW k \in LeftBehind(d)'
      PROVE  k \in LeftBehind(d)
  <2>1. /\ k \in claims' /\ k.revision < d.revision /\ ~k.retracted
        /\ InDoubt(k, d, At(d.revision - 1)', HeldAt(d.revision - 1)')
    BY DEF LeftBehind, InDoubt, At
  <2>2. k \in claims
    BY <1>1, <2>1, ClaimsStep DEF ClaimsGoOn
  <2> QED
    BY <1>2, <2>1, <2>2, LeftBehindIs
<1>4. ASSUME WentToNewEntity(d)'
      PROVE  WentToNewEntity(d)
  <2>1. PICK y \in memberships' :
          /\ y.opened = d.revision /\ y.mention \in d.inputs /\ y.entity \notin BaselineEntities
          /\ \A x \in memberships' : x.entity = y.entity => x.opened >= d.revision
    BY <1>4 DEF WentToNewEntity
  <2>2. y \in memberships \/ \E row \in memberships :
          y.mention = row.mention /\ y.entity = row.entity /\ y.opened = row.opened
    <3>1. CASE y.opened # head'
      BY <1>1, <3>1, RowWas
    <3>2. CASE y.opened = head' /\ y \notin memberships
      <4>1. head' = head /\ d.revision = head
        BY <1>1, <2>1, <3>2, DecisionsStep
      <4>2. ~MovesRows /\ ~KeepsRows
        BY <1>1, <3>2, <4>1 DEF MovesRows, KeepsRows
      <4> QED
        BY <1>1, <3>2, <4>1, <4>2, LateElsewhere DEF Moving
    <3> QED
      BY <3>1, <3>2
  <2>3. PICK row \in memberships :
          y.mention = row.mention /\ y.entity = row.entity /\ y.opened = row.opened
    BY <2>2
  <2>4. ASSUME NEW x \in memberships, x.entity = row.entity
        PROVE  x.opened >= d.revision
    BY <1>1, <2>1, <2>3, <2>4, RowStays
  <2> QED
    BY <2>1, <2>3, <2>4 DEF WentToNewEntity
<1> QED
  BY <1>3, <1>4

\* A split that creates its target queues what it leaves behind.
LEMMA NewSplits ==
  ASSUME IInv, [Next]_vars, NoLateMentionAtDecision', MapOK, QueueOK,
         NEW parent, NEW e \in entities, NEW ms \in SUBSET Mentions, NEW target \in Entities,
         SplitEntity(parent, e, ms, target), NEW d \in decisions' \ decisions,
         WentToNewEntity(d)', NEW k \in LeftBehind(d)'
  PROVE  Queued(k, d)'
<1>1. /\ head \in Nat /\ Rows /\ OpenDecision("split", parent, ms) /\ claims' = claims
      /\ memberships' = Moved(ms, target, head + 1) /\ ms \subseteq MentionsOf(e)
  BY DecisionsStep DEF IInv, SplitEntity, MayLeave
<1>2. d.inputs = ms /\ d.revision = head + 1 /\ head' = head + 1 /\ d.revision - 1 = head
  BY <1>1, NewDecision
<1>3. ~OpensRows /\ MovesRows
  BY <1>1, <1>2 DEF OpensRows, MovesRows, OpenDecision
<1>4. PICK rev \in Nat : rev = head
  BY <1>1
<1>5. k \in claims /\ ~k.retracted /\ InDoubt(k, d, Lineage, HeldAt(head))
  <2>1. d.revision - 1 = rev
    BY <1>1, <1>2, <1>4
  <2>2. At(rev)' = At(rev) /\ HeldAt(rev)' = HeldAt(rev)
    BY <1>1, <1>3, <1>4, LineageStays, HeldFrozen
  <2>3. k \in claims' /\ ~k.retracted /\ InDoubt(k, d, At(rev)', HeldAt(rev)')
    BY <2>1 DEF LeftBehind, InDoubt, At
  <2> QED
    BY <1>1, <1>4, <2>2, <2>3 DEF At, Lineage
<1>6. target \notin entities
  <2>1. PICK y \in memberships' :
          /\ y.opened = head + 1 /\ y.entity \notin BaselineEntities
          /\ \A x \in memberships' : x.entity = y.entity => x.opened >= head + 1
    BY <1>2 DEF WentToNewEntity
  <2>2. y.entity = target
    <3>1. \A row \in memberships : row.opened # head + 1
      BY <1>1 DEF Rows, Membership
    <3> QED
      BY <1>1, <2>1, <3>1, MovedRow DEF Leaving, Active
  <2>3. \A row \in memberships : row.entity # target
    <3> SUFFICES ASSUME NEW row \in memberships, row.entity = target PROVE FALSE
      OBVIOUS
    <3>1. PICK x \in memberships' : x.entity = target /\ x.opened = row.opened
      BY <1>1, <1>3, RowStays
    <3>2. row.opened <= head /\ row.opened \in Nat
      BY <1>1, LedgerAssumption DEF Rows, Membership, LedgerAssumption
    <3> QED
      BY <1>1, <2>1, <2>2, <3>1, <3>2
  <2> QED
    BY <2>1, <2>2, <2>3 DEF QueueOK
<1>7. ASSUME NEW z \in entities, \E x \in d.inputs : <<x, Resolve(Lineage, z)>> \in HeldAt(head)
      PROVE  z \in {e} \cup {x \in DOMAIN canonical : canonical[x] = e}
  <2>1. PICK x \in ms : Belongs(x, Resolve(Lineage, z))
    BY <1>1, <1>2, <1>7, HeadIsActive
  <2>2. Belongs(x, e)
    BY <1>1 DEF MentionsOf
  <2>3. Resolve(Lineage, z) = e
    BY <2>1, <2>2 DEF Belongs, Active, IInv, OneEntityPerMention
  <2>4. CanonicalIn(canonical, z) = e
    BY <2>3 DEF MapOK, MapIsReplay
  <2> QED
    BY <2>4 DEF CanonicalIn
<1>8. k \in UnattributableClaims(e)
  <2>1. k.subject \in entities /\ (k.object # None => k.object \in entities)
    BY <1>5, LedgerAssumption DEF IInv, TypeOK, ClaimRow, LedgerAssumption
  <2> QED
    BY <1>5, <1>7, <2>1 DEF UnattributableClaims, InDoubt
<1>9. Reattribution(k, e, target) \in queue'
  BY <1>6, <1>8 DEF SplitEntity
<1>10. Reattribution(k, e, target).claim = k.id /\ Reattribution(k, e, target).decision = head + 1
  BY DEF Reattribution
<1> QED
  BY <1>2, <1>9, <1>10 DEF Queued

\* The drafts of a split that creates its target repoint one argument each.
LEMMA NewDrafts ==
  ASSUME IInv, [Next]_vars, MapOK, NotAbsorbedWhileHolding, QueueOK,
         NEW parent, NEW e \in entities, NEW ms \in SUBSET Mentions, NEW target \in Entities \ entities,
         SplitEntity(parent, e, ms, target), NEW j \in UnattributableClaims(e)
  PROVE  LET q == Reattribution(j, e, target)
         IN  \/ q.subject = q.created /\ q.object = j.object /\ j.subjectMention = None
             \/ q.object = q.created /\ q.subject = j.subject /\ j.objectMention = None
<1>1. /\ RebuildCanonicalMap /\ OpenDecision("split", parent, ms)
      /\ memberships' = Moved(ms, target, head + 1)
      /\ entities' = entities \cup {target}
      /\ Rows /\ head \in Nat /\ head' = head + 1
  BY DecisionsStep DEF SplitEntity, IInv, OpenDecision
<1>2. IsFiniteSet(DOMAIN Lineage) /\ DOMAIN Lineage \subseteq entities
  BY <1>1, LineageFinite DEF Lineage, IInv, TypeOK
<1>3. Lineage' = Lineage
  <2>1. StandingUp(e, target) = {target}
    BY DEF StandingUp
  <2>2. IsLineage(Lineage, entities)
    BY <1>1, LineageOverRows DEF Lineage, IInv, TypeOK
  <2>3. DOMAIN Lineage \ {target} = DOMAIN Lineage
    BY <1>2
  <2>4. Lineage' = [z \in DOMAIN Lineage |-> Lineage[z]]
    BY <2>1, <2>3, SplitLineage DEF AfterSplit, Restrict
  <2> QED
    BY <2>2, <2>4 DEF IsLineage
<1>4. \A z \in entities : CanonicalIn(canonical', z) = CanonicalIn(canonical, z)
  <2>1. MapIsReplay'
    BY <1>1, RebuiltIsReplay
  <2>2. \A z \in entities' : CanonicalIn(canonical', z) = Resolve(Lineage', z)
    BY <2>1 DEF MapIsReplay
  <2> QED
    BY <1>1, <1>3, <2>2 DEF MapOK, MapIsReplay
<1>5. CanonicalIn(canonical, e) = e
  <2>1. PICK row \in Active : row.entity = e
    BY ZenonT(60), SplitShape
  <2>2. row.opened \in Nat /\ row.opened <= head
    BY <1>1, <2>1, LedgerAssumption DEF Active, Rows, Membership, LedgerAssumption
  <2>3. row \in memberships /\ row.closed = Open /\ head \in row.opened..head
    BY <1>1, <2>1, <2>2 DEF Active
  <2>4. e \notin DOMAIN At(head)
    BY <2>1, <2>3 DEF NotAbsorbedWhileHolding
  <2> QED
    BY <1>2, <2>4, ResolveOutside DEF At, Lineage, MapOK, MapIsReplay
<1>6. \A z \in {e} \cup {x \in DOMAIN canonical : canonical[x] = e} :
        z \in entities /\ CanonicalIn(canonical', z) = e
  BY <1>4, <1>5 DEF CanonicalIn, IInv, TypeOK
<1>7. /\ j \in claims /\ None \notin entities
      /\ j.subject \in entities
  BY LedgerAssumption DEF UnattributableClaims, IInv, TypeOK, ClaimRow, LedgerAssumption
<1>8. \/ CanonicalIn(canonical', j.subject) = e /\ j.subjectMention = None
      \/ j.object # None /\ CanonicalIn(canonical', j.object) = e /\ j.objectMention = None
  BY <1>6, <1>7 DEF UnattributableClaims
<1> QED
  BY <1>8 DEF Reattribution

\* No step spoils a draft, and a new one is in order.
LEMMA DraftsStep ==
  ASSUME IInv, [Next]_vars, QueueOK, DraftsRepointOneArgument, NoLateMentionAtDecision => MapOK,
         HistoryOK
  PROVE  DraftsRepointOneArgument'
<1> SUFFICES ASSUME NoLateMentionAtDecision', NoMentionOnAbsorbedEntity',
                    NEW q \in queue', NEW k \in claims', k.id = q.claim
             PROVE  \/ q.subject = q.created /\ q.object = k.object /\ k.subjectMention = None
                    \/ q.object = q.created /\ q.subject = k.subject /\ k.objectMention = None
  BY DEF DraftsRepointOneArgument
<1>1. NoLateMentionAtDecision /\ NoMentionOnAbsorbedEntity /\ MapOK /\ NotAbsorbedWhileHolding
  BY LateStays, OnAbsorbedStays DEF HistoryOK
<1>2. CASE q \in queue
  <2>1. PICK l \in claims : l.id = q.claim
    BY <1>2 DEF QueueOK
  <2>2. PICK m \in claims : SameClaim(k, m)
    BY <2>1, ClaimsStep DEF ClaimsGoOn, SameClaim
  <2> QED
    BY <1>1, <1>2, <2>2 DEF SameClaim, DraftsRepointOneArgument
<1>3. CASE q \notin queue
  <2>1. PICK parent \in 0..MaxRevision, e \in entities, ms \in SUBSET Mentions, target \in Entities :
          SplitEntity(parent, e, ms, target)
    BY <1>3, QueueStep
  <2>2. /\ target \notin entities /\ claims' = claims
        /\ queue' = queue \cup {Reattribution(j, e, target) : j \in UnattributableClaims(e)}
    BY <1>3, <2>1 DEF SplitEntity
  <2>3. PICK j \in UnattributableClaims(e) : q = Reattribution(j, e, target)
    BY <1>3, <2>2
  <2>4. j = k
    BY <2>2, <2>3 DEF Reattribution, UnattributableClaims, QueueOK
  <2> QED
    BY <1>1, <2>1, <2>2, <2>3, <2>4, NewDrafts
<1> QED
  BY <1>2, <1>3

\* No step leaves a claim in doubt unqueued.
LEMMA CreationStep ==
  ASSUME IInv, [Next]_vars, QueueOK, UnanchoredClaimsAreQueuedOnCreation,
         NoLateMentionAtDecision => MapOK
  PROVE  UnanchoredClaimsAreQueuedOnCreation'
<1> SUFFICES ASSUME NoLateMentionAtDecision', NEW d \in decisions', d.kind = "split",
                    WentToNewEntity(d)', NEW k \in LeftBehind(d)'
             PROVE  Queued(k, d)'
  BY DEF UnanchoredClaimsAreQueuedOnCreation
<1>1. NoLateMentionAtDecision /\ MapOK
  BY LateStays
<1>2. CASE d \in decisions
  <2>1. Queued(k, d)
    BY <1>1, <1>2, OldSplits DEF UnanchoredClaimsAreQueuedOnCreation
  <2>2. queue \subseteq queue'
    BY QueueStep DEF SplitEntity
  <2> QED
    BY <2>1, <2>2 DEF Queued
<1>3. CASE d \notin decisions
  <2>1. PICK parent \in 0..MaxRevision, e \in entities, ms \in SUBSET Mentions, target \in Entities :
          SplitEntity(parent, e, ms, target)
    BY <1>3, QueueStep
  <2> QED
    BY <1>1, <1>3, <2>1, NewSplits
<1> QED
  BY <1>2, <1>3

\* Claims keep ids of their own, and drafts their claims.
LEMMA QueueOKStep ==
  ASSUME IInv, [Next]_vars, QueueOK
  PROVE  QueueOK'
<1>1. ClaimsGoOn
  BY ClaimsStep
<1>2. \A k, l \in claims' : k.id = l.id => k = l
  BY <1>1 DEF ClaimsGoOn, QueueOK
<1>3. ASSUME NEW q \in queue'
      PROVE  \E k \in claims : k.id = q.claim
  <2>1. CASE q \in queue
    BY <2>1 DEF QueueOK
  <2>2. CASE q \notin queue
    <3>1. \E e, target : \E j \in UnattributableClaims(e) : q = Reattribution(j, e, target)
      BY ZenonT(60), <2>2, QueueStep DEF SplitEntity
    <3> QED
      BY <3>1 DEF Reattribution, UnattributableClaims
  <2> QED
    BY <2>1, <2>2
<1>4. \A q \in queue' : \E k \in claims' : k.id = q.claim
  BY <1>1, <1>3 DEF ClaimsGoOn, SameClaim
<1>5. \A e \in entities' \ BaselineEntities : \E row \in memberships' : row.entity = e
  BY EntitiesHeld DEF QueueOK
<1> QED
  BY <1>2, <1>4, <1>5 DEF QueueOK

\* No claim that a split leaves in doubt is lost, and none is put to a human with the
\* wrong argument moved (_unattributable_claims, _queue_reattribution).
THEOREM NoneLeftBehind == Spec => []SplitsQueueTheUnattributed
<1>1. Init => QueueOK /\ SplitsQueueTheUnattributed
  BY DEF Init, QueueOK, SplitsQueueTheUnattributed, UnanchoredClaimsAreQueuedOnCreation,
         DraftsRepointOneArgument
<1>2. /\ IInv /\ HistoryOK /\ (NoLateMentionAtDecision => MapOK) /\ [Next]_vars
      /\ QueueOK /\ SplitsQueueTheUnattributed
      => (QueueOK /\ SplitsQueueTheUnattributed)'
  BY QueueOKStep, CreationStep, DraftsStep DEF SplitsQueueTheUnattributed
<1> QED
  BY <1>1, <1>2, InvariantHolds, HistoryHolds, MapHolds, PTL DEF Spec
-----------------------------------------------------------------------------
\* Who is absorbed resolves to what his survivor resolves to.
LEMMA ResolveOnward ==
  ASSUME NEW parent, IsFiniteSet(DOMAIN parent), NEW entity \in DOMAIN parent,
         Resolve(parent, entity) \notin DOMAIN parent
  PROVE  Resolve(parent, parent[entity]) = Resolve(parent, entity)
<1>1. PICK N \in Nat : N = Cardinality(DOMAIN parent) /\ N # 0
  BY FS_CardinalityType, FS_EmptySet
<1>2. \A e : Resolve(parent, e) = (CHOOSE at : IsWalk(at, parent, e, N))[N]
  BY <1>1 DEF Resolve, IsWalk
<1>3. PICK f : f = (CHOOSE x : IsWalk(x, parent, entity, N)) /\ IsWalk(f, parent, entity, N)
  BY WalkExists
<1>4. PICK g : g = (CHOOSE x : IsWalk(x, parent, parent[entity], N))
               /\ IsWalk(g, parent, parent[entity], N)
  BY WalkExists
<1> DEFINE Next_(c) == IF c \in DOMAIN parent THEN parent[c] ELSE c
<1>5. /\ \A k \in 0..N : f[k] = IF k = 0 THEN entity ELSE Next_(f[k - 1])
      /\ \A k \in 0..N : g[k] = IF k = 0 THEN parent[entity] ELSE Next_(g[k - 1])
  BY <1>3, <1>4 DEF IsWalk
<1> DEFINE Bad == {k \in 0..(N - 1) : g[k] # f[k + 1]}
<1>6. Bad = {}
  <2> SUFFICES ASSUME Bad # {} PROVE FALSE
    OBVIOUS
  <2>1. PICK k \in Bad : \A x \in Bad : k <= x
    <3> HIDE DEF Bad
    <3>1. Bad \in SUBSET Nat
      BY <1>1 DEF Bad
    <3> QED
      BY <3>1, LeastOf
  <2>2. k \in 0..(N - 1) /\ k \in 0..N /\ k + 1 \in 0..N /\ k + 1 # 0 /\ (k + 1) - 1 = k
    BY <1>1, <2>1
  <2>3. f[k + 1] = Next_(f[k])
    BY <1>5, <2>2
  <2>4. k # 0
    BY <1>5, <2>1, <2>2, <2>3
  <2>5. k - 1 \in 0..(N - 1) /\ ~(k <= k - 1) /\ (k - 1) + 1 = k
    BY <2>2, <2>4
  <2>6. g[k - 1] = f[k]
    BY <2>1, <2>5
  <2>7. g[k] = Next_(g[k - 1])
    BY <1>5, <2>2, <2>4
  <2> QED
    BY <2>1, <2>3, <2>6, <2>7
<1>7. N - 1 \in 0..(N - 1) /\ (N - 1) + 1 = N /\ N \in 0..N
  BY <1>1
<1>8. g[N - 1] = f[N]
  BY <1>6, <1>7
<1>9. g[N] = Next_(f[N])
  BY <1>1, <1>5, <1>7, <1>8
<1> QED
  BY <1>2, <1>3, <1>4, <1>9

\* A merge redirects what resolved to the absorbed one to the survivor, and nothing else.
LEMMA MergeResolves ==
  ASSUME NEW L, IsFiniteSet(DOMAIN L), NEW es, IsLineage(L, es), Replayable(L, es),
         NEW a \in es \ DOMAIN L, NEW s \in es \ DOMAIN L, s # a,
         NEW M, M = [e \in DOMAIN L \cup {a} |-> IF e \in {a} THEN s ELSE L[e]],
         Replayable(M, es), NEW z \in es
  PROVE  Resolve(M, z) = IF Resolve(L, z) = a THEN s ELSE Resolve(L, z)
<1> DEFINE Redirected(y) == IF Resolve(L, y) = a THEN s ELSE Resolve(L, y)
           S == {y \in es : Redirected(y) = Redirected(z)}
<1>1. IsFiniteSet(DOMAIN M) /\ DOMAIN M = DOMAIN L \cup {a}
  BY FS_AddElement
<1>2. Redirected(s) = s /\ Redirected(a) = s
  BY ResolveOutside
<1>3. ASSUME NEW y \in S, y \in DOMAIN M
      PROVE  M[y] \in S
  <2>1. CASE y = a
    BY <1>2, <1>3, <2>1
  <2>2. CASE y # a
    <3>1. y \in DOMAIN L /\ M[y] = L[y] /\ L[y] \in es
      BY <1>3, <2>2 DEF IsLineage
    <3>2. Resolve(L, L[y]) = Resolve(L, y)
      BY <3>1, ResolveOnward DEF Replayable
    <3> QED
      BY <1>3, <3>1, <3>2
  <2> QED
    BY <2>1, <2>2
<1>4. Resolve(M, z) \in S
  <2>1. z \in S
    OBVIOUS
  <2> HIDE DEF S
  <2> QED
    BY <1>1, <1>3, <2>1, ResolveStays
<1>5. Resolve(M, z) \notin DOMAIN M
  BY DEF Replayable
<1>6. PICK t : t = Resolve(M, z)
  OBVIOUS
<1>7. Redirected(t) = t
  BY <1>1, <1>5, <1>6, ResolveOutside
<1> QED
  BY <1>4, <1>6, <1>7

-----------------------------------------------------------------------------
\* As long as nothing was split, a mention that an entity once held belongs to whoever
\* the entity resolves to.
Unsplit ==
  /\ NoLateMentionAtDecision /\ NoMentionOnAbsorbedEntity
  /\ ~\E d \in decisions : d.kind = "split"

Holds(active, e, m) == \E x \in active : x.mention = m /\ x.entity = e
MentionsFollow ==
  \A row \in memberships : Holds(Active, Resolve(Lineage, row.entity), row.mention)

\* No step takes a mention elsewhere.
LEMMA FollowStep ==
  ASSUME IInv, IInv', [Next]_vars, Unsplit', MapOK, NotAbsorbedWhileHolding, MentionsFollow
  PROVE  MentionsFollow'
<1>1. /\ head \in Nat /\ Rows /\ (MovesRows \/ OpensRows \/ KeepsRows)
      /\ entities \subseteq Entities /\ (\A row \in memberships : row.entity \in entities)
  BY DecisionsStep, SomeStep DEF IInv, TypeOK
<1>2. IsFiniteSet(DOMAIN Lineage) /\ IsLineage(Lineage, entities) /\ DOMAIN Lineage \subseteq entities
  BY <1>1, LineageFinite, LineageOverRows DEF Lineage
<1>3. Replayable(Lineage, entities)
  BY DEF MapOK
<1>4. ASSUME NEW parent, NEW u \in Mentions, NEW v \in Mentions, NEW c, ConfirmMatch(parent, u, v, c)
      PROVE  MentionsFollow'
  <2>1. PICK s \in Entities, a \in Entities :
          /\ s # a /\ memberships' = Moved(MentionsOf(a), s, head + 1)
          /\ Leaving(MentionsOf(a), s) = {row \in Active : row.entity = a}
          /\ \E row \in Active : row.entity = a
          /\ \E row \in Active : row.entity = s
    BY <1>4, ConfirmShape
  <2>2. Lineage' = [e \in DOMAIN Lineage \cup {a} |-> IF e \in {a} THEN s ELSE Lineage[e]]
    BY <1>4, <2>1, ConfirmLineage
  <2>3. \A e \in {s, a} : e \in entities \ DOMAIN Lineage
    <3>1. ASSUME NEW row \in Active
          PROVE  row.entity \in entities \ DOMAIN Lineage
      <4>1. row \in memberships /\ row.closed = Open /\ head \in row.opened..head
        BY <1>1, LedgerAssumption DEF Active, Rows, Membership, LedgerAssumption
      <4>2. row.entity \notin DOMAIN At(head)
        BY <4>1 DEF NotAbsorbedWhileHolding
      <4> QED
        BY <1>1, <4>1, <4>2 DEF At, Lineage
    <3> QED
      BY <2>1, <3>1
  <2>4. entities' = entities /\ Replayable(Lineage', entities')
    BY <1>4, RebuiltIsReplay DEF ConfirmMatch, OpenDecision
  <2>5. \A z \in entities :
          Resolve(Lineage', z) = IF Resolve(Lineage, z) = a THEN s ELSE Resolve(Lineage, z)
    BY <1>2, <1>3, <2>1, <2>2, <2>3, <2>4, MergeResolves
  <2>6. MentionsOf(a) \in SUBSET Mentions
    BY DEF MentionsOf
  <2>7. ASSUME NEW x \in Active
        PROVE  Holds(Active', IF x.entity = a THEN s ELSE x.entity, x.mention)
    <3>1. CASE x.entity = a
      <4>1. PICK y \in memberships' : y = [mention |-> x.mention, entity |-> s,
                                           opened |-> head + 1, closed |-> Open]
        BY <1>1, <2>1, <2>6, <3>1, MovedHas
      <4>2. y \in Active' /\ y.mention = x.mention /\ y.entity = s
        BY <4>1 DEF Active
      <4> QED
        BY <3>1, <4>2 DEF Holds
    <3>2. CASE x.entity # a
      <4>1. x \in memberships \ Leaving(MentionsOf(a), s)
        BY <2>1, <3>2 DEF Active
      <4>2. x \in Active'
        BY <1>1, <2>1, <2>6, <4>1, MovedHas DEF Active
      <4> QED
        BY <3>2, <4>2 DEF Holds
    <3> QED
      BY <3>1, <3>2
  <2>8. ASSUME NEW row \in memberships
        PROVE  Holds(Active', Resolve(Lineage', row.entity), row.mention)
    <3>1. PICK x \in Active : x.mention = row.mention /\ x.entity = Resolve(Lineage, row.entity)
      BY DEF MentionsFollow, Holds
    <3>2. Resolve(Lineage', row.entity) = IF x.entity = a THEN s ELSE x.entity
      BY <1>1, <2>5, <3>1
    <3>3. Holds(Active', IF x.entity = a THEN s ELSE x.entity, row.mention)
      BY <2>7, <3>1
    <3> QED
      BY <3>2, <3>3
  <2>9. ASSUME NEW y \in memberships'
        PROVE  Holds(Active', Resolve(Lineage', y.entity), y.mention)
    <3>1. CASE \E row \in memberships : y.mention = row.mention /\ y.entity = row.entity
      BY <2>8, <3>1
    <3>2. CASE y = [mention |-> y.mention, entity |-> s, opened |-> head + 1, closed |-> Open]
      <4>1. Resolve(Lineage, s) = s /\ y.entity = s /\ y.closed = Open
        BY <1>2, <2>3, <3>2, ResolveOutside
      <4>2. Resolve(Lineage', s) = s
        BY <2>1, <2>3, <2>5, <4>1
      <4> QED
        BY <4>1, <4>2 DEF Holds, Active
    <3>3. \/ y \in memberships
          \/ \E x \in Leaving(MentionsOf(a), s) :
               \/ y = [mention |-> x.mention, entity |-> x.entity,
                       opened |-> x.opened, closed |-> head + 1]
               \/ y = [mention |-> x.mention, entity |-> s,
                       opened |-> head + 1, closed |-> Open]
      BY <1>1, <2>1, <2>6, MovedRow
    <3> QED
      BY <3>1, <3>2, <3>3 DEF Leaving, Active
  <2> QED
    BY <2>9 DEF MentionsFollow
<1>5. ASSUME NEW parent, NEW u, NEW v, NEW c,
             RejectMatch(parent, u, v, c) \/ MarkUnresolved(parent, u, v, c)
      PROVE  MentionsFollow'
  <2>1. /\ memberships' = memberships
        /\ \E kind \in {"reject", "unresolved"} : \E inputs : OpenDecision(kind, parent, inputs)
    BY <1>5 DEF RejectMatch, MarkUnresolved
  <2>2. PICK kind \in {"reject", "unresolved"} : \E inputs : OpenDecision(kind, parent, inputs)
    BY <2>1
  <2>3. ~OpensRows
    BY <1>1, <2>2 DEF OpensRows, OpenDecision
  <2>4. Lineage' = Lineage
    BY <2>2, <2>3, DecisionLineage
  <2> QED
    BY <2>1, <2>4 DEF MentionsFollow, Active
<1>6. ASSUME NEW parent, NEW e, NEW ms, NEW target, SplitEntity(parent, e, ms, target)
      PROVE  FALSE
  <2>1. OpenDecision("split", parent, ms)
    BY <1>6 DEF SplitEntity
  <2> QED
    BY <2>1, NewDecision DEF Unsplit
<1>7. ASSUME NEW k \in Claims, NEW s \in Entities, NEW o \in Entities \cup {None},
             NEW sm \in Mentions \cup {None}, NEW om \in Mentions \cup {None},
             RecordClaim(k, s, sm, o, om)
      PROVE  MentionsFollow'
  <2>1. head' = head /\ memberships \subseteq memberships'
    BY <1>7 DEF RecordClaim
  <2>2. Lineage' = Lineage
    BY <1>1, <2>1, LineageStays DEF At, Lineage, Unsplit
  <2>3. Active \subseteq Active'
    BY <2>1 DEF Active
  <2>4. ASSUME NEW y \in memberships', y \notin memberships
        PROVE  y.opened = head /\ y.closed = Open
    <3>1. y \in Opening(s, sm) \/ y \in Opening(o, om)
      BY <1>7, <2>4 DEF RecordClaim
    <3> QED
      BY <3>1, OpeningRow
  <2>5. ASSUME NEW y \in memberships', y \notin memberships
        PROVE  Holds(Active', Resolve(Lineage, y.entity), y.mention)
    <3>1. y.entity \notin DOMAIN LineageFromLedger(memberships', decisions', y.opened)
      BY DEF Unsplit, NoMentionOnAbsorbedEntity
    <3>2. y.entity \notin DOMAIN Lineage
      BY <2>1, <2>2, <2>4, <2>5, <3>1 DEF Lineage
    <3> QED
      BY <1>2, <2>4, <2>5, <3>2, ResolveOutside DEF Holds, Active
  <2> QED
    BY <2>2, <2>3, <2>5 DEF MentionsFollow, Holds
<1>8. CASE UNCHANGED vars \/ \E k \in Claims : RetractClaim(k)
  <2>1. memberships' = memberships /\ head' = head /\ decisions' = decisions
    BY <1>8 DEF vars, RetractClaim
  <2> QED
    BY <2>1 DEF MentionsFollow, Active, Lineage
<1> QED
  BY <1>4, <1>5, <1>6, <1>7, <1>8 DEF Next, Record, Adjudicate

\* Mentions follow the map in every state in which nothing was split.
LEMMA FollowHolds == Spec => [](Unsplit => MentionsFollow)
<1>1. Init => MentionsFollow
  <2> SUFFICES ASSUME Init PROVE MentionsFollow
    OBVIOUS
  <2>1. Lineage = NoLineage /\ Active = memberships
    BY LineageAtZero DEF Lineage, Init, Active
  <2>2. DOMAIN NoLineage = {} /\ IsFiniteSet({})
    BY FS_EmptySet DEF NoLineage
  <2>3. \A e : Resolve(NoLineage, e) = e
    BY <2>2, ResolveOutside
  <2> QED
    BY <2>1, <2>3 DEF MentionsFollow, Holds
<1>2. ASSUME IInv, [Next]_vars, Unsplit'
      PROVE  Unsplit
  BY <1>2, LateStays, OnAbsorbedStays, DecisionsStep DEF Unsplit
<1>3. /\ IInv /\ IInv' /\ [Next]_vars /\ HistoryOK /\ (NoLateMentionAtDecision => MapOK)
      /\ (Unsplit => MentionsFollow)
      => (Unsplit => MentionsFollow)'
  BY <1>2, FollowStep DEF Unsplit, HistoryOK
<1> QED
  BY <1>1, <1>3, InvariantHolds, HistoryHolds, MapHolds, PTL DEF Spec

-----------------------------------------------------------------------------
\* An anchor belongs now to whoever the entity it was an anchor of resolves to.
LEMMA PathsMeet ==
  ASSUME IInv, AnchorsHeldWhenWritten, NoLateMentionAtDecision => MapOK, Unsplit => MentionsFollow
  PROVE  PathsAgree
<1> SUFFICES ASSUME Unsplit
             PROVE  \A k \in claims :
                      /\ k.subjectMention # None =>
                           Belongs(k.subjectMention, CanonicalIn(canonical, k.subject))
                      /\ k.objectMention # None =>
                           Belongs(k.objectMention, CanonicalIn(canonical, k.object))
  BY DEF PathsAgree, Unsplit
<1>1. ASSUME NEW m, NEW e, NEW rev, <<m, e>> \in HeldAt(rev)
      PROVE  Belongs(m, CanonicalIn(canonical, e))
  <2>1. PICK row \in memberships : row.mention = m /\ row.entity = e
    BY <1>1 DEF HeldAt
  <2>2. Belongs(m, Resolve(Lineage, e))
    BY <2>1 DEF MentionsFollow, Holds, Belongs
  <2> QED
    BY <2>1, <2>2 DEF Unsplit, MapOK, MapIsReplay, IInv, TypeOK
<1> QED
  BY <1>1 DEF AnchorsHeldWhenWritten

\* Both of the claim's ends are where the map leads from the entities it names.
LEMMA EndsByTheMap ==
  ASSUME IInv, PathsAgree, Unsplit, NEW k \in claims, k.object # None
  PROVE  CurrentEdge(k).ends = {CanonicalIn(canonical, k.subject), CanonicalIn(canonical, k.object)}
<1> DEFINE anchors == [m \in {row.mention : row \in Active} |-> CHOOSE e \in Entities : Belongs(m, e)]
<1>1. ASSUME NEW e, NEW m, m # None => Belongs(m, CanonicalIn(canonical, e))
      PROVE  EndpointOf(canonical, anchors, e, m) = CanonicalIn(canonical, e)
  <2>1. CASE m # None /\ m \in DOMAIN anchors
    <3>1. \A x : Belongs(m, x) => x \in Entities /\ x = CanonicalIn(canonical, e)
      BY <1>1, <2>1 DEF Belongs, Active, IInv, OneEntityPerMention, TypeOK
    <3>2. (CHOOSE x \in Entities : Belongs(m, x)) = CanonicalIn(canonical, e)
      BY <1>1, <2>1, <3>1
    <3> QED
      BY <2>1, <3>2 DEF EndpointOf
  <2>2. CASE ~(m # None /\ m \in DOMAIN anchors)
    BY <2>2 DEF EndpointOf
  <2> QED
    BY <2>1, <2>2
<1>2. /\ k.subjectMention # None => Belongs(k.subjectMention, CanonicalIn(canonical, k.subject))
      /\ k.objectMention # None => Belongs(k.objectMention, CanonicalIn(canonical, k.object))
  BY DEF PathsAgree, Unsplit
<1>3. CurrentEdge(k).ends = {EndpointOf(canonical, anchors, k.subject, k.subjectMention),
                             EndpointOf(canonical, anchors, k.object, k.objectMention)}
  BY DEF CurrentEdge, EdgeOf
<1> QED
  BY <1>1, <1>2, <1>3

\* Where nothing was split the panel has what the graph draws, and the two ways of telling
\* who is who agree; and the line of an entity has every decision about the ids it is
\* asked about by (why_connected, identity_history).
THEOREM NothingLostToThePanel == Spec => []PanelLosesNothing
<1>1. ASSUME IInv, PathsAgree
      PROVE  MergedEdgesAreExplained
  <2> SUFFICES ASSUME Unsplit, NEW k \in Projectable, NEW x \in entities, NEW y \in entities,
                      Cardinality(CurrentEdge(k).ends) = 2,
                      CurrentEdge(k).ends = {CanonicalIn(canonical, x), CanonicalIn(canonical, y)}
               PROVE  k \in WhyConnected(x, y)
    BY DEF MergedEdgesAreExplained, OpensOntoItsClaim, Unsplit
  <2>1. CurrentEdge(k).ends = {CanonicalIn(canonical, k.subject), CanonicalIn(canonical, k.object)}
    BY <1>1, EndsByTheMap DEF Projectable
  <2>2. \/ /\ CanonicalIn(canonical, k.subject) = CanonicalIn(canonical, x)
           /\ CanonicalIn(canonical, k.object) = CanonicalIn(canonical, y)
        \/ /\ CanonicalIn(canonical, k.subject) = CanonicalIn(canonical, y)
           /\ CanonicalIn(canonical, k.object) = CanonicalIn(canonical, x)
    BY <2>1
  <2>3. \A e, z : CanonicalIn(canonical, e) = CanonicalIn(canonical, z) => e \in AskedAbout(z)
    BY DEF AskedAbout, AbsorbedIds, CanonicalIn
  <2> QED
    BY <2>2, <2>3 DEF WhyConnected
<1>2. ASSUME IInv
      PROVE  HistoryLosesNoDecision
  <2> SUFFICES ASSUME NEW row \in memberships, NEW d \in decisions, NEW e \in entities,
                      d.revision \in {row.opened, row.closed},
                      CanonicalIn(canonical, e) = CanonicalIn(canonical, row.entity)
               PROVE  d \in IdentityHistory(e)
    BY DEF HistoryLosesNoDecision
  <2>1. row.entity \in AskedAbout(e)
    BY DEF AskedAbout, AbsorbedIds, CanonicalIn
  <2>2. d.revision # Open
    BY <1>2, LedgerAssumption DEF IInv, TypeOK, Decision, Open, LedgerAssumption
  <2> QED
    BY <2>1, <2>2 DEF IdentityHistory, IdentityLine
<1>3. /\ IInv /\ AnchorsHeldWhenWritten /\ (NoLateMentionAtDecision => MapOK)
      /\ (Unsplit => MentionsFollow)
      => PanelLosesNothing
  BY <1>1, <1>2, PathsMeet DEF PanelLosesNothing
<1> QED
  BY <1>3, InvariantHolds, AnchorsHeld, MapHolds, FollowHolds, PTL
=============================================================================
