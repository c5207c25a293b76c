-------------------------- MODULE MCEdgeProjection --------------------------
(***************************************************************************)
(* The ledger and its projection for TLC: three legacy clusters of one     *)
(* mention each (spec 05 section 7), and a spare entity.  One run explores *)
(* six scopes: decisions alone; decisions and one claim; rebuilds of two   *)
(* claims, with a decision at any moment; expansions of every small graph; *)
(* an expansion while decisions and a rebuild commit; relations of the     *)
(* claims of a small graph.  Every pair of validity windows is an initial  *)
(* state; only one pair takes steps.                                       *)
(***************************************************************************)
EXTENDS Support, TLC

CONSTANTS a, b, c, A, B, C, D, k1, k2, k3, k4

MCBaseline3 == [x \in {a, b, c} |-> CASE x = a -> A [] x = b -> B [] x = c -> C]
ABC == {A, B, C}

\* k1 holds until after k2 has begun.
Written(first, second) ==
  [k \in Claims |-> IF k = k1 THEN first ELSE IF k = k2 THEN second ELSE NoWindow]
Overlapping == validity = Written([from |-> 1, to |-> 3], [from |-> 2, to |-> Unbounded])

AtRest == projected = {} /\ \A x \in Builders : builder[x] = NoBuild

DecisionsAlone == claims = {} /\ AtRest

\* One claim, and decisions enough for a chain.
OneClaim == head <= 2 /\ entities = ABC /\ AtRest /\ \A k \in claims : k.id = k1

\* An anchored and an unanchored claim, with one object that is not anchored; were two
\* rebuilds at work, they would be so before any decision.
Rebuilds ==
  /\ head <= 1 /\ entities = ABC
  /\ claims = {} => AtRest
  /\ (\A x \in Builders : builder[x] # NoBuild) => head = 0
  /\ \A k \in claims :
       /\ k.id \in {k1, k2} /\ k.objectMention = None /\ k.object # None
       /\ (k.subjectMention = None) = (k.id = k2)
       /\ k.id = k2 => ~k.retracted
       /\ \A l \in claims : k.object = l.object

\* The ledger after claims were recorded, some of them about the spare entity, and the
\* projection was built.  Nobody, in a link, stands for a claim that was not recorded.
Nobody == <<None, None>>
Links == {Nobody} \cup {p \in ABC \X Entities : p[1] # p[2]}
LinksToD == {p \in Links : p[2] \in {None, D}}
ClaimOn(k, p) == [id |-> k, subject |-> p[1], subjectMention |-> None, object |-> p[2],
                  objectMention |-> None, revision |-> 0, retracted |-> FALSE]
Graphs ==
  {{ClaimOn(k, p[k]) : k \in {x \in Claims : p[x] # Nobody}}
     : p \in {q \in [Claims -> Links] : q[k4] \in LinksToD /\ q[k1] \in LinksToD \cup {q[k2]}}}

BuiltInit ==
  /\ claims \in Graphs
  /\ entities = ABC \cup UNION {{k.subject, k.object} : k \in claims}
  /\ memberships = {[mention |-> m, entity |-> Baseline[m], opened |-> 0, closed |-> Open]
                      : m \in DOMAIN Baseline}
  /\ tombstoned = {} /\ head = 0 /\ decisions = {} /\ constraints = {} /\ queue = {}
  /\ candidates = [x \in Candidates |-> "open"]
  /\ canonical = NoLineage
  /\ Overlapping
  /\ projected = RowsFor(NoLineage, NoLineage, claims, 0)
  /\ builder = [x \in Builders |-> NoBuild]
  /\ walk = NoWalk

MCInit ==
  \/ /\ \E first, second \in Windows : validity = Written(first, second)
     /\ GraphInit
     /\ relations = {}
  \/ BuiltInit /\ relations = {}

Decide == (\E parent \in 0..MaxRevision : Adjudicate(parent)) /\ UNCHANGED <<validity, projected, builder>>

\* Record, within the scopes: k1 first with any ends, or an unanchored k2.
RecordAClaim ==
  /\ \/ /\ claims = {}
        /\ \E e \in Entities, o \in Entities \cup {None}, m, om \in Mentions \cup {None} :
             RecordClaim(k1, e, m, o, om)
     \/ \E e, o \in Entities : RecordClaim(k2, e, None, o, None)
     \/ \E k \in {k1, k2} : RetractClaim(k)
     \/ /\ claims # {}
        /\ \E e, o \in Entities, m \in Mentions : RecordClaim(k1, e, m, o, None)
  /\ UNCHANGED <<validity, projected, builder>>

Rebuild == \E x \in Builders : Build(x)

Ledger ==
  /\ walk = NoWalk
  /\ \/ claims = {} /\ Decide /\ DecisionsAlone'
     \/ claims # {} /\ head < 2 /\ Decide /\ (OneClaim \/ Rebuilds)'
     \/ head <= 2 /\ entities = ABC /\ RecordAClaim /\ (OneClaim \/ Rebuilds)'
     \/ claims # {} /\ Rebuild /\ Rebuilds'

Bounds == {[max |-> 3, window |-> NoWindow]} \cup
          {[max |-> MaxElements + 1, window |-> w] : w \in {NoWindow, [from |-> 4, to |-> 5]}}

\* No seed, the spare entity, or it and one other; of a hidden claim, one beside another.
Question ==
  /\ head = 0 /\ projected # {} /\ \A x \in Builders : builder[x] = NoBuild
  /\ \A k \in claims : /\ k.subjectMention = None
                       /\ k.id = k1 => \E l \in claims : l = [k EXCEPT !.id = k2]
  /\ \E seeds \in {{}} \cup {{D, e} : e \in Entities}, hops \in {1, MaxHops + 1}, p \in Bounds :
       /\ seeds \subseteq entities
       /\ hops = 1 => seeds # {} /\ p.window = NoWindow
       /\ Ask(seeds, hops, p.max, p.window)

\* A chain of two links; a walk along it, under which the ledger may move.
AChain == \E k, l \in claims : claims = {k, l} /\ {k.id, l.id} = {k2, k3}
                               /\ k.object = D /\ l.subject = k.subject /\ l.object # D
AlongAChain ==
  /\ AChain
  /\ walk.stage \notin {"idle", "answered"} /\ walk.seeds = {D} /\ walk.window = NoWindow
  /\ walk.asked = MaxHops + 1 /\ walk.max > 3

\* One of its claims is retracted after the projection was built, before a walk or under it.
Retracting ==
  /\ AChain /\ (walk = NoWalk \/ AlongAChain)
  /\ \A k \in claims : ~k.retracted
  /\ \E k \in Claims : RetractClaim(k)
  /\ UNCHANGED <<validity, projected, builder>>

\* Two or three claims, which two relations touch.
Linking ==
  /\ walk = NoWalk /\ head = 0 /\ projected # {} /\ \A x \in Builders : builder[x] = NoBuild
  /\ Cardinality(claims) \in 2..3 /\ Cardinality(relations) < 2
  /\ \A k \in claims : k.subjectMention = None /\ ~k.retracted
  /\ \E k, l \in Claims, kind \in Kinds : LinkClaims(k, l, kind)

\* SupportNext within the scopes; the guards only save TLC the steps that leave them.
Scopes ==
  \/ Ledger /\ Noticed
  \/ AlongAChain /\ head = 0 /\ Decide /\ Noticed
  \/ AlongAChain /\ (\E x \in Builders : Build(x) /\ \A y \in Builders \ {x} : builder[y] = NoBuild) /\ Noticed
  \/ Retracting /\ Noticed
  \/ Question /\ UNCHANGED projectionVars
  \/ Read /\ UNCHANGED projectionVars

ScopedNext ==
  /\ Overlapping
  /\ \/ relations = {} /\ UNCHANGED relations /\ Scopes
     \/ relations # {} /\ UNCHANGED relations /\ Retracting /\ Noticed
     \/ Linking

ScopedSpec == MCInit /\ [][ScopedNext]_supportVars

\* Clusters trade places with their mentions; the rebuilds are alike.
Renamings ==
  LET cluster == MCBaseline3
  IN  {f @@ [e \in ABC |-> cluster[f[CHOOSE x \in {a, b, c} : cluster[x] = e]]]
         : f \in Permutations({a, b, c})}
Sym == {f @@ g : f \in Renamings, g \in Permutations(Builders)}
=============================================================================
