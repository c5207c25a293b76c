--------------------------- MODULE MCAnalystDesk ----------------------------
(***************************************************************************)
(* The ledger and the analysts in front of it.  The two legacy clusters    *)
(* hold one mention each (spec 05 section 7); m is a mention extracted     *)
(* later, that nobody has ruled on.  One run explores five scopes: all     *)
(* the ledger does while nobody is at a desk; two analysts who merge and   *)
(* split what there is; two runs of the producers over identifier claims   *)
(* about the two clusters, with a decision at any moment; the import that  *)
(* makes the clusters, from an empty ledger, with its reruns; and clerks   *)
(* who record and retract a claim while a reader asks what was known.      *)
(***************************************************************************)
EXTENDS AnalystDesk, CandidateProducers, LegacyImport, ClaimHistory, TLC

CONSTANTS a, b, m, A, B, C, k1, k2, k3, k4, number, registry, one, two

MCBaseline == [x \in {a, b} |-> IF x = a THEN A ELSE B]
AB == {A, B}

\* The legacy mentions are one name twice in one document; the claims are one number,
\* issued again after k1 (k3), or by a registry k2 does not name.
MCDocument == [x \in {a, b, m} |-> IF x = m THEN two ELSE one]
MCNormKey == [x \in {a, b, m} |-> one]
MCIdentifier == [k \in {k1, k2, k3, k4} |-> number]
MCIssuer == [k \in {k1, k2, k3, k4} |-> IF k = k2 THEN None ELSE registry]
MCFrom == [k \in {k1, k2, k3, k4} |-> IF k = k3 THEN 3 ELSE 0]
MCTo == [k \in {k1, k2, k3, k4} |-> IF k = k1 THEN 2 ELSE 0]

NobodyAtTheDesk == \A x \in Analysts : desk[x].stage = "away"
NothingProduced == begun = 0 /\ er_candidate = {}

\* One claim.
LedgerAlone == \A k \in claims : k.id = k1
RecordOne ==
  \/ \E s \in Entities, o \in Entities \cup {None}, sm, om \in Mentions \cup {None} :
       RecordClaim(k1, s, sm, o, om)
  \/ RetractClaim(k1)

\* A claim here is what attaches a late mention.
AtTheDesks ==
  /\ LedgerAlone /\ entities = AB
  /\ \A k \in claims : k.subjectMention # None /\ k.object = None /\ ~k.retracted
  /\ \A d \in decisions : d.kind \in {"confirm", "split"}
  /\ \A x \in Candidates : candidates[x] = "open"

\* Two identifier claims, all of them recorded before a run begins, and one decision.
Producing ==
  /\ head <= 1 /\ entities = AB
  /\ Cardinality(claims) <= 2 /\ (claims # {} => \E k \in claims : k.id = k1 /\ k.subjectMention = None)
  /\ \A k \in claims : k.object = None /\ ~k.retracted
  /\ \A x \in Candidates : candidates[x] = "open"
  /\ Cardinality(er_candidate) <= 2

DecideElsewhere ==
  /\ \E x, y \in Mentions : RejectMatch(0, x, y, None) \/ ConfirmMatch(0, x, y, None)
  /\ UNCHANGED <<er_candidate, producer, begun, committed>>

AmongClusters ==
  \/ /\ NothingProduced /\ NobodyAtTheDesk /\ LedgerAlone
     /\ RecordOne \/ \E parent \in 0..MaxRevision : Adjudicate(parent)
     /\ UNCHANGED <<desk, er_candidate, producer, begun, committed>>
  \/ /\ NothingProduced /\ LedgerAlone
     /\ \/ \E x \in Analysts : ListCandidates(x) \/ ReadRevision(x) \/ Decide(x)
        \/ RecordOne /\ UNCHANGED desk
     /\ UNCHANGED <<er_candidate, producer, begun, committed>> /\ AtTheDesks'
  \/ /\ NobodyAtTheDesk /\ Producing /\ claims # {} /\ begun = 0
     /\ \E k \in {k2, k3}, s \in AB, sm \in Mentions \cup {None} : RecordClaim(k, s, sm, None, None)
     /\ UNCHANGED <<desk, er_candidate, producer, begun, committed>> /\ Producing'
  \/ /\ NobodyAtTheDesk /\ Producing /\ claims # {}
     /\ \/ \E r \in Runs : Run(r)
        \/ \E row \in er_candidate : head = 0 /\ DecideCandidate(row, 0)
        \/ begun > 0 /\ head = 0 /\ DecideElsewhere
     /\ UNCHANGED desk /\ Producing'

\* Two nodes read from two documents, whose falling out is told twice in one of them:
\* as what it ended, and the other way round.
MCNodes == {"p", "q"}
MCNodeRecord == [n \in MCNodes |-> IF n = "p" THEN one ELSE two]
MCAliases == [n \in MCNodes |-> IF n = "p" THEN {"name"} ELSE {}]
MCAffiliations == [n \in MCNodes |-> {}]
MCEdges == {[source |-> "p", target |-> "q", relation |-> "former", record |-> one,
             start |-> "day", end |-> None],
            [source |-> "q", target |-> "p", relation |-> "allied_with", record |-> one,
             start |-> None, end |-> "day"]}
MCVerbRemap == [v \in {"former"} |-> {[predicate |-> "allied_with", window |-> "until_start"]}]
MCSymmetric == {"allied_with"}

EmptyLedger ==
  /\ entities = {} /\ tombstoned = {} /\ memberships = {} /\ head = 0 /\ decisions = {}
  /\ candidates = [x \in Candidates |-> "open"]
  /\ constraints = {} /\ canonical = NoLineage /\ claims = {} /\ queue = {}

\* The first import makes A of p and B of q, and k1 and k2 of what they are told of;
\* merges, splits and retractions go on among the reruns.
FirstImport == sourced = {} /\ sourced' # {} =>
  /\ sourced' = {[mention |-> a, node |-> "p"], [mention |-> b, node |-> "q"]}
  /\ Belongs(a, A)' /\ Belongs(b, B)'
  /\ {k.id : k \in claims'} = {k1, k2}
  /\ \E k \in claims' : k.id = k1 /\ k.object = None

Importing ==
  \/ Import /\ FirstImport
  \/ /\ sourced # {}
     /\ \/ \E parent \in 0..head, x, y \in Mentions : ConfirmMatch(parent, x, y, None)
        \/ \E parent \in 0..head, e \in entities, ms \in SUBSET Mentions, target \in Entities :
             SplitEntity(parent, e, ms, target)
        \/ \E k \in Claims : RetractClaim(k)
     /\ UNCHANGED <<sourced, drawn, importer, settled>>

Undated ==
  \/ /\ entities = {} \/ sourced # {}
     /\ Importing
     /\ UNCHANGED <<desk, er_candidate, producer, begun, committed>>
  \/ /\ entities # {} /\ sourced = {}
     /\ AmongClusters
     /\ UNCHANGED <<sourced, drawn, importer, settled>>

\* One claim, which says that one of the clusters is something.
Dated ==
  /\ HistoryNext
  /\ DOMAIN stamps' \subseteq {k1}
  /\ \A k \in claims' : k.subject \in AB /\ k.object = None /\ k.subjectMention = None

NothingDated == clock = 0 /\ DOMAIN stamps = {} /\ answer = NoAnswer /\ \A w \in Clerks : clerk[w] = Away

ScopedNext ==
  \/ NothingDated /\ Undated /\ UNCHANGED <<clock, stamps, clerk, answer>>
  \/ /\ head = 0 /\ entities # {} /\ DOMAIN stamps = {k.id : k \in claims}
     /\ NobodyAtTheDesk /\ NothingProduced
     /\ Dated
     /\ UNCHANGED <<desk, er_candidate, producer, begun, committed, sourced, drawn, importer, settled>>

ScopedInit ==
  /\ ImportInit /\ ProducerIdle /\ HistoryInit
  /\ DeskAway
  /\ Init \/ EmptyLedger

ScopedVars == <<deskVars, er_candidate, producer, begun, committed, sourced, drawn, importer,
                settled, clock, stamps, clerk, answer>>

ScopedSpec == ScopedInit /\ [][ScopedNext]_ScopedVars

\* Each legacy mention moves together with its own entity, and analysts are alike.
Swap == [x \in {a, b, A, B} |-> CASE x = a -> b [] x = b -> a [] x = A -> B [] x = B -> A]
Sym == {f @@ g : f \in Permutations(Analysts), g \in Permutations(Runs)}
         \cup {f @@ g @@ Swap : f \in Permutations(Analysts), g \in Permutations(Runs)}
=============================================================================
