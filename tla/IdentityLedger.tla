--------------------------- MODULE IdentityLedger ---------------------------
(***************************************************************************)
(* The identity ledger (aegis/er/adjudication.py, aegis/er/ledger.py) and  *)
(* the two writers that share it: ActionService.adjudicate_identity, by    *)
(* which a human confirms, rejects, splits or leaves open an identity, and *)
(* ActionService.record_claim, which attaches a mention nobody has ruled   *)
(* on.  One action is one committed transaction; an action whose guard is  *)
(* false is a request the code refuses and rolls back.                     *)
(*                                                                         *)
(* Tables are sets of rows.  Generated ids (mem_..., clm_..., dec_...) are *)
(* left out where the row's contents identify it; new entity ids are any   *)
(* element of Entities that has no row yet.                                *)
(***************************************************************************)
EXTENDS Naturals, FiniteSets, CanonicalMap

CONSTANTS
  Mentions,       \* rows of mention: spans of text somebody extracted
  Entities,       \* entity ids, in use and still to be generated
  Claims,         \* claim ids
  Candidates,     \* rows of er_candidate, emitted before the run
  Baseline,       \* the memberships migration 0007 verified: mention -> entity
  BaselineEntities, \* the entity rows that exist at the baseline
  Modes,          \* the adjudication modes in use, of ADJUDICATION_MODES
  None,           \* SQL NULL, where an id is expected
  MaxRevision     \* bound: the ledger stops growing at this revision

ASSUME LedgerAssumption ==
  /\ MaxRevision \in Nat
  /\ Modes \subseteq {"confirm_match", "reject_match", "split_entity", "mark_unresolved"}
  /\ Baseline \in [DOMAIN Baseline -> BaselineEntities]
  /\ DOMAIN Baseline \subseteq Mentions
  /\ BaselineEntities \subseteq Entities
  /\ IsFiniteSet(Entities)
  /\ None \notin Mentions \cup Entities \cup Candidates \cup Nat

VARIABLES
  entities,     \* entity: the ids that have a row
  tombstoned,   \* entity.tombstoned_at IS NOT NULL
  memberships,  \* identity_membership
  head,         \* identity_revision: its rows are the revisions 0..head
  decisions,    \* identity_decision, revision standing for result_revision_id
  candidates,   \* er_candidate.disposition
  constraints,  \* identity_negative_constraint
  canonical,    \* entity_canonical_map
  claims,       \* claim
  queue         \* review_queue rows a split raised (producer split-readjudication)

vars == <<entities, tombstoned, memberships, head, decisions, candidates,
          constraints, canonical, claims, queue>>
-----------------------------------------------------------------------------
Active == {row \in memberships : row.closed = Open}
Belongs(m, e) == \E row \in Active : row.mention = m /\ row.entity = e
Resolved(m) == \E row \in Active : row.mention = m
MentionsOf(e) == {m \in Mentions : Belongs(m, e)}
EntitiesOf(ms) == {e \in Entities : \E m \in ms : Belongs(m, e)}

\* canonical_entity: a missing row degrades to "resolves to itself".
CanonicalIn(map, e) == IF e \in DOMAIN map THEN map[e] ELSE e

\* Slip: only the rows opened later are looked at, not the rows closed later.
ScopeIsCurrentOpenedOnly(parent, scope) ==
  \A row \in memberships : row.entity \in scope => row.opened <= parent

(***************************************************************************)
(* check_scope_is_current: no entity of the scope had a membership opened  *)
(* or closed after the revision the decision was computed against.         *)
(***************************************************************************)
ScopeIsCurrent(parent, scope) ==
  \A row \in memberships : row.entity \in scope =>
    /\ row.opened <= parent
    /\ row.closed = Open \/ row.closed <= parent

\* _open_decision: exactly one new revision, exactly one decision that results in it.
OpenDecision(kind, parent, inputs) ==
  /\ head < MaxRevision
  /\ parent \in 0..head
  /\ head' = head + 1
  /\ decisions' = decisions \cup
       {[kind |-> kind, parent |-> parent, inputs |-> inputs, revision |-> head + 1]}

\* _move_mentions: close the active row of each mention, reopen it on target.
Leaving(ms, target) == {row \in Active : row.mention \in ms /\ row.entity # target}

\* Slips: the old row is left open; the row is rewritten instead of closed.
MovedWithoutClosing(ms, target, rev) ==
  memberships
    \cup {[row EXCEPT !.entity = target, !.opened = rev] : row \in Leaving(ms, target)}
MovedInPlace(ms, target, rev) ==
  LET gone == Leaving(ms, target)
  IN  (memberships \ gone) \cup {[row EXCEPT !.entity = target] : row \in gone}

Moved(ms, target, rev) ==
  LET gone == Leaving(ms, target)
  IN  (memberships \ gone)
        \cup {[row EXCEPT !.closed = rev] : row \in gone}
        \cup {[mention |-> row.mention, entity |-> target, opened |-> rev,
                closed |-> Open] : row \in gone}

\* _settle_candidate: a decision may name an open candidate, or none.
SettleCandidate(c, disposition) ==
  IF c = None
  THEN candidates' = candidates
  ELSE /\ candidates[c] = "open"
       /\ candidates' = [candidates EXCEPT ![c] = disposition]

\* Slip: the replay runs before the rows of the decision are flushed.
RebuildCanonicalMapTooEarly ==
  LET lineage == LineageFromLedger(memberships, decisions', head + 1)
  IN  /\ Replayable(lineage, entities')
      /\ canonical' = MapOf(lineage, entities')
      /\ tombstoned' = OrphansOf(lineage, entities', memberships')

\* rebuild_canonical_map, run after the rows of this decision are written.
RebuildCanonicalMap ==
  LET lineage == LineageFromLedger(memberships', decisions', head + 1)
  IN  /\ Replayable(lineage, entities')
      /\ canonical' = MapOf(lineage, entities')
      /\ tombstoned' = OrphansOf(lineage, entities', memberships')
-----------------------------------------------------------------------------
Init ==
  /\ entities = BaselineEntities
  /\ tombstoned = {}
  /\ memberships = {[mention |-> m, entity |-> Baseline[m], opened |-> 0,
                     closed |-> Open] : m \in DOMAIN Baseline}
  /\ head = 0
  /\ decisions = {}
  /\ candidates = [c \in Candidates |-> "open"]
  /\ constraints = {}
  /\ canonical = NoLineage
  /\ claims = {}
  /\ queue = {}

\* confirm_match: the entity of b is absorbed by the entity of a.
ConfirmMatch(parent, a, b, c) ==
  /\ Cardinality(EntitiesOf({a, b})) >= 2
  /\ ScopeIsCurrent(parent, EntitiesOf({a, b}))
  /\ OpenDecision("confirm", parent, {a, b})
  /\ \E survivor, absorbed \in Entities :
       /\ Belongs(a, survivor)
       /\ Belongs(b, absorbed)
       /\ memberships' = Moved(MentionsOf(absorbed), survivor, head + 1)
  /\ SettleCandidate(c, "confirmed")
  /\ UNCHANGED <<entities, constraints, claims, queue>>
  /\ RebuildCanonicalMap

\* reject_match: no membership changes; the pair's constraint gets a version.
LiveConstraints(pair) ==
  {n \in constraints : n.pair = pair /\ n.supersededBy = None}

PreviousConstraint(pair) ==
  {n \in LiveConstraints(pair) :
     \A x \in LiveConstraints(pair) : x.version <= n.version}

RejectMatch(parent, a, b, c) ==
  /\ a # b
  /\ OpenDecision("reject", parent, {a, b})
  /\ LET previous == PreviousConstraint({a, b})
         version  == IF previous = {} THEN 1
                     ELSE (CHOOSE n \in previous : TRUE).version + 1
     IN  constraints' = (constraints \ previous)
           \cup {[n EXCEPT !.supersededBy = head + 1] : n \in previous}
           \cup {[pair |-> {a, b}, version |-> version, decision |-> head + 1,
                  supersededBy |-> None]}
  /\ SettleCandidate(c, "rejected")
  /\ UNCHANGED <<entities, tombstoned, memberships, canonical, claims, queue>>

\* mark_unresolved: an explicit decision that moves nothing.
MarkUnresolved(parent, a, b, c) ==
  /\ OpenDecision("unresolved", parent, {a, b})
  /\ SettleCandidate(c, "unresolved")
  /\ UNCHANGED <<entities, tombstoned, memberships, constraints, canonical,
                 claims, queue>>

\* Slip: only the subject of a claim is looked at.
UnattributableSubjects(e) ==
  LET affected == {e} \cup {x \in DOMAIN canonical : canonical[x] = e}
  IN  {k \in claims : ~k.retracted /\ k.subject \in affected /\ k.subjectMention = None}

(***************************************************************************)
(* _unattributable_claims, read before the map is rebuilt: the unretracted *)
(* claims that name the split entity, or an id that resolves to it, in a   *)
(* position no mention anchors.                                            *)
(***************************************************************************)
UnattributableClaims(e) ==
  LET affected == {e} \cup {x \in DOMAIN canonical : canonical[x] = e}
  IN  {k \in claims :
         /\ ~k.retracted
         /\ \/ k.subject \in affected /\ k.subjectMention = None
            \/ k.object \in affected /\ k.objectMention = None}

\* _queue_reattribution, after the rebuild: a draft that repoints the argument
\* which resolves to the surviving entity, the subject before the object.
Reattribution(k, surviving, created) ==
  LET subjectHit == /\ CanonicalIn(canonical', k.subject) = surviving
                    /\ k.subjectMention = None
      objectHit  == /\ k.object # None
                    /\ CanonicalIn(canonical', k.object) = surviving
                    /\ k.objectMention = None
  IN  [claim |-> k.id, decision |-> head + 1, created |-> created,
       subject |-> IF subjectHit THEN created ELSE k.subject,
       object  |-> IF ~subjectHit /\ objectHit THEN created ELSE k.object]

(***************************************************************************)
(* split_entity: some, not all, of an entity's mentions move to a target.  *)
(* A target that has no row yet stands for target_entity_id = None, where  *)
(* the split creates the entity; only then are claims queued.              *)
(***************************************************************************)
MayLeave(ms, e) ==
  /\ ms # {}
  /\ ms \subseteq MentionsOf(e)
  /\ ms # MentionsOf(e)

SplitEntity(parent, e, ms, target) ==
  /\ MayLeave(ms, e)
  /\ ScopeIsCurrent(parent, {e})
  /\ entities' = entities \cup {target}
  /\ OpenDecision("split", parent, ms)
  /\ memberships' = Moved(ms, target, head + 1)
  /\ UNCHANGED <<candidates, constraints, claims>>
  /\ RebuildCanonicalMap
  /\ queue' = IF target \in entities
              THEN queue
              ELSE queue \cup {Reattribution(k, e, target) : k \in UnattributableClaims(e)}
-----------------------------------------------------------------------------
\* Slip: an anchor that belongs to another entity is let through.
ArgumentUnchecked(e, m) == m = None => e \in entities

(***************************************************************************)
(* _create_claim, one argument of the claim: an existing entity named by   *)
(* its id, or a mention.  A mention that belongs to an entity must belong  *)
(* to this one (_check_anchor); one nobody has ruled on is attached, to an *)
(* entity named beside it (_check_anchor) or to a new one                  *)
(* (_entity_from_mention).                                                 *)
(***************************************************************************)
ArgumentOK(e, m) ==
  IF m = None
  THEN e \in entities
  ELSE Belongs(m, e) \/ ~Resolved(m)

\* Slip: the row is opened at the revision the next decision will take.
OpeningAhead(e, m) ==
  IF m # None /\ ~Resolved(m)
  THEN {[mention |-> m, entity |-> e, opened |-> head + 1, closed |-> Open]}
  ELSE {}

\* open_membership at the head revision: no decision, no map rebuild.
Opening(e, m) ==
  IF m # None /\ ~Resolved(m)
  THEN {[mention |-> m, entity |-> e, opened |-> head, closed |-> Open]}
  ELSE {}

\* record_claim.  o = None is a literal object, which takes no anchor.
RecordClaim(k, s, sm, o, om) ==
  /\ \A x \in claims : x.id # k
  /\ ArgumentOK(s, sm)
  /\ IF o = None THEN om = None ELSE ArgumentOK(o, om)
  /\ s # o
  /\ sm = om => sm = None
  /\ entities' = entities \cup ({s, o} \ {None})
  /\ memberships' = memberships \cup Opening(s, sm) \cup Opening(o, om)
  /\ claims' = claims \cup
       {[id |-> k, subject |-> s, subjectMention |-> sm, object |-> o,
         objectMention |-> om, revision |-> head, retracted |-> FALSE]}
  /\ UNCHANGED <<tombstoned, head, decisions, candidates, constraints, canonical,
                 queue>>

\* retract_claim: the row stays, marked.
RetractClaim(k) ==
  /\ \E x \in claims :
       /\ x.id = k /\ ~x.retracted
       /\ claims' = (claims \ {x}) \cup {[x EXCEPT !.retracted = TRUE]}
  /\ UNCHANGED <<entities, tombstoned, memberships, head, decisions,
                 candidates, constraints, canonical, queue>>
-----------------------------------------------------------------------------
Adjudicate(parent) ==
  \/ \E a, b \in Mentions, c \in Candidates \cup {None} :
       \/ "confirm_match" \in Modes /\ ConfirmMatch(parent, a, b, c)
       \/ "reject_match" \in Modes /\ RejectMatch(parent, a, b, c)
       \/ "mark_unresolved" \in Modes /\ MarkUnresolved(parent, a, b, c)
  \/ \E e \in entities, ms \in SUBSET Mentions, target \in Entities :
       "split_entity" \in Modes /\ SplitEntity(parent, e, ms, target)

Record ==
  \/ \E k \in Claims, s \in Entities, o \in Entities \cup {None},
        sm, om \in Mentions \cup {None} : RecordClaim(k, s, sm, o, om)
  \/ \E k \in Claims : RetractClaim(k)

Next == Record \/ \E parent \in 0..MaxRevision : Adjudicate(parent)

Spec == Init /\ [][Next]_vars
-----------------------------------------------------------------------------
Membership == [mention : Mentions, entity : Entities, opened : 0..MaxRevision,
               closed : 0..MaxRevision]
Decision == [kind : {"confirm", "reject", "split", "unresolved"},
             parent : 0..MaxRevision, inputs : SUBSET Mentions,
             revision : 1..MaxRevision]
ClaimRow == [id : Claims, subject : Entities, subjectMention : Mentions \cup {None},
             object : Entities \cup {None}, objectMention : Mentions \cup {None},
             revision : 0..MaxRevision, retracted : BOOLEAN]

\* The tables hold rows of their columns' types, and every entity a membership
\* or a claim names has a row (the foreign keys).
TypeOK ==
  /\ entities \in SUBSET Entities
  /\ tombstoned \in SUBSET entities
  /\ memberships \in SUBSET Membership
  /\ head \in 0..MaxRevision
  /\ decisions \in SUBSET Decision
  /\ candidates \in [Candidates -> {"open", "confirmed", "rejected", "unresolved"}]
  /\ DOMAIN canonical \subseteq entities
  /\ claims \in SUBSET ClaimRow
  /\ \A row \in memberships : row.entity \in entities
  /\ \A k \in claims : {k.subject, k.object} \ {None} \subseteq entities

\* A mention that was ever given to an entity belongs to exactly one entity now
\* (ux_membership_one_active, spec 05 section 2): no sequence of merges, splits and
\* late attachments leaves it with two, or with none.
OneEntityPerMention ==
  \A row \in memberships :
    \E x \in Active :
      /\ x.mention = row.mention
      /\ \A y \in Active : y.mention = row.mention => y = x

\* The membership set at a revision: the rows opened at or before it and not yet
\* closed at it (spec 05 section 2).
HeldAt(rev) ==
  {<<row.mention, row.entity>> : row \in
     {x \in memberships : x.opened <= rev /\ (x.closed = Open \/ x.closed > rev)}}

\* What identity meant at a revision that is no longer the head never changes
\* again: no decision and no late mention is attributed to a past revision, so
\* the state before any decision stays reconstructible (spec 05 sections 2 and 8).
PastIsFrozen ==
  [][\A rev \in 0..MaxRevision : rev < head => HeldAt(rev)' = HeldAt(rev)]_vars

\* An anchored claim agrees with the ledger at the revision stamped on it: its
\* mention belonged then to the very entity the claim names (_check_anchor), and
\* no later decision rewrites that.
AnchorsHeldWhenWritten ==
  \A k \in claims :
    /\ k.subjectMention # None =>
         <<k.subjectMention, k.subject>> \in HeldAt(k.revision)
    /\ k.objectMention # None =>
         <<k.objectMention, k.object>> \in HeldAt(k.revision)

\* A decision that changed who is who was computed against the entities as they
\* still were: between its parent revision and the revision before its own, no
\* entity it took mentions from or gave a partner to gained or lost one
\* (check_scope_is_current).
DecidedOnCurrentEvidence ==
  \A d \in decisions : d.kind \in {"confirm", "split"} =>
    LET before == HeldAt(d.revision - 1)
        scope  == {e \in Entities : \E m \in d.inputs : <<m, e>> \in before}
    IN  \A m \in Mentions, e \in scope :
          <<m, e>> \in before <=> <<m, e>> \in HeldAt(d.parent)

\* The versions of a pair's negative constraint form one chain: each superseded
\* version points at the decision that wrote the next one, and only the last one
\* is in force (reject_match, Article VIII).
ConstraintsFormAChain ==
  \A n \in constraints :
    LET next == {x \in constraints : x.pair = n.pair /\ x.version = n.version + 1}
    IN  IF n.supersededBy = None
        THEN \A x \in constraints : x.pair = n.pair /\ x # n => x.version < n.version
        ELSE \E x \in next : next = {x} /\ x.decision = n.supersededBy
-----------------------------------------------------------------------------
Lineage == LineageFromLedger(memberships, decisions, head)

\* No mention was attached late, at the revision of a merge or a split.  Such a
\* row is indistinguishable, to the replay, from one the decision itself opened.
NoLateMentionAtDecision ==
  \A row \in memberships :
    (\E d \in decisions : d.kind \in {"confirm", "split"} /\ d.revision = row.opened)
      => \E x \in memberships : x.mention = row.mention /\ x.closed = row.opened

\* No mention was attached to an entity that was already absorbed.
NoMentionOnAbsorbedEntity ==
  \A row \in memberships :
    row.entity \notin DOMAIN LineageFromLedger(memberships, decisions, row.opened)

\* Losing the map loses nothing (spec 05 sections 5 and 8): dropped and rebuilt
\* from the ledger, it resolves every entity as it does now.
MapIsReplay == \A e \in entities : CanonicalIn(canonical, e) = Resolve(Lineage, e)

\* ... which the code delivers as long as no mention is attached late at the
\* revision of a merge or a split.
MapIsReplayWithoutLateMentions == NoLateMentionAtDecision => MapIsReplay

\* Resolving twice is resolving once: chains of merges are followed to their end
\* (_resolve), and a split never leaves an entry pointing at an absorbed id.
ResolutionIsFinal ==
  \A e \in entities : CanonicalIn(canonical, CanonicalIn(canonical, e)) = CanonicalIn(canonical, e)

\* An entity that ever held a mention resolves to one that holds mentions now:
\* no claim written about an absorbed entity resolves to an empty one, whatever
\* merges and splits came after.
AbsorbedReachTheLiving ==
  NoLateMentionAtDecision =>
    \A row \in memberships : \E x \in Active : x.entity = CanonicalIn(canonical, row.entity)

\* Undoing the last merge, by a split of exactly the mentions it moved back onto
\* the entity they came from, restores the resolution of every entity as it was
\* before the merge (spec 05 section 8), also when rejections came in between.
LastMerges ==
  {d \in decisions : /\ d.kind = "confirm"
                     /\ \A x \in decisions : x.revision > d.revision => x.kind = "reject"}
MergeIsReversible ==
  \A d \in LastMerges : NoLateMentionAtDecision /\ NoMentionOnAbsorbedEntity =>
    LET back(e) == {row.mention : row \in
                      {x \in memberships : x.closed = d.revision /\ x.entity = e}}
        undone(e) == LineageFromLedger(Moved(back(e), e, head + 1),
                       decisions \cup {[kind |-> "split", parent |-> head,
                                        inputs |-> back(e), revision |-> head + 1]},
                       head + 1)
        before == LineageFromLedger(memberships, decisions, d.revision - 1)
    IN  \A e \in {x \in entities : back(x) # {}}, x \in entities :
          Resolve(undone(e), x) = Resolve(before, x)

\* What decisions leave behind makes sense together, in any order of them: the pairs'
\* negative constraints, and the map that claims are resolved by.
LedgerIsCoherent ==
  ConstraintsFormAChain /\ ResolutionIsFinal /\ AbsorbedReachTheLiving /\ MergeIsReversible

\* The unretracted claims that, when split decision d was taken, named the entity
\* being split, or an id that resolved to it, in a position no mention anchors.
LeftBehind(d) ==
  LET before == LineageFromLedger(memberships, decisions, d.revision - 1)
      split(e) == \E x \in d.inputs : <<x, Resolve(before, e)>> \in HeldAt(d.revision - 1)
  IN  {k \in claims :
         /\ k.revision < d.revision /\ ~k.retracted
         /\ \/ split(k.subject) /\ k.subjectMention = None
            \/ k.object # None /\ split(k.object) /\ k.objectMention = None}
Queued(k, d) == \E q \in queue : q.claim = k.id /\ q.decision = d.revision

\* The mentions of the decision went to an entity it created: one that is not of the
\* baseline and had never held one.
WentToNewEntity(d) ==
  \E row \in memberships :
    /\ row.opened = d.revision /\ row.mention \in d.inputs
    /\ row.entity \notin BaselineEntities
    /\ \A x \in memberships : x.entity = row.entity => x.opened >= d.revision

\* Every claim a split cannot attribute is put before a human (spec 02 section 3.1
\* rule 4, spec 05 sections 4 and 8), when the split creates its target: one that
\* restores an entity queues none.
UnanchoredClaimsAreQueuedOnCreation ==
  NoLateMentionAtDecision =>
    \A d \in decisions : d.kind = "split" /\ WentToNewEntity(d) =>
      \A k \in LeftBehind(d) : Queued(k, d)

\* A draft queued by a split proposes something: it repoints one argument of the
\* claim, and that one only, at the entity the split created.  (An absorbed entity that
\* was given a mention can be split, but claims about it resolve to another one: their
\* drafts repoint nothing.)
DraftsRepointOneArgument ==
  NoLateMentionAtDecision /\ NoMentionOnAbsorbedEntity =>
    \A q \in queue : \A k \in claims : k.id = q.claim =>
      \/ q.subject = q.created /\ q.object = k.object /\ k.subjectMention = None
      \/ q.object = q.created /\ q.subject = k.subject /\ k.objectMention = None

\* No claim that a split leaves in doubt is lost, and none is put to a human with the
\* wrong argument moved.
SplitsQueueTheUnattributed == UnanchoredClaimsAreQueuedOnCreation /\ DraftsRepointOneArgument
=============================================================================
