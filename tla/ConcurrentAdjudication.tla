----------------------- MODULE ConcurrentAdjudication -----------------------
(***************************************************************************)
(* The transactions of IdentityLedger, statement by statement.             *)
(*                                                                         *)
(* PostgreSQL runs them at READ COMMITTED and nothing in the code locks a  *)
(* row before reading it: each statement sees whatever has committed when  *)
(* it starts, and other transactions commit in between.  What a            *)
(* transaction has written is in its record until it commits.  Writers of  *)
(* the same row wait for each other, and a unique index refuses the        *)
(* second of two conflicting rows; the transaction then fails.             *)
(*                                                                         *)
(* The ledger's variables hold the committed rows.  Statements that no     *)
(* commit can come between with a visible effect share a step: the replay  *)
(* reads memberships and decisions in three, and one that sees only some   *)
(* of another transaction's rows makes nothing of them.                    *)
(***************************************************************************)
EXTENDS IdentityLedger

CONSTANT Requests     \* transactions that can be open at the same time

VARIABLES
  sequence,   \* identity_revision_revision_id_seq
  tx          \* the open transactions

raceVars == <<vars, sequence, tx>>

\* The decision pairs a and b, or moves mentions from entity to target; rows are the
\* membership rows it closes, map and orphans what it wrote from lineage, overtaken
\* and missed whether another transaction committed since the DELETE, since the start.
NoTx == [stage |-> "idle", kind |-> None, parent |-> 0, a |-> None, b |-> None,
         candidate |-> None, claim |-> None, entity |-> None, target |-> None,
         mentions |-> {}, rows |-> {}, revision |-> 0, previous |-> {},
         lineage |-> NoLineage, living |-> {}, map |-> NoLineage, orphans |-> {},
         overtaken |-> FALSE, missed |-> FALSE]

At(t, stage) == tx[t].stage = stage
Is(t, kinds) == tx[t].kind \in kinds
Others(t) == Requests \ {t}
Goes(t, stage) == tx' = [tx EXCEPT ![t].stage = stage]

RaceInit ==
  /\ Init
  /\ sequence = 0
  /\ tx = [t \in Requests |-> NoTx]
-----------------------------------------------------------------------------
\* A request names a revision its sender has seen.
Revisions == {0} \cup {d.revision : d \in decisions}

Asked(kind, pair, parent, c) ==
  [NoTx EXCEPT !.kind = kind, !.parent = parent, !.a = pair[1], !.b = pair[2], !.candidate = c]
Pairs(kind, pair) ==
  {Asked(kind, pair, parent, c) : parent \in Revisions, c \in Candidates \cup {None}}

\* An id generated by one transaction is no other transaction's.
Unused(t, e) == e \in entities \/ \A u \in Others(t) : tx[u].target # e

\* The transaction fails for whatever reason: everything but the sequence is as before.
Abort(t) ==
  /\ ~At(t, "idle")
  /\ tx' = [tx EXCEPT ![t] = NoTx]
  /\ UNCHANGED <<vars, sequence>>
-----------------------------------------------------------------------------
\* Slip: the confirm does not look whether its scope is still current.
BeginConfirmUnchecked(t) ==
  /\ At(t, "idle") /\ "confirm_match" \in Modes
  /\ \E pair \in Mentions \X Mentions : \E r \in Pairs("confirm", pair) :
       /\ Cardinality(EntitiesOf({r.a, r.b})) >= 2
       /\ tx' = [tx EXCEPT ![t] = [r EXCEPT !.stage = "checked"]]
  /\ UNCHANGED <<vars, sequence>>

\* The first statements of a confirm and of a split: check_scope_is_current.
BeginConfirm(t) ==
  /\ At(t, "idle") /\ "confirm_match" \in Modes
  /\ \E pair \in Mentions \X Mentions : \E r \in Pairs("confirm", pair) :
       /\ Cardinality(EntitiesOf({r.a, r.b})) >= 2
       /\ ScopeIsCurrent(r.parent, EntitiesOf({r.a, r.b}))
       /\ tx' = [tx EXCEPT ![t] = [r EXCEPT !.stage = "checked"]]
  /\ UNCHANGED <<vars, sequence>>

BeginSplit(t) ==
  /\ At(t, "idle") /\ "split_entity" \in Modes
  /\ \E parent \in Revisions, e \in entities, target \in Entities :
     \E ms \in SUBSET MentionsOf(e) :
       /\ MayLeave(ms, e)
       /\ ScopeIsCurrent(parent, {e})
       /\ Unused(t, target)
       /\ tx' = [tx EXCEPT ![t] =
            [NoTx EXCEPT !.stage = "checked", !.kind = "split", !.parent = parent,
                         !.entity = e, !.mentions = ms, !.target = target]]
  /\ UNCHANGED <<vars, sequence>>

ReadSurvivor(t) ==
  /\ At(t, "checked") /\ Is(t, {"confirm"})
  /\ \E e \in Entities : /\ Belongs(tx[t].a, e)
                         /\ tx' = [tx EXCEPT ![t].stage = "survivor", ![t].target = e]
  /\ UNCHANGED <<vars, sequence>>

ReadAbsorbed(t) ==
  /\ At(t, "survivor")
  /\ \E e \in Entities : /\ Belongs(tx[t].b, e)
                         /\ tx' = [tx EXCEPT ![t].stage = "sides", ![t].entity = e]
  /\ UNCHANGED <<vars, sequence>>

ReadHeld(t) ==
  /\ At(t, "checked") /\ Is(t, {"split"})
  /\ MayLeave(tx[t].mentions, tx[t].entity)
  /\ Goes(t, "sides")
  /\ UNCHANGED <<vars, sequence>>

\* _open_decision: the number comes from the sequence, for good.  A reject and a
\* mark_unresolved start with it.
OpenRevision(t) ==
  /\ sequence < MaxRevision
  /\ sequence' = sequence + 1
  /\ \/ /\ At(t, "sides")
        /\ tx' = [tx EXCEPT ![t].stage = IF Is(t, {"split"}) THEN "listed" ELSE "opened",
                            ![t].revision = sequence + 1]
     \/ /\ At(t, "idle")
        /\ \E pair \in Mentions \X Mentions :
           \E r \in (IF "reject_match" \in Modes /\ pair[1] # pair[2]
                       THEN Pairs("reject", pair) ELSE {})
                    \cup (IF "mark_unresolved" \in Modes THEN Pairs("unresolved", pair) ELSE {}) :
             tx' = [tx EXCEPT ![t] = [r EXCEPT !.stage = "opened", !.revision = sequence + 1]]
  /\ UNCHANGED vars

ListMentions(t) ==
  /\ At(t, "opened") /\ Is(t, {"confirm"})
  /\ tx' = [tx EXCEPT ![t].stage = "listed", ![t].mentions = MentionsOf(tx[t].entity)]
  /\ UNCHANGED <<vars, sequence>>

SelectRows(t) ==
  /\ At(t, "listed")
  /\ tx' = [tx EXCEPT ![t].stage = "selected", ![t].rows = Leaving(tx[t].mentions, tx[t].target)]
  /\ UNCHANGED <<vars, sequence>>

\* The rows of t as its flush leaves them, among the rows of everybody else.
Flushed(t) ==
  (memberships \ tx[t].rows)
    \cup {[row EXCEPT !.closed = tx[t].revision] : row \in tx[t].rows}
    \cup {[mention |-> row.mention, entity |-> tx[t].target,
           opened |-> tx[t].revision, closed |-> Open] : row \in tx[t].rows}

HasMoved(t) == tx[t].stage \in {"moved", "settled", "replayed", "cleared", "mapped"}

\* Slip: without ux_membership_one_active the flush never fails.
MoveRowsUnindexed(t) ==
  /\ At(t, "selected")
  /\ Goes(t, "moved")
  /\ UNCHANGED <<vars, sequence>>

\* The flush waits for whoever is moving one of the rows.  If that one commits, the
\* mention has another active row and ux_membership_one_active fails this one.
MoveRows(t) ==
  /\ At(t, "selected")
  /\ tx[t].rows \subseteq memberships
  /\ \A u \in Others(t) : HasMoved(u) => tx[u].rows \cap tx[t].rows = {}
  /\ Goes(t, "moved")
  /\ UNCHANGED <<vars, sequence>>

ReadConstraint(t) ==
  /\ At(t, "opened") /\ Is(t, {"reject"})
  /\ tx' = [tx EXCEPT ![t].stage = "constrained",
                      ![t].previous = PreviousConstraint({tx[t].a, tx[t].b})]
  /\ UNCHANGED <<vars, sequence>>

\* _settle_candidate reads the disposition, then overwrites it: the next flush waits
\* for another transaction that has done so.
CandidateFree(t) ==
  tx[t].candidate # None =>
    \A u \in Others(t) : tx[u].stage \in {"replayed", "cleared", "mapped"} =>
      tx[u].candidate # tx[t].candidate

Settle(t) ==
  /\ \/ At(t, "moved") /\ Is(t, {"confirm"})
     \/ At(t, "constrained")
     \/ At(t, "opened") /\ Is(t, {"unresolved"})
  /\ tx[t].candidate # None => candidates[tx[t].candidate] = "open"
  /\ Goes(t, "settled")
  /\ UNCHANGED <<vars, sequence>>
-----------------------------------------------------------------------------
DecisionOf(t) ==
  [kind |-> tx[t].kind, parent |-> tx[t].parent, revision |-> tx[t].revision,
   inputs |-> IF Is(t, {"split"}) THEN tx[t].mentions ELSE {tx[t].a, tx[t].b}]

\* rebuild_canonical_map, its reads of the ledger.
Replay(t) ==
  /\ \/ At(t, "settled") /\ Is(t, {"confirm"})
     \/ At(t, "moved") /\ Is(t, {"split"})
  /\ CandidateFree(t)
  /\ tx' = [tx EXCEPT ![t].stage = "replayed",
       ![t].lineage = LineageFromLedger(Flushed(t), decisions \cup {DecisionOf(t)}, MaxRevision),
       ![t].living = {row.entity : row \in {x \in Flushed(t) : x.closed = Open}}]
  /\ UNCHANGED <<vars, sequence>>

\* The DELETE starts; map rows that commit after this are not among its rows.
ClearMap(t) ==
  /\ At(t, "replayed")
  /\ tx' = [tx EXCEPT ![t].stage = "cleared", ![t].overtaken = FALSE]
  /\ UNCHANGED <<vars, sequence>>

\* Slip: the new rows replace the old ones without a conflict (an upsert).
WriteMapOver(t) ==
  /\ At(t, "cleared")
  /\ LET known == entities \cup {tx[t].target}
     IN  tx' = [tx EXCEPT ![t].stage = "mapped", ![t].map = MapOf(tx[t].lineage, known),
           ![t].orphans = {e \in known : e \notin tx[t].living /\ Resolve(tx[t].lineage, e) = e}]
  /\ UNCHANGED <<vars, sequence>>

\* The map's new rows, one per entity; they wait for those of another transaction,
\* and the primary key refuses them once that one has committed.
WriteMap(t) ==
  /\ At(t, "cleared")
  /\ ~tx[t].overtaken
  /\ \A u \in Others(t) : ~At(u, "mapped")
  /\ LET known == entities \cup {tx[t].target}
     IN  /\ Replayable(tx[t].lineage, known)
         /\ tx' = [tx EXCEPT ![t].stage = "mapped", ![t].map = MapOf(tx[t].lineage, known),
               ![t].orphans = {e \in known : e \notin tx[t].living
                                             /\ Resolve(tx[t].lineage, e) = e}]
  /\ UNCHANGED <<vars, sequence>>
-----------------------------------------------------------------------------
\* The transactions still open, once t has committed.
AfterCommit(t, wroteMap) ==
  [u \in Requests |->
     CASE u = t -> NoTx
       [] u # t /\ At(u, "idle") -> tx[u]
       [] OTHER -> [tx[u] EXCEPT !.missed = TRUE, !.overtaken = @ \/ wroteMap]]

Decided(t, disposition) ==
  /\ decisions' = decisions \cup {DecisionOf(t)}
  /\ head' = IF tx[t].revision > head THEN tx[t].revision ELSE head
  /\ candidates' = IF tx[t].candidate = None THEN candidates
                   ELSE [candidates EXCEPT ![tx[t].candidate] = disposition]

CommitMove(t) ==
  /\ At(t, "mapped")
  /\ Decided(t, "confirmed")
  /\ entities' = entities \cup {tx[t].target}
  /\ memberships' = Flushed(t)
  /\ canonical' = tx[t].map
  /\ tombstoned' = (tombstoned \ DOMAIN tx[t].map) \cup tx[t].orphans
  /\ tx' = AfterCommit(t, TRUE)
  /\ UNCHANGED <<constraints, claims, queue, sequence>>

CommitReject(t) ==
  /\ At(t, "settled") /\ Is(t, {"reject"}) /\ CandidateFree(t)
  /\ Decided(t, "rejected")
  /\ LET old     == {n \in constraints : \E x \in tx[t].previous : x.decision = n.decision}
         version == IF old = {} THEN 1 ELSE (CHOOSE n \in old : TRUE).version + 1
     IN  constraints' = (constraints \ old)
           \cup {[n EXCEPT !.supersededBy = tx[t].revision] : n \in old}
           \cup {[pair |-> {tx[t].a, tx[t].b}, version |-> version,
                  decision |-> tx[t].revision, supersededBy |-> None]}
  /\ tx' = AfterCommit(t, FALSE)
  /\ UNCHANGED <<entities, tombstoned, memberships, canonical, claims, queue, sequence>>

CommitUnresolved(t) ==
  /\ At(t, "settled") /\ Is(t, {"unresolved"}) /\ CandidateFree(t)
  /\ Decided(t, "unresolved")
  /\ tx' = AfterCommit(t, FALSE)
  /\ UNCHANGED <<entities, tombstoned, memberships, constraints, canonical, claims,
                 queue, sequence>>
-----------------------------------------------------------------------------
(***************************************************************************)
(* record_claim about a mention nobody has ruled on, with a literal object *)
(***************************************************************************)
FindNoOwner(t) ==
  /\ At(t, "idle")
  /\ \E k \in Claims, m \in Mentions, e \in Entities :
       /\ ~Resolved(m)
       /\ Unused(t, e)
       /\ tx' = [tx EXCEPT ![t] = [NoTx EXCEPT !.stage = "unowned", !.kind = "attach",
                                               !.claim = k, !.a = m, !.target = e]]
  /\ UNCHANGED <<vars, sequence>>

\* open_membership, at the head it reads; the insert waits for another attachment
\* of the mention and fails if that one commits.
OpenMembership(t) ==
  /\ At(t, "unowned")
  /\ ~Resolved(tx[t].a)
  /\ \A u \in Others(t) : At(u, "attached") => tx[u].a # tx[t].a
  /\ tx' = [tx EXCEPT ![t].stage = "attached", ![t].revision = head]
  /\ UNCHANGED <<vars, sequence>>

\* The claim is stamped with the head of its own moment.
CommitClaim(t) ==
  /\ At(t, "attached")
  /\ \A x \in claims : x.id # tx[t].claim
  /\ entities' = entities \cup {tx[t].target}
  /\ memberships' = memberships \cup
       {[mention |-> tx[t].a, entity |-> tx[t].target, opened |-> tx[t].revision, closed |-> Open]}
  /\ claims' = claims \cup
       {[id |-> tx[t].claim, subject |-> tx[t].target, subjectMention |-> tx[t].a,
         object |-> None, objectMention |-> None, revision |-> head, retracted |-> FALSE]}
  /\ tx' = AfterCommit(t, FALSE)
  /\ UNCHANGED <<tombstoned, head, decisions, candidates, constraints, canonical,
                 queue, sequence>>
-----------------------------------------------------------------------------
Read(t) == BeginConfirm(t) \/ BeginSplit(t) \/ ReadSurvivor(t) \/ ReadAbsorbed(t) \/ ReadHeld(t)
Move(t) == OpenRevision(t) \/ ListMentions(t) \/ SelectRows(t) \/ MoveRows(t)
Judge(t) == ReadConstraint(t) \/ Settle(t)
Remap(t) == Replay(t) \/ ClearMap(t) \/ WriteMap(t)
Attach(t) == FindNoOwner(t) \/ OpenMembership(t)
Commit(t) == CommitMove(t) \/ CommitReject(t) \/ CommitUnresolved(t) \/ CommitClaim(t)

Statement(t) ==
  Abort(t) \/ Read(t) \/ Move(t) \/ Judge(t) \/ Remap(t) \/ Attach(t)

RaceNext == \E t \in Requests : Statement(t) \/ Commit(t)
RaceSpec == RaceInit /\ [][RaceNext]_raceVars
-----------------------------------------------------------------------------
(***************************************************************************)
(* The ledger of whole transactions, which numbers its revisions without   *)
(* gaps: the n-th decision to commit has number n.                         *)
(***************************************************************************)
Rank(rev) == Cardinality({d \in decisions : d.revision <= rev})

Ledger == INSTANCE IdentityLedger WITH
  head        <- Cardinality(decisions),
  memberships <- {[row EXCEPT !.opened = Rank(@), !.closed = Rank(@)] : row \in memberships},
  decisions   <- {[d EXCEPT !.parent = Rank(@), !.revision = Rank(@)] : d \in decisions},
  constraints <- {[n EXCEPT !.decision = Rank(@),
                            !.supersededBy = IF @ = None THEN None ELSE Rank(@)] : n \in constraints},
  claims      <- {[k EXCEPT !.revision = Rank(@)] : k \in claims}

\* A commit of t that another transaction's commit came before, since t began.
CommitsStale(t) == tx[t].missed /\ Commit(t)

\* The ledger starts as IdentityLedger does, and a transaction that missed nobody's
\* commit is the one step IdentityLedger takes it for, whatever others did before: the
\* order of its statements, the rows it leaves to wait for and the sequence it burns
\* make no difference (ActionService._transaction, adjudicate_identity).
ActsAsOneStep ==
  /\ Ledger!Init
  /\ [][vars' # vars => (\E t \in Requests : CommitsStale(t)) \/ Ledger!Next]_raceVars
=============================================================================
