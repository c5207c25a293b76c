# Verification of Aegis: identity, authorization, audit, ingestion and the graph

TLA+ models of the parts of Aegis whose correctness depends on the order in
which things happen: the identity ledger with its adjudications, the canonical
entity map derived from it, what proposes decisions and what is drawn from them
(candidates, projected edges, graph answers, the panel behind an edge), the way
of a document from its bytes to a claim, the import of the legacy dataset, the
projection of Postgres into OpenFGA, and the audit hash chain with the API gate
that appends to it. TLC checks small instances; TLAPS proves the central
invariants for every value of the constants.

`PROJECT.json` maps every definition to the lines it models and lists runs,
theorems, hazards and findings. Run TLC on the module and cfg it names for a
run, and `tlapm` on the eight `*Proofs` modules.

Paths below are relative to the repository's root.

## 1. The system

Aegis keeps claims about entities in PostgreSQL, each claim resting on source
records and, where possible, on *mentions* (spans of text). Which mentions name
the same entity is decided by people; what a claim means follows from those
decisions. Every write is an *action* in one transaction, audited in the same
transaction. Sessions run at PostgreSQL's default, READ COMMITTED.

| Component | State | Operations | Who it meets |
|---|---|---|---|
| Identity ledger and adjudication (`aegis/er/adjudication.py`, `ledger.py`) | revisions, decisions, memberships, candidates, negative constraints | confirm, reject, split, mark unresolved, attach a mention | called by the actions service; ends with a rebuild of the map |
| Canonical map (`aegis/er/canonical.py`) | one row per entity, tombstones | replay the ledger, resolve chains, rewrite the table | read by claims, splits, projections, queries |
| ER producers (`aegis/er/rules.py`, `splink_job.py`) | er_candidate | emit candidate pairs by rule or score | ledger, constraints, identifier claims |
| Identity routes (`aegis/api/routes/identity.py`) | none, but a client keeps what it was shown | list candidates, record a decision, confirm a batch | ledger; the client sends back the revision it saw |
| Actions service (`aegis/actions/service.py`) | claims, relations, cases, evidence, custody, review queue | record, retract and link claims, membership, custody, suggestions and reviews | ledger, outbox, audit |
| Evidence vault (`aegis/evidence/vault.py`) | stored objects and their sidecars | write-once put | ingestion, evidence |
| Ingestion (`aegis/ingestion/service.py`, `aegis/er/mentions.py`) | source records, derivatives, mentions | land, quarantine, release, extract | vault, review queue |
| Review queue (`service.py`, `routes/review.py`) | suggestions with a status | submit (idempotent), accept, reject | claims, ingestion, splits |
| Edge projection (`aegis/projections/edges.py`) | projected edges, each with a revision | cut validity windows, rebuild, stamp | claims, map, anchors |
| Graph queries, provenance (`aegis/queries/`) | none; several statements per answer | expand, overview, shortest routes, why connected, support, history | projection, claims, map |
| Legacy import (`aegis/migration/legacy.py`) | none of its own | import the curated dataset, and again | ledger, claims |
| Authorization outbox (`aegis/authz/outbox.py`, `fga.py`) | pending tuple changes; the OpenFGA store | drain, inline delete, full rebuild | actions queue rows; a background loop drains them |
| Authorization filters (`aegis/authz/filters.py`) | none | restrict reads by case, clearance, time known | every read |
| Audit chain (`aegis/audit/chain.py`, `routes/audit.py`) | hash-chained rows, an advisory lock | append inside any transaction, verify, list page by page | every action, and the gate |
| API gate (`aegis/api/deps.py`) | none; the event loop is what it shares | refuse or admit, auditing first | audit chain, handlers in worker threads |

The rest (name search, analytics, export, normalization, ontology loading,
migrations, UI, infrastructure) is stateless, run once, or a library's; it is
listed with reasons in `PROJECT.json`.

**What is hard.** Nothing in the ledger locks what it reads, so two decisions
in flight read around each other, and the guard against it
(`check_scope_is_current`) is itself an unlocked read. The map is a replay that
tells a merge's rows from later ones by revision number alone, and attaching a
mention does not move the revision. Who is who is then told twice, by the map
and by a claim's anchors, and readers of the graph meet both. A projection is
read statement by statement while it is being replaced. An import, a landing and
an extraction are repeated, and must find what they left although people have
decided since. A file's bytes and its record are stored by two systems. A grant
has three copies (the row, the queue, the store), written at three times, with
failures between. The audit lock is taken in the middle of transactions that
nest, undo and go on, and it is waited for on an event loop that other
transactions need in order to end.

**What makes each part correct.** *Ledger:* one entity per mention; the past
does not change; decisions rest on evidence that is still current; constraints
form one history. *Map:* it is what a replay gives; chains end; a merge can be
undone. *Producers:* nothing is proposed again that was decided, nothing in bulk
on evidence that disagrees. *Claims:* an anchor belongs to the entity it names;
what a split cannot attribute reaches a human; what was known at a moment does
not change. *Vault and ingestion:* no record without its bytes, one record per
artifact, a replay adds nothing, a draft is decided once. *Projection and graph:*
rows not marked stale tell who is who; an answer has all that was asked for or
says that it has not; every edge opens onto its claims. *Import:* what the
dataset says is said once, of whom its nodes are now. *Outbox:* once drained,
the store equals Postgres, whatever failed; revocations arrive. *Audit:* one
unbroken chain at all times, nothing refused or read without its row, and
listings that neither repeat nor pass over one.

## 2. Modules

| Module | Models |
|---|---|
| `CanonicalMap` | the replay and `_resolve` as functions of rows and decisions; no state |
| `IdentityLedger` | the ledger and its two writers, one committed transaction per action |
| `AnalystDesk` | analysts who list candidates and decide later, over `IdentityLedger` |
| `CandidateProducers` | the two producers, read by read, over `IdentityLedger` |
| `ClaimHistory` | when a claim was known: recordings and retractions as transactions with stamps, over `IdentityLedger` |
| `LegacyImport` | the import and its reruns, over `IdentityLedger` |
| `ConcurrentAdjudication` | the ledger's transactions statement by statement at READ COMMITTED; `IdentityLedger` is its abstract specification |
| `EdgeProjection` | validity windows, segments, rebuilds read by read, over `IdentityLedger` |
| `GraphQueries` | an expansion statement by statement, over `EdgeProjection` |
| `Provenance`, `Support` | the panel behind an edge; relations between claims and their two counts |
| `EvidenceVault` | puts of both backends, call by call |
| `Landing` | landings by requests and by the command, over `EvidenceVault` |
| `Extraction` | passes, drafts and reviews, over `Landing` |
| `AuthzOutbox` | memberships, custody and evidence links, the queue, the dispatcher, the rebuild, the store |
| `AuthzProjection` | what the store owes Postgres: `AuthzOutbox` with history variables for what a rebuild was crossed about |
| `AuditChain` | appends inside transactions with savepoints, the lock, `verify` |
| `RequestGate` | one API process: gates on the event loop, handlers in threads, over `AuditChain` |
| `AuditListing` | an auditor paging through the log, over `RequestGate` |
| `MC*` | constants and scopes for TLC |
| `IdentityLedgerProofs` | theorems about the ledger alone; lemmas the others use |
| `CanonicalMapProofs` | theorems about the replay, the map and the panel |
| `ConcurrentAdjudicationProofs` | theorem about racing transactions |
| `LedgerReadersProofs` | theorems about `ClaimHistory`, `AnalystDesk`, `CandidateProducers`, `LegacyImport` |
| `EdgeProjectionProofs` | theorems about `EdgeProjection`, `GraphQueries`, `Support` |
| `IngestionProofs` | theorems about `EvidenceVault`, `Landing`, `Extraction` |
| `AuthzOutboxProofs` | theorems about `AuthzProjection` |
| `RequestGateProofs` | theorems about `AuditChain`, `RequestGate`, `AuditListing` |

Definitions whose comment begins with "Slip" are plausible mistakes, not code:
with one in place of the definition it stands before, the property it is paired
with in `PROJECT.json` fails.

### IdentityLedger and CanonicalMap

A table is a set of rows. `ConfirmMatch`, `RejectMatch`, `SplitEntity` and
`MarkUnresolved` are the four handlers with all they call: opening the decision,
moving rows, settling the candidate, rebuilding map and tombstones, queueing
drafts. `RecordClaim` includes `_check_anchor`, `_entity_from_mention` and
`open_membership`; `RetractClaim` marks a claim. A request the code refuses has
a false guard. `Init` is what migration 0007 leaves: revision 0 and one open row
for each legacy mention.

Left out: generated ids other than entities' (a row is known by its contents);
gaps in the revision numbers (`ConcurrentAdjudication` has them); `at_revision_id`
of the map; labels, vocabulary, grading, dates and entity types, and with them
the swap of a symmetric predicate's arguments, which exchanges the two anchored
arguments together. Candidates exist before the run. A batch confirm is a
series of `ConfirmMatch` with one parent revision; its transaction boundary is
in `RequestGate` only. A mention row exists from the start and is "extracted
later" in that nobody has ruled on it.

`LedgerIsCoherent` joins four parts: `ConstraintsFormAChain`, `ResolutionIsFinal`,
`AbsorbedReachTheLiving`, `MergeIsReversible`. `SplitsQueueTheUnattributed` joins
`UnanchoredClaimsAreQueuedOnCreation` and `DraftsRepointOneArgument`. The second
leaves out the split of an entity that was absorbed and was given a mention since:
its claims are looked up by ids that resolve to it, and none does, so that nothing
is queued although the anchors still name it. The first is about a split onto an
entity that holds nothing yet (`WentToNewEntity`): a baseline entity without
mentions is restored in silence.

`AfterRevision` is the replay up to a revision. The replay takes revisions in
order and reads nothing later than the revision it is at, so the map of a past
moment is a prefix of today's replay; the proofs are by this.

### AnalystDesk

`ListCandidates` is the candidate query, `ReadRevision` the `max(revision_id)`
read after it, `Decide` any adjudication with that revision as parent. Other
transactions run in between, late mentions included.

### CandidateProducers

A run is one transaction of statements: `StartRun` reads who is who,
`ReadExisting` the candidates, `ReadConstrained` the constraints, `Propose`
computes and inserts, `CommitRun` shows what was inserted. `IdentifierPairs` and
`SameKeyPairs` are the two rules; the statistical producer's scores are its
library's, so any pairs of resolved mentions may pass the threshold. Two things
the code does that surprise: among claims of one identifier that speak for one
mention, the last one read stays, in an order nothing fixes; and evidence that is
retracted after a candidate was emitted is not looked at again by `batch_confirm`.
An unanchored identifier claim about an absorbed entity speaks for no mention.

### ClaimHistory

`BeginRecord` takes the time (`now()` is the transaction's start), `CommitRecord`
shows the row; `BeginRetraction` reads the claim and the clock, `CommitRetraction`
writes by id. `Ask` is `claim_filters` with `as_of`, as an auditor or not. The
application's and the database's clock are taken to agree.

### LegacyImport

`FindNode` looks one node up after the other through its mention's key and
record; `CommitImport` records, in the same transaction, what it did not find: a
mention, an entity and a baseline membership for a new node, and a claim for
every draft that no unretracted claim says already (`Speaks` is `_claim_exists`,
which tries a symmetric predicate both ways round). `Draft`, `RemapEdge` and
`NodeDrafts` are the dataset's aliases, affiliations and edges with the remap
table. Only the import is taken to draw claims from the dataset's records.
`ImportIsRepeatable` is what the module's docstring says of reruns, as far as it
is so: a rerun changes nothing unless something was decided since the last import
began or retracted since it ended (`Untouched`, from what `settled` remembers of
the last import).
After a retraction the rerun says the claim again; after a merge it says the
absorbed entity's claims again about the survivor, and an edge between the
merged nodes is refused as a claim about one entity twice, so the rerun fails as
a whole. A first import into a ledger with decisions opens its memberships at
revision 0, before them.

### ConcurrentAdjudication

Each request's transaction is a record: the stage it has reached and what it has
read and written. The ledger's own variables hold committed rows only. The
sequence behind `identity_revision` is never rolled back. Flushes wait for
writers of the same row (a guard), and a unique index turns a lost wait into an
abort. Abort is possible at every point.

Statements no commit can separate with visible effect share a step: the scope
query and the check (a commit in between only makes the check refuse more), and
the replay's three reads (rows of a transaction seen in part open or close
nothing a decision refers to). Claims are attached with a literal object. The
identity map's cached candidate is treated as freshly read. `ActsAsOneStep` is
the refinement, with revisions read as their rank among the committed ones: a
transaction that missed nobody's commit was one step of `IdentityLedger`.

### EdgeProjection, GraphQueries, Provenance and Support

A day is a number; 1 is `date.min`, `LastDay` is `date.max`. `Interval`, `Cuts`,
`Segments` and the two bounds are `_intervals`, `_segment` and `_to_bound`. A
rebuild (`StartRebuild`, `ReadCanonical`, `ReadAnchors`, `ReadClaims`,
`DeleteRows`, `InsertRows`) is the route's, statement by statement, under its
`pg_try_advisory_xact_lock`; `FailBuild` is any end without a commit. Because
`date.max` doubles as "no bound", three dates misbehave, in the model as in the
code: a claim that ends on the last day makes every rebuild overflow, one that
ends the day before becomes unbounded, one that begins on the last day
is lost. `SegmentsMatchDays` is stated for the days before. A claim's
window is well formed, as `record_claim` and a check constraint of migration 0002
see to (`service.py:368`). The command
`aegis projections rebuild` takes no lock; two rebuilds without it delete the
same rows and insert overlapping ones, so the model has the route's only.

`UnmarkedRowsAreCurrent` and `AnsweredAsOfNow` leave out one claim
(`OnAbsorbedSince`): one whose mention was attached, at the present revision, to an
entity that had been absorbed before. Its anchor stays at the absorbed entity and
the map leads away. If it is recorded between a rebuild's read of the anchors and
its read of the claims, its row is drawn where the map leads, the next rebuild
draws it where the anchor is, and no stamp tells the two apart.

`Ask`, `ResolveSeeds`, `Hop`, `TakeOverview`, `Hydrate`, `Stamp` are the
statements of `expand`; decisions, retractions and rebuilds commit in between.
`AnswerIsWhatWasAsked` joins `AnswerWithinBudget` and `NothingMissingUnlessTold`;
the second goes by the number of hops after clamping, for the code clamps in
silence (`queries/graph.py:357`), although spec 06 line 129 has over-asking
"disclosed as `truncated`". A rebuild under a walk mixes rows of two builds, and
`_hydrate` drops a row whose claims were all retracted under the walk (the branch
marked "no cover"); the properties about an answer leave such a walk out
(`disturbed`), and keep every decision that commits under one. `disturbed` goes on
to note rebuilds and retractions after the answer, which is then out of date: an
answer is compared with the projection it was taken from.

`Within` are the distances, which the promise goes by and no step of the walk
computes: a hop looks at the last one's newcomers only. `WalksFrom` are all walks
of at most so many rows, `Leading` those of them that end at the target;
`ShortestRoutes` is the service's way through the circles around the source.

`WhyConnected` and `IdentityHistory` are the panel's queries; `PanelLosesNothing`
joins three parts: `PathsAgree` (as long as nothing was split or attached
late, map and anchors name the same entity), `MergedEdgesAreExplained` and
`HistoryLosesNoDecision`. `Support` adds `link_claims` and the two counts of
corroborating and contradicting relations. `CanvasAndPanelAgree` says they agree
for an edge whose contradictions are between claims that are all on the canvas.
They do not otherwise: the graph counts relations among the drawn claims, while
`edges.py:208` speaks of "the caller's visible claims", and the panel counts
all. And one disagreement that was recorded from both of its ends is two
relations, which each claim's own count counts twice, "impossible by
construction" according to `support_summary`.

Left out: grades, labels, categories, reliability; a caller who may not read all
claims in the panel; the order of rows by generated ids (any order).

### EvidenceVault, Landing and Extraction

A put links or puts the object, then the sidecar, and may stop between any two
calls; the filesystem backend never replaces, the object store asks and then
puts. A landing (`land_bytes`) puts first and then runs one transaction:
`LookUp`, `EnsureManualSource`, `FindSiblings`, `InsertRecord`, `AuditLanding`,
`Report`. The unique key makes a second insert wait and fail (`RefusedInsert`);
two landings that wait for each other's rows and the audit lock are broken up by
PostgreSQL (`BreakDeadlock`). The route has a session per artifact; the command
one for all files, with the open transaction of finding 5. A version of a known
name is quarantined until `ReleaseQuarantine`.

A pass (`EnsureText`, `VaultResponse`, `Anchor`, `ReadMentions`, `ResolveNames`,
`SubmitDraft`, `CommitPass`) is one transaction over one record whose text states
one relation; a review reads a draft, records the claim (`DispatchAcceptance`) and
decides the draft. The idempotency key of a draft (`DraftKey`) contains the entity
ids its names resolved to. `ReplayAddsNothing` is therefore about replays that
find the names resolved as before: accepting a draft gives its mentions an entity,
and the next replay queues the accepted draft again, which the comment at
`service.py:92` says the key prevents. `DecidedOnceUnlessOverlapping` excludes
reviews that overlapped, for the status is read without a lock. `resolve_norm_key`
takes the first membership by id that it finds for a name; which one that is, is a
choice fixed before the run, so that "as before" has a meaning.

Left out: what an extractor finds; formats and offsets; a draft that a reviewer
edits; the demo fixture.

### AuthzOutbox and AuthzProjection

A *place* is where one grant lives: a seat (case, user), an item's custodian, an
item's link to its case. A member request is two steps, because
`session.get` returns the object the route has already read; custody is one,
because the item's row is locked `FOR UPDATE`. The dispatcher applies rows one
by one in an open transaction and marks them at its commit; a failed call may or
may not have had its effect; a crash forgets the marks. The rebuild reads
Postgres, then the store, then the queue, in that order, and locks nothing; the
dispatcher and the requests go on in between.

`AuthzProjection` adds two history variables, which no step reads. `crossed` are
the tuples about which the others came between the rebuild's reads: a commit
after the read of Postgres (`OtherRequest`), or a row that took effect after the
read of the store and that the rebuild will supersede if the drain does not mark
it (`OtherDrain`). `doubtful` are those the store may be wrong about afterwards:
what the restore left, then what the last rebuild was crossed about, together
with all that was in doubt before if it failed. The properties are about the
tuples that are neither (`Sound`): about them the store follows
(`StoreFollows`), the roles of a seat do not overlap (`RolesNeverOverlap`), and
changes arrive (`ChangesReachTheStore`), with a rebuild anywhere among requests,
drains, inline deletes and failures. That a rebuild repairs is part of this: when
it is done, whatever it was not crossed about is sound, however the store had
drifted. What it was crossed about can be lost: a grant committed between its
read of Postgres and its read of the queue is superseded with its row, and
nothing queues it again (`outbox.py:224`, section 5).

One assumption is left, `OneAtATime`: requests at one place do not overlap. What
happens when they do is finding 3.

Left out: the caller's own FGA check, a second dispatcher (it would wait on the
same row locks), pages of `read_all` (one read). Transactions commit in the
order of their outbox ids.

### AuditChain, RequestGate and AuditListing

`Lock`, `ReadPrevious` and `Insert` are `append`; `Savepoint`, `Release` and
`RollBackTo` are `ActionService._transaction` inside an outer one. PostgreSQL
gives back a lock taken after a savepoint when that savepoint is rolled back, so
a transaction can lose the lock and take it again. The hash is taken to be
injective, so a row carries its predecessor's id for its hash.

In `RequestGate` the `async` gate holds the event loop from its decision to its
commit. Handlers are plain functions in a thread pool (large enough for the
requests there are); they append, nest, return or raise. Closing the session,
which is what ends the transaction of a handler that raised, takes the loop.

In `AuditListing` each page (`FirstPage`, `NextPage`) is one query over the
committed log, newest first, past the cursor the client sends back. An extra row
decides whether there is a next page, as in `paginate`.

## 3. Runs

Deadlock checking is off in every run: the counters are bounded, and a system
with nobody asking anything may stop.

| Run | What it asks | Bounds |
|---|---|---|
| `ledger_late` | the ledger with late mentions: types, `OneEntityPerMention`, `PastIsFrozen`, anchors, the map against its replay, the drafts of a split; what a decision can have missed of the screen; producers beside decisions; import and reruns; what was known when | 2 clusters, 1 late mention, 1 spare entity, 2 decisions of all four kinds; five scopes, below |
| `projection` | chains of merges and their undoing, constraint histories, the scope check; rebuilds among decisions; graph answers; the panel | 3 clusters, 1 spare entity, 4 decisions; six scopes, below |
| `ledger_map_rebuild` | is the map always what a replay gives? **No** | as the first scope of `ledger_late` |
| `edge_unexplained` | does every projected edge open onto its claim in the panel? **No** | as `projection` |
| `race` | does any interleaving leave a mention with two entities, or none? Does a transaction that misses no commit act as one step of `IdentityLedger`? | 2 requests of any kind, 1 cluster, 1 late mention, 1 candidate |
| `race_stale_decision` | is every concurrent decision computed on current evidence? **No** | 2 requests, 3 clusters |
| `outbox_calm` | the store follows Postgres; roles do not overlap; grants and revocations arrive; a rebuild of a drifted store, in the middle of requests and drains, repairs all it was not crossed about | 1 seat, 2 roles, an item, a link, 4 requests, batches of 2, 1 crash, 1 rebuild; three scopes, below |
| `outbox_stale_grant` | does a drained queue leave no stale grant? **No** | 2 requests at one seat |
| `gate` | one chain, durable gate rows, for every nesting and failure; listings meanwhile | a refused, a sensitive and a plain request, 3 actions of the plain handler and 1 of the sensitive one, savepoints 2 deep; pages of 1 row |
| `gate_stuck` | is a refusal always audited in the end? **No** | 1 refused request, 1 write |
| `ingest` | landings that overlap, die and are repeated; passes and reviews | 2 landers, 4 puts, 3 passes, 2 reviewers; three scopes, below |
| `landing_batch` | is what the command reported recorded? **No** | 1 command, 2 files |

*Scopes.* Four runs explore several small scopes from one set of constants,
because each question needs other bounds, and `gate` bounds each handler for itself. The next-state relation of such a run
is that of its modules with guards that leave out steps out of the scope; the
guards exclude states, and permit no step the modules do not have.
`ledger_late`: the ledger alone; two analysts who merge and split; two runs of
the producers over two identifier claims, with one decision at any moment; an
import into an empty ledger, then merges, splits, retractions and reruns; two
clerks, one claim and two ticks of the clock. `projection`: decisions alone
(the chains); decisions and one claim; two rebuilds with two claims, a decision
and a retraction at any moment; every expansion of every small graph; a walk
along a chain of two claims while decisions, a retraction or a rebuild commit;
two or three claims and up to two relations between them. `ingest`: three
landings of any kind; a fourth that a command and a request can deadlock over;
passes and reviews over what one landing left. `outbox_calm`: four requests about
a seat and a crash, after a rebuild that left nothing in doubt; two about a seat
and a crash, before, in or after a rebuild; and without crashes, requests about
anything, two at any time and a third while no rebuild is at work.

*Why the bounds are enough.* In `ledger_late`, two decisions are what it takes
to merge and split, or to attach a mention at the revision of a decision and
decide again; one identifier observed twice is what a pair is made of. Chains of
two merges need three clusters; a merge undone after another needs a third
decision and a rejection in between a fourth, hence `projection`. Two windows
have every order of their four ends, so that all pairs of windows are every way
to cut (`SegmentsMatchDays`). A walk is cut short, or told to be, with five
elements and two hops. In the race, a hazard needs one transaction that misses
another; a third brings no new kind of overlap at one row. For the outbox, four
requests are assign, change, remove, assign; a batch of two cuts a role change's
delete and write apart; a rebuild is crossed by one request or drain, and two
requests are a change before its reads and one between them. In the chain, three
actions (a savepoint and two locks, which the bound counts alike) suffice to lose
the lock with a savepoint and take it again, and three writers to have one wait
while another commits. For ingestion, three landings are two that overlap and one that
repeats; a replay is a second pass, and the third runs over what two left.
Symmetry is declared over analysts, requests, producer runs, rebuilds, landers,
passes and reviewers, and over legacy mentions jointly with their entities, never
in a run with liveness.

*Environments.* Some properties assume what nothing in the code enforces, and
say so where they are stated: `ProjectionSpec` (requests at one place do not
overlap), RequestGate's `CalmSpec` (nobody waits on the loop for the lock of a
handler that raised), `ActsAsOneStep` (a transaction that missed no commit),
`PastAnswersHold` (nobody was at work on the claim when the reader asked: two
retractions that overlap overwrite `retracted_at`, and an answer as of a moment
between them changes), `NothingIsProposedAgain` (a run cannot know what was
committed after it read), `AnsweredAsOfNow` (no rebuild and no retraction under
the walk), `PathsAgree` (no splits, no late mentions), and the two exceptions
for mentions attached late to an absorbed entity (sections on the ledger and on
the projection). For the first two and for races of decisions, and for edges, a
run without the assumption shows what then goes wrong. For the others none does:
a property that assumes a race away says nothing of that race, and
`PROJECT.json` lists the hazard (retractions or reviews that overlap, a map
written over a merge, a file put over by a late writer, a name mentioned twice)
with a note and not as covered.

*Fairness.* The ledger, graph and ingestion modules are checked for safety only.
In `AuthzOutbox`: `dispatch_forever` survives every exception, so a drain is
started again and ends (weak fairness of `StartDrain` and `CommitDrain`); the
store is assumed to accept each row in the end (strong fairness of `ApplyRow`; a
tuple it always refused would hold up the queue for good, `outbox.py:84`); a
rebuild that was started ends, by success or error. In `RequestGate`: the event
loop and PostgreSQL's lock queue serve waiters in order, and handlers are finite
(strong fairness of each request's steps on the loop and off it). No fairness is
assumed of requests being made or of anything failing.

## 4. What is proved

Nothing below depends on a bound. The assumptions are the named `ASSUME`s on the
constants: sets of ids are finite or disjoint where they are so in the database,
marks such as `Open` and `None` are no members of the types they are used beside,
the baseline gives each mention at most one entity, a calendar has a day. TLC
evaluates each of them. In every case the property itself is not inductive, and
what had to be added is the argument.

- **The ledger.** `TypeCorrect`, `OneEntity`, `PastFrozen`, `AnchorsHeld`,
  `CurrentEvidence`, `OneConstraintInForce`. Whatever a step does, to the
  membership table it does one of three things: move rows, open rows for
  unresolved mentions, or nothing (`StepOnRows`); each property of the table is
  proved once for each. `OneEntityPerMention` is inductive with the type
  invariant. `PastIsFrozen` needs that no row has been opened or closed beyond
  the head; `AnchorsHeldWhenWritten` follows from that and from the past being
  frozen, since a late attachment adds to the head's memberships and a decision
  changes them at a new revision. `DecidedOnCurrentEvidence`: the scope check
  makes the scope's memberships at the parent those at the head, and what was true
  at the parent stays so. Finding 2 is its failure where decisions interleave.
  Constraints form a chain because the versions of a pair are 1 to their number
  and each superseded one names the next (`ConstraintsOK`).
- **Racing transactions.** `OneEntityUnderRaces`: `OneEntityPerMention` under
  `RaceSpec`, for any number of transactions rolled back at any point. `RaceInv`
  adds that the rows behind two flushes are apart and still in the table
  (`FlushesApart`), and that no two transactions attach one mention
  (`AttachmentsApart`). It needs only row locks and the partial unique index: the
  scope check plays no part in it.
- **The map.** `MapIsReplayed` (`MapIsReplayWithoutLateMentions`), `Coherent`
  (`LedgerIsCoherent`), `NoneLeftBehind` (`SplitsQueueTheUnattributed`),
  `NothingLostToThePanel` (`PanelLosesNothing`). The replay is recursive over
  revisions and `_resolve` over a chain. That each has a unique value is proved
  from the well-ordering of the naturals (`LeastOf`, a minimum argument in place
  of the induction theorems), then what one more revision adds to it. `MapOK` says
  that the table is the replay, that no chain of the lineage is a cycle, and that
  an entity which held a mention holds one or was absorbed. `HistoryOK` says that
  every closed row was closed by a decision that moves mentions, that a confirm
  closed all of one entity and opened the same for another (`OnRecord`), and that
  nobody was absorbed while he held a mention (`NotAbsorbedWhileHolding`); undoing
  the last merge is the replay without it by these. `QueueOK` says that drafts are
  of claims there are. For the panel, `MentionsFollow`: without a split, the
  mention of every row there ever was is now held by the entity the row's resolves
  to.
- **Readers of the ledger.** `PastAnswers` (`PastAnswersHold`): a clerk in flight
  carries a time not past, and nothing committed has a stamp in the future
  (`ClerksOK`, `AnswerOK`). `OnlyLateUnseen`: the screen is contained in the state
  at the revision it names, except for mentions attached since (`ScreenOK`).
  `NotProposedAgain` and `AgreeingEvidence`: what a run read is right for all that
  committed before it read (`RunOK`), and a candidate carries the commit it is
  blind to (`ProducerInv`).
- **The import.** `ImportFaithful` (`ImportIsFaithful`) and `ImportRepeatable`
  (`ImportIsRepeatable`), by `ImportInv`: every imported node has a mention that
  belonged to somebody (`SourcedOK`); what the import in flight found of a node was
  so when it began, and still is while nobody has decided since (`ImporterOK`); the
  head and the retractions the last import went by are of the past (`SettledOK`).
  With nothing decided or retracted since, every node is sourced (`AllSourced`)
  and every draft is said, so that a rerun has nothing to record.
- **Projection and graph.** `SegmentsAlwaysMatch` is about `_segment` as a
  function of any windows in any calendar: between neighbouring cuts the same
  claims hold, so the segments are disjoint and cover. `OneRowADay`: one rebuild
  is at work at a time, and what it deletes is all there is (`WorkInv`).
  `UnmarkedAreCurrent` and `NotStaleIsNow`: a map and anchors read at the present
  head are still right, but for first attachments (`AnchorsOK`, `RowInv`), and a
  walk has collected projected rows (`WalkInv`).
- **Answers and routes.** `AnswerTellsAll` (`AnswerIsWhatWasAsked`), for any
  budget, hops, window and readable claims. `TableOK` says that rows have two ends
  and a first day and those of one edge no day in common, so that an id tells rows
  apart and windows that overlap share a day (`OverlapIsADay`). `BudgetInv` bounds what was taken, whoever disturbs the walk;
  `HonestInv` says that a walk which took each hop whole has, after n of them, what
  is incident to those within n - 1, and for its frontier those who are exactly n
  away (`Hopped`). A hop from the frontier alone then misses nothing
  (`HopGoesOn`), and an empty frontier means that no further hop adds any
  (`WithinStops`). `RoutesAreTheShortest` (`RoutesAreShortest`): an entity is
  within n hops if a walk of at most n rows leads there (`WalksReach`), so a circle
  holds those whom the shortest walks reach with that many (`CirclesAre`), and a
  walk to a circle came through the one before (`CameThrough`). The recursions are
  shown to define functions by the same minimum argument as the map's.
  `CountsAlwaysAgree` (`CanvasAndPanelAgree`): what the canvas indexes of a claim
  is part of what the panel finds, all of it when both ends are drawn; the table of
  relations is finite, which makes counts comparable.
- **Ingestion.** `KeptApartAlways`, `NothingDanglesAlways`, `DecidedOnce`,
  `ReplaysAddNothing`, `RelandingIsQuiet`. `SessionOK` says what each landing in
  flight knows (its bytes are kept before a row says so, its look-up still holds
  when it inserts), `KeysApart` that no artifact has two rows, committed or not.
  `PassOK` says what a pass has left undone, `FinishedOK` what one that ended has
  left behind for a replay to find.
- **AuthzOutbox.** `TypeCorrect`, `Projection` (`StoreFollows`), `NoOverlap`
  (`RolesNeverOverlap`), under `ProjectionSpec`. `IInv` adds that a drain works off
  a first part of the queue in order (`DrainInPlace`), that requests in flight still
  see Postgres as it is (`RequestsCurrent`), and of each sound tuple that the last
  row queued for it says what Postgres says, and that the store has followed once
  the drain has marked all there is (`Kept`). A running rebuild keeps the same of
  what it was not crossed about (`RebuildInPlace`): while it writes, whatever is
  wrong with the store is still on its lists; once it has read the queue, what is
  kept is kept without the rows it is about to supersede, so that superseding them
  loses nothing. `NoOverlap` adds that of a seat's roles the stored one leaves before
  another is written (`InTurn`), as long as no drain crashed and no rebuild is at
  work or ended half-way; while a rebuild waits to supersede, the same is said of
  the rows that will remain.
- **Audit** (`RequestGateProofs`). `ChainTypeCorrect`, `AlwaysVerifies`,
  `OnlyAtTheEnd`. `ChainInv` says that what is appended is appended under the
  lock, that open transactions' ids come after all committed ones, that a
  savepoint from before the lock is older than every row of its transaction (so
  rolling back to it loses lock and rows together), and that each transaction sees
  one chain and knows its end. `RequestsAreWriters`: the process implements
  `AuditChain`. `AuditedFirst`: no audited request passes the gate before its row
  is durable. `ListingsAreSnapshots`: for any page size and filter, the pages
  shown so far are the rows that were there at the first page, from the newest to
  the cursor, each once; rows commit in the order of their ids, so nothing that is
  appended meanwhile can be below a cursor.

*What failed attempts showed.* Four properties were false as first stated, in
states the runs' bounds do not reach, and say now what is so. A rebuild that
failed half-way may leave two roles of a seat in the store until the next one. A
replay of a pass is quiet only if `resolve_norm_key` chooses among several
memberships of a name the same way twice. A projected row is current only if its
claim's mention was not attached late to an absorbed entity
(`UnmarkedRowsAreCurrent`). A split of an absorbed entity may queue nothing
(`DraftsRepointOneArgument`).

*Only model-checked.* `ActsAsOneStep`, the refinement of `race`: the abstract state
numbers decisions by their rank among the committed ones, so a proof has to show
that the replay by ranks equals the replay by revisions, and that whatever an
undisturbed transaction read still holds when it commits. What is proved about
races is `OneEntityPerMention`. Liveness, fairness and `ENABLED` are out of the
provers' reach: that grants and revocations arrive, that a drain ends, and that a
request is answered stay with TLC.

## 5. Findings

Each has a run that ends in a counterexample.

1. `ledger_map_rebuild` — **the map cannot always be rebuilt.** A mention
   attached at the revision of a merge looks, to the replay, like a second
   winner of the merge, which is then ignored (`aegis/er/canonical.py:79`,
   `ledger.py:105`). Spec 05 section 8 promises byte-identical resolution.
2. `race_stale_decision` — **a stale decision commits.** Two confirms both pass
   the scope check before either commits (`adjudication.py:118`).
3. `outbox_stale_grant` — **a grant outlives its row.** A removal that read the
   old role races a role change, deletes the row with its new role and revokes
   the old one (`service.py:1308`).
4. `gate_stuck` — **the API process stops.** A gate waits on the event loop for
   the audit lock of a handler that raised; its session is closed by that loop
   (`deps.py:98`).
5. `landing_batch` — **a file reported as landed is not.** What the command
   prints about a file reopens a transaction, in which the next file lands
   without a commit (`cli.py:560`).
6. `edge_unexplained` — **an edge opens onto nothing.** After a merge, a claim
   about the merged entity and a split, the projection draws the claim from the
   split-out entity by its anchor, and the panel looks by the map
   (`queries/provenance.py:269`, `projections/edges.py:335`).

Further disagreements met while modelling. The models contain the behaviour, no
run is devoted to it (those of the graph, of replays and of reruns are in section 2):

- Attaching a mention to an absorbed entity makes a later legal confirm replay
  into a cycle (`canonical.py:98`), which spec 05 line 203 calls possible only in
  a corrupt ledger.
- A split onto an existing entity queues no claims (`service.py:682` against
  spec 05 line 298), and its target may hold other mentions although
  `split_entity` says "a new or restored one" (`adjudication.py:414`).
- The candidate listing reads its rows before its revision
  (`routes/identity.py:208`), so a decision in between is part of the revision
  and not of the screen; and a late mention makes no decision stale
  (`ledger.py:105`).
- The inline delete can remove a grant given again after its commit
  (`routes/cases.py:99`); a rebuild supersedes rows it never reflected
  (`outbox.py:224`), so that a grant or a revocation committed while it runs can
  be lost until the next one.
- A confirm that replays before and deletes after another's commit writes a map
  without the other's merge (`canonical.py:110`); two rejections of one pair can
  both become version 1 (`adjudication.py:374`).
- `DenialsPersist` also fails without a batch: any handler that raises after an
  append (an extraction whose second suggestion fails) holds the lock the same
  way.
- The legacy importer's claim that "re-running the migration therefore changes
  nothing" holds only where nothing was decided or retracted since.

## 6. Not modelled yet, and the plan

In order of what could go wrong unnoticed:

1. Batches and audit together with `ConcurrentAdjudication`: the lock order of a
   batch against a single decision (PostgreSQL resolves the deadlock with an
   error the batch does not catch), and history under revisions that commit out
   of order (an attachment that reads the head while a smaller revision is open).
2. A proof of the refinement that is only model-checked (section 4).
3. `CustodyChain`: an item's events as one chain from actor to actor, with
   quarantine and release, composed with `AuthzOutbox`'s custody places.
4. Readers with less than full sight: cases and clearance in the panel and the
   graph, and what a reviewer edits in a draft.
5. The rebuild of the command, beside the route's.

Left out for good: normalization, features and the scoring model (no state, or a
library's), name search and exports (read-only, one statement), the ontology
loader and migrations (run once), token checks, rate limits and error mapping,
deployment files and SDK stubs.
