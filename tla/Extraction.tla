----------------------------- MODULE Extraction -----------------------------
(***************************************************************************)
(* From a landed record to claims.  An extraction pass                     *)
(* (aegis/ingestion/service.py, derivatives.py, aegis/er/mentions.py, the  *)
(* route of aegis/api/routes/ingest.py and `aegis ingest extract`) is one  *)
(* transaction that reads and writes statement by statement: the text, the *)
(* mentions, what they resolve to, the draft.  A review                    *)
(* (ActionService.review_suggestion) reads a draft, records the claim and  *)
(* decides the draft, in one transaction that locks nothing it has read.   *)
(*                                                                         *)
(* A record's text states one relation between the Refs; each is a name.   *)
(* Entities are created here for a mention only, and are named by it; what *)
(* adjudications do to memberships is IdentityLedger's.                    *)
(***************************************************************************)
EXTENDS Landing

CONSTANTS
  Pdf,         \* contents that need a text derivative
  Text,        \* the text of such a content, itself a content
  Response,    \* what the semantic pass vaults
  Refs,        \* the names the relation is between
  Passes,      \* passes that can run at the same time
  Reviewers,   \* reviews that can run at the same time
  MaxPasses    \* bound: passes altogether

VARIABLES
  derivatives, \* derivative: [record, pass]
  mentions,    \* mention: [record, ref, pass], pass being the one that created it
  owner,       \* identity_membership, active rows: mention -> entity
  drafts,      \* review_queue rows of kind claim_draft, in the order of the commits
  reviews,     \* committed reviews: [draft, verdict, readAt]; an acceptance is a claim
  pass,        \* the passes in flight
  review,      \* the reviews in flight
  begun,       \* how many passes began, and the number of the last one
  finished     \* what committed passes had found: [record, producer, owner]

extractVars ==
  <<derivatives, mentions, owner, drafts, reviews, pass, review, begun, finished>>
ingestVars == <<vaultVars, landVars, extractVars>>

NoPass == [stage |-> "idle"]
NoReview == [stage |-> "idle"]
Nobody == <<>>   \* NULL, where an entity id may stand

IngestInit ==
  /\ LandInit
  /\ derivatives = {}
  /\ mentions = {}
  /\ owner = [m \in {} |-> Nobody]
  /\ drafts = <<>>
  /\ reviews = <<>>
  /\ pass = [p \in Passes |-> NoPass]
  /\ review = [v \in Reviewers |-> NoReview]
  /\ begun = 0
  /\ finished = {}

\* Mentions as the pass p sees them: committed, or its own.
Owned(m) == m \in DOMAIN owner
-----------------------------------------------------------------------------
\* extract_record refuses a quarantined record; it is looked at once.
StartPass(p, r, producer) ==
  /\ pass[p] = NoPass
  /\ begun < MaxPasses
  /\ records[r].status # "quarantined"
  /\ begun' = begun + 1
  /\ pass' = [pass EXCEPT ![p] =
       [stage |-> "text", record |-> r, producer |-> producer, number |-> begun + 1,
        seen |-> finished, derivative |-> {}, mentions |-> {}, anchors |-> <<>>,
        ids |-> <<>>, found |-> owner, draft |-> <<>>]]
  /\ UNCHANGED <<vaultVars, landVars, derivatives, mentions, owner, drafts, reviews,
                 review, finished>>

Derivative(p) == [record |-> pass[p].record, pass |-> pass[p].number]
DerivativesOf(r) == {d \in derivatives : d.record = r}

\* ensure_text: a PDF's text is produced once, into the vault and a row.
EnsureText(p) ==
  /\ pass[p].stage = "text"
  /\ LET r == pass[p].record
         c == records[r].content
     IN  IF c \in Pdf /\ DerivativesOf(r) = {}
         THEN /\ PutWhole(Text[c])
              /\ pass' = [pass EXCEPT ![p].stage = "response",
                   ![p].derivative = {Derivative(p)}]
         ELSE /\ pass' = [pass EXCEPT ![p].stage = "response"]
              /\ UNCHANGED vaultVars
  /\ UNCHANGED <<landVars, derivatives, mentions, owner, drafts, reviews, review, begun, finished>>

\* run_semantic_pass vaults what the model answered; run_structural_pass has nothing to.
VaultResponse(p) ==
  /\ pass[p].stage = "response"
  /\ pass' = [pass EXCEPT ![p].stage = "mentions"]
  /\ IF pass[p].producer = "semantic" THEN PutWhole(Response) ELSE UNCHANGED vaultVars
  /\ UNCHANGED <<landVars, derivatives, mentions, owner, drafts, reviews, review, begun, finished>>

MentionsFor(r, ref) == {m \in mentions : m.record = r /\ m.ref = ref}

Mention(p, ref) == [record |-> pass[p].record, ref |-> ref, pass |-> pass[p].number]

\* Slip: the mentions of the record are not looked up.
AnchorAnew(p, ref) == {Mention(p, ref)}

\* The mention a name is anchored to: one the record has (of several, whichever
\* the dictionary keeps), or a new one.
Anchor(p, ref) ==
  LET existing == MentionsFor(pass[p].record, ref)
  IN  IF existing # {} THEN existing ELSE {Mention(p, ref)}

\* extract_mentions
ReadMentions(p) ==
  /\ pass[p].stage = "mentions"
  /\ \E anchors \in [Refs -> UNION {Anchor(p, ref) : ref \in Refs}] :
       /\ \A ref \in Refs : anchors[ref] \in Anchor(p, ref)
       /\ pass' = [pass EXCEPT ![p].stage = "resolve", ![p].anchors = anchors,
            ![p].mentions = {anchors[ref] : ref \in Refs} \ mentions]
  /\ UNCHANGED <<vaultVars, landVars, derivatives, mentions, owner, drafts, reviews,
                 review, begun, finished>>

\* resolve_norm_key: of the active memberships of that name, of any record, the first
\* by id.  The ids are generated, so it may be any; whoever reads the same rows finds
\* the same one.
ResolveNormKey(ref) ==
  LET known == {m \in DOMAIN owner : m.ref = ref}
  IN  IF known = {} THEN Nobody ELSE owner[CHOOSE m \in known : TRUE]

ResolveNames(p) ==
  /\ pass[p].stage = "resolve"
  /\ pass' = [pass EXCEPT ![p].stage = "draft", ![p].found = owner,
                          ![p].ids = [ref \in Refs |-> ResolveNormKey(ref)]]
  /\ UNCHANGED <<vaultVars, landVars, derivatives, mentions, owner, drafts, reviews,
                 review, begun, finished>>

\* suggestion_idempotency_key digests the payload: anchors and entities, and the
\* producer, but not the model's answer.
DraftKey(x) == <<x.producer, x.record, x.anchors, x.ids>>
DraftOf(p) ==
  [producer |-> pass[p].producer, record |-> pass[p].record, anchors |-> pass[p].anchors,
   ids |-> pass[p].ids, status |-> "suggested"]
Queued(x) == \E d \in Elements(drafts) : DraftKey(d) = DraftKey(x)

\* _suggestion_exists, and submit_suggestion where it does not.
SubmitDraft(p) ==
  /\ pass[p].stage = "draft"
  /\ pass' = [pass EXCEPT ![p].stage = "ending",
                          ![p].draft = IF Queued(DraftOf(p)) THEN <<>> ELSE <<DraftOf(p)>>]
  /\ UNCHANGED <<vaultVars, landVars, derivatives, mentions, owner, drafts, reviews,
                 review, begun, finished>>

\* idempotency_key is UNIQUE: of two passes with one key the second fails.
CommitPass(p) ==
  /\ pass[p].stage = "ending"
  /\ \A d \in Elements(pass[p].draft) : ~Queued(d)
  /\ derivatives' = derivatives \cup pass[p].derivative
  /\ mentions' = mentions \cup pass[p].mentions
  /\ drafts' = drafts \o [i \in DOMAIN pass[p].draft |-> DraftOf(p)]
  /\ finished' = finished \cup {[record |-> pass[p].record, producer |-> pass[p].producer,
                                 found |-> pass[p].found]}
  /\ pass' = [pass EXCEPT ![p] = NoPass]
  /\ UNCHANGED <<vaultVars, landVars, owner, reviews, review, begun>>

\* An error or a crash; what is in the vault stays.
AbortPass(p) ==
  /\ pass[p] # NoPass
  /\ pass' = [pass EXCEPT ![p] = NoPass]
  /\ UNCHANGED <<vaultVars, landVars, derivatives, mentions, owner, drafts, reviews,
                 review, begun, finished>>
-----------------------------------------------------------------------------
\* Slip: a decided draft is taken up again.
ReadAnyDraft(v, i) ==
  /\ review[v] = NoReview
  /\ review' = [review EXCEPT ![v] =
       [stage |-> "read", draft |-> i, readAt |-> Len(reviews), opens |-> <<>>]]
  /\ UNCHANGED <<vaultVars, landVars, derivatives, mentions, owner, drafts, reviews,
                 pass, begun, finished>>

\* review_suggestion reads the row, without a lock.
ReadDraft(v, i) ==
  /\ review[v] = NoReview
  /\ drafts[i].status = "suggested"
  /\ review' = [review EXCEPT ![v] =
       [stage |-> "read", draft |-> i, readAt |-> Len(reviews), opens |-> <<>>]]
  /\ UNCHANGED <<vaultVars, landVars, derivatives, mentions, owner, drafts, reviews,
                 pass, begun, finished>>

Decided(v, verdict) ==
  /\ drafts' = [drafts EXCEPT ![review[v].draft].status = verdict]
  /\ reviews' = Append(reviews, [draft |-> review[v].draft, verdict |-> verdict,
                                 readAt |-> review[v].readAt])
  /\ review' = [review EXCEPT ![v] = NoReview]

Reject(v) ==
  /\ review[v].stage = "read"
  /\ Decided(v, "rejected")
  /\ UNCHANGED <<vaultVars, landVars, derivatives, mentions, owner, pass, begun, finished>>

\* The argument's entity: the one the draft names, the one the mention belongs to
\* (_entity_from_mention), or a new one for it.
ArgumentEntity(d, ref) ==
  IF d.ids[ref] # Nobody THEN d.ids[ref]
  ELSE IF Owned(d.anchors[ref]) THEN owner[d.anchors[ref]] ELSE <<d.anchors[ref]>>

\* _create_claim: an anchor nobody owns is attached to the argument's entity, one
\* that is owned must be owned by it (_check_anchor).
Attached(d) ==
  [m \in {d.anchors[ref] : ref \in Refs} \ DOMAIN owner |->
     ArgumentEntity(d, CHOOSE ref \in Refs : d.anchors[ref] = m)]

DispatchAcceptance(v) ==
  /\ review[v].stage = "read"
  /\ LET d == drafts[review[v].draft]
     IN  /\ \A ref \in Refs : Owned(d.anchors[ref]) =>
              owner[d.anchors[ref]] = ArgumentEntity(d, ref)
         /\ review' = [review EXCEPT ![v].stage = "dispatched", ![v].opens = Attached(d)]
  /\ UNCHANGED <<vaultVars, landVars, derivatives, mentions, owner, drafts, reviews,
                 pass, begun, finished>>

\* ux_membership_one_active refuses a mention somebody else attached meanwhile.
Accept(v) ==
  /\ review[v].stage = "dispatched"
  /\ \A m \in DOMAIN review[v].opens : ~Owned(m)
  /\ owner' = [m \in DOMAIN owner \cup DOMAIN review[v].opens |->
                 IF Owned(m) THEN owner[m] ELSE review[v].opens[m]]
  /\ Decided(v, "accepted")
  /\ UNCHANGED <<vaultVars, landVars, derivatives, mentions, pass, begun, finished>>

\* Refused, failed or crashed: rolled back.
AbandonReview(v) ==
  /\ review[v] # NoReview
  /\ review' = [review EXCEPT ![v] = NoReview]
  /\ UNCHANGED <<vaultVars, landVars, derivatives, mentions, owner, drafts, reviews,
                 pass, begun, finished>>
-----------------------------------------------------------------------------
Pass(p) ==
  \/ \E r \in DOMAIN records, producer \in {"structural", "semantic"} : StartPass(p, r, producer)
  \/ EnsureText(p) \/ VaultResponse(p) \/ ReadMentions(p) \/ ResolveNames(p)
  \/ SubmitDraft(p) \/ CommitPass(p) \/ AbortPass(p)

Review(v) ==
  \/ \E i \in DOMAIN drafts : ReadDraft(v, i)
  \/ Reject(v) \/ DispatchAcceptance(v) \/ Accept(v) \/ AbandonReview(v)

IngestNext ==
  \/ LandNext /\ UNCHANGED extractVars
  \/ \E p \in Passes : Pass(p)
  \/ \E v \in Reviewers : Review(v)

IngestSpec == IngestInit /\ [][IngestNext]_ingestVars
-----------------------------------------------------------------------------
\* Every row that points into the vault points at something: a record, a
\* derivative, a draft's raw_response_ref (spec 04 section 4).
RefsResolve ==
  /\ BytesBeforeRecord
  /\ \A d \in derivatives : Has(Text[records[d.record].content])
  /\ \A d \in Elements(drafts) : d.producer = "semantic" => Has(Response)

\* Replay safety (spec 04 section 5): a pass that began after one of the same
\* producer over the same record was through, and finds the names resolved as that
\* one did, adds no derivative, no mention and no draft.  (When two passes have
\* overlapped, a name has two mentions and the claim is not made.)
Unambiguous(r) == \A ref \in Refs : \A m, n \in MentionsFor(r, ref) : m = n

ReplayAddsNothing ==
  \A p \in {x \in Passes : pass[x].stage = "ending" /\ Unambiguous(pass[x].record)} :
    \A x \in pass[p].seen :
      x.record = pass[p].record /\ x.producer = pass[p].producer /\ x.found = pass[p].found
      => pass[p].derivative = {} /\ pass[p].mentions = {} /\ pass[p].draft = <<>>

\* A draft is decided once: whoever decides it a second time had read it before
\* the first decision was committed.
DecidedOnceUnlessOverlapping ==
  \A i, j \in DOMAIN reviews :
    i < j /\ reviews[i].draft = reviews[j].draft => reviews[j].readAt < i

\* Tables, passes and reviews name rows that exist, and a reviewed draft is decided.
IngestTypeOK ==
  /\ \A d \in derivatives : d.record \in DOMAIN records
  /\ \A m \in mentions : m.record \in DOMAIN records /\ m.ref \in Refs
  /\ DOMAIN owner \subseteq mentions
  /\ \A d \in Elements(drafts) : d.anchors \in [Refs -> mentions]
  /\ \A i \in DOMAIN drafts :
       drafts[i].status = "suggested" <=> \A x \in Elements(reviews) : x.draft # i

\* Nothing points at what is not there, in the database or in the vault, whoever died
\* or rolled back between the two.
NothingDangles == IngestTypeOK /\ RefsResolve
=============================================================================
