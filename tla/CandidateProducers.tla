------------------------- MODULE CandidateProducers -------------------------
(***************************************************************************)
(* The producers of candidate pairs (aegis/er/rules.py, er/splink_job.py)  *)
(* and what becomes of the pairs.  A producer reads who is who, the        *)
(* constraints, the candidates and the evidence in statements of their own *)
(* (READ COMMITTED), then inserts what is new and commits, while analysts  *)
(* decide.  It never changes identity.                                     *)
(*                                                                         *)
(* Mentions carry a document and a normalized name, claims an identifier   *)
(* (predicate and value; None for a claim that is not one), an issuer and  *)
(* a validity.  The scores of the statistical producer are its library's:  *)
(* any pairs of resolved mentions may be above the threshold.              *)
(***************************************************************************)
EXTENDS IdentityLedger

CONSTANTS
  Document, NormKey,             \* of each mention
  Identifier, Issuer, ValidFrom, ValidTo,  \* of each claim; 0 is an open end
  LastDay,                       \* of the calendar that the ends are days of
  Runs,                          \* producers that can be at work at once
  MaxRuns                        \* how many runs are begun

\* record_claim and the table's check let no window end before it starts.
ASSUME ProducerAssumption ==
  /\ DOMAIN Document = Mentions /\ DOMAIN NormKey = Mentions
  /\ \A f \in {Identifier, Issuer, ValidFrom, ValidTo} : DOMAIN f = Claims
  /\ LastDay \in Nat \ {0}
  /\ \A k \in Claims :
       /\ {ValidFrom[k], ValidTo[k]} \subseteq 0..LastDay
       /\ ValidFrom[k] # 0 /\ ValidTo[k] # 0 => ValidFrom[k] <= ValidTo[k]
  /\ MaxRuns \in Nat

VARIABLES
  er_candidate,   \* its rows, each with the number of the commit it came with
  producer,       \* the runs at work
  begun,          \* how many runs were begun
  committed       \* how many runs were committed

producerVars == <<vars, er_candidate, producer, begun, committed>>

Pairs == {{x, y} : x, y \in Mentions} \ {{x} : x \in Mentions}
-----------------------------------------------------------------------------
\* Slip: the issuers are compared and the windows are not.
ConflictOfIssuers(k, l) == Issuer[k] # None /\ Issuer[l] # None /\ Issuer[k] # Issuer[l]

WindowsOverlap(k, l) ==
  /\ ~(ValidTo[k] # 0 /\ ValidFrom[l] # 0 /\ ValidTo[k] < ValidFrom[l])
  /\ ~(ValidTo[l] # 0 /\ ValidFrom[k] # 0 /\ ValidTo[l] < ValidFrom[k])

\* _conflict: another registry, or a number that was issued again (H-07).
Conflict(k, l) == ConflictOfIssuers(k, l) \/ ~WindowsOverlap(k, l)

\* _mentions_for_claim: the anchor, or else all there are of the subject.
SpeaksFor(k, owner) ==
  IF k.subjectMention # None THEN {k.subjectMention}
  ELSE {x \in DOMAIN owner : owner[x] = k.subject}

\* The unretracted literal claims of an identifier predicate.
IdentifierClaims == {k \in claims : Identifier[k.id] # None /\ k.object = None /\ ~k.retracted}

\* The claims with this identifier that speak for the mention.
Observed(ks, owner, value, x) ==
  {k.id : k \in {l \in ks : Identifier[l.id] = value /\ x \in SpeaksFor(l, owner)}}

Values(ks) == {Identifier[k.id] : k \in ks}

\* Of several observations of one mention the last one read stays (unique), and the
\* query has no order: any of them.
Observations(ks, owner) ==
  {f \in [Values(ks) \X Mentions -> Claims \cup {None}] :
     \A v \in Values(ks), x \in Mentions :
       IF Observed(ks, owner, v, x) = {} THEN f[<<v, x>>] = None
                                         ELSE f[<<v, x>>] \in Observed(ks, owner, v, x)}

\* evaluate_preverified_identifiers: pairs, and the claims they rest on.
IdentifierPairs(seen) ==
  UNION {{[pair |-> {vx[2], wy[2]}, basis |-> {seen[vx], seen[wy]}] :
            wy \in {w \in DOMAIN seen : /\ w[1] = vx[1] /\ w[2] # vx[2] /\ seen[w] # None
                                        /\ ~Conflict(seen[vx], seen[w])}}
           : vx \in {v \in DOMAIN seen : seen[v] # None}}

\* evaluate_same_key_in_document, for one document or for all.
SameKeyPairs(documents) ==
  {pair \in Pairs : \E x, y \in pair :
     /\ x # y /\ Document[x] = Document[y] /\ NormKey[x] = NormKey[y]
     /\ Document[x] \in documents}

SameEntity(owner, pair) ==
  \E x, y \in pair : x # y /\ {x, y} \subseteq DOMAIN owner /\ owner[x] = owner[y]

\* _emit, and the same tests in run_splink.
Emit(r, row) ==
  /\ row.pair \notin r.existing
  /\ row.pair \notin r.constrained
  /\ ~SameEntity(r.owner, row.pair)

\* A pair that no identifier speaks for is not pre-verified: its basis is empty.
OnName(pairs) == {[pair |-> pair, basis |-> {}] : pair \in pairs}

\* What a run inserts of its proposals, one row a pair: of several identifiers that
\* propose a pair, any; of an identifier and a name, the identifier.
Inserted(r, identified, other) ==
  LET emitted == {row \in identified : Emit(r, row)}
      proposed == {row.pair : row \in emitted}
  IN  {{chosen[pair] : pair \in proposed}
         \cup {row \in other : Emit(r, row) /\ row.pair \notin proposed}
         : chosen \in {f \in [proposed -> emitted] : \A pair \in proposed : f[pair].pair = pair}}
-----------------------------------------------------------------------------
NoRun == [stage |-> "idle", rules |-> FALSE, owner |-> NoLineage, constrained |-> {},
          existing |-> {}, after |-> 0, asOf |-> 0, rows |-> {}]

ProducerIdle ==
  /\ er_candidate = {}
  /\ producer = [r \in Runs |-> NoRun]
  /\ begun = 0 /\ committed = 0

ProducerInit == Init /\ ProducerIdle

Unproduced == UNCHANGED <<vars, er_candidate, begun, committed>>

Owner == [x \in {row.mention : row \in Active} |-> CHOOSE e \in Entities : Belongs(x, e)]

\* run_rules and run_splink begin with _active_entity_by_mention or the feature frame.
StartRun(r) ==
  /\ begun < MaxRuns /\ producer[r].stage = "idle"
  /\ \E rules \in BOOLEAN :
       producer' = [producer EXCEPT ![r] =
         [NoRun EXCEPT !.stage = IF rules THEN "constraints" ELSE "candidates",
                       !.rules = rules, !.owner = Owner]]
  /\ begun' = begun + 1
  /\ UNCHANGED <<vars, er_candidate, committed>>

\* Slip: only the pairs that await a human count as existing.
ReadExistingOpen(r) ==
  /\ producer[r].stage = "candidates"
  /\ producer' = [producer EXCEPT
       ![r].stage = IF producer[r].rules THEN "evidence" ELSE "constraints",
       ![r].existing = {row.pair : row \in {x \in er_candidate : x.disposition = "open"}},
       ![r].after = committed]
  /\ Unproduced

\* _open_or_decided_pairs, _existing_pairs; nothing is ever superseded.
ReadExisting(r) ==
  /\ producer[r].stage = "candidates"
  /\ producer' = [producer EXCEPT
       ![r].stage = IF producer[r].rules THEN "evidence" ELSE "constraints",
       ![r].existing = {row.pair : row \in er_candidate},
       ![r].after = committed]
  /\ Unproduced

\* _constrained_pairs, before the candidates in the rules and after them in the scores.
ReadConstrained(r) ==
  /\ producer[r].stage = "constraints"
  /\ producer' = [producer EXCEPT
       ![r].stage = IF producer[r].rules THEN "candidates" ELSE "evidence",
       ![r].constrained = {n.pair : n \in {x \in constraints : x.supersededBy = None}},
       ![r].asOf = head]
  /\ Unproduced

\* The proposals: identifier claims and names, of one document or of all, or scores.
Proposals(r) ==
  IF r.rules
  THEN {[identified |-> IdentifierPairs(seen), other |-> OnName(SameKeyPairs(documents))] :
          seen \in Observations(IdentifierClaims, r.owner),
          documents \in {Range(Document)} \cup {{d} : d \in Range(Document)}}
  ELSE {[identified |-> {}, other |-> OnName(above)] :
          above \in SUBSET {p \in Pairs : p \subseteq DOMAIN r.owner}}

Propose(r) ==
  /\ producer[r].stage = "evidence"
  /\ \E p \in Proposals(producer[r]) : \E rows \in Inserted(producer[r], p.identified, p.other) :
       producer' = [producer EXCEPT ![r] =
         [NoRun EXCEPT !.stage = "insert", !.rows = rows,
                       !.after = producer[r].after, !.asOf = producer[r].asOf]]
  /\ Unproduced

\* The INSERTs and the command's commit: no index refuses a pair that has a row.
CommitRun(r) ==
  /\ producer[r].stage = "insert"
  /\ er_candidate' = er_candidate \cup
       {[pair |-> row.pair, basis |-> row.basis, disposition |-> "open", commit |-> committed + 1,
         after |-> producer[r].after, asOf |-> producer[r].asOf] : row \in producer[r].rows}
  /\ committed' = committed + 1
  /\ producer' = [producer EXCEPT ![r] = NoRun]
  /\ UNCHANGED <<vars, begun>>

\* A run that dies leaves nothing.
FailRun(r) ==
  /\ producer[r].stage # "idle"
  /\ producer' = [producer EXCEPT ![r] = NoRun]
  /\ Unproduced

Run(r) ==
  \/ StartRun(r) \/ ReadConstrained(r) \/ ReadExisting(r) \/ Propose(r) \/ CommitRun(r)
  \/ FailRun(r)

\* An analyst's decision about a candidate's pair; a batch is one after the other.
DecideCandidate(row, parent) ==
  LET settled(disposition) ==
        er_candidate' = (er_candidate \ {row}) \cup {[row EXCEPT !.disposition = disposition]}
  IN  /\ row.disposition = "open"
      /\ \E x, y \in row.pair :
           /\ x # y
           /\ \/ "confirm_match" \in Modes /\ ConfirmMatch(parent, x, y, None) /\ settled("confirmed")
              \/ "reject_match" \in Modes /\ RejectMatch(parent, x, y, None) /\ settled("rejected")
              \/ /\ "mark_unresolved" \in Modes
                 /\ MarkUnresolved(parent, x, y, None) /\ settled("unresolved")
      /\ UNCHANGED <<producer, begun, committed>>

ProducerNext ==
  \/ \E r \in Runs : Run(r)
  \/ \E row \in er_candidate, parent \in 0..MaxRevision : DecideCandidate(row, parent)
  \/ Next /\ UNCHANGED <<er_candidate, producer, begun, committed>>

ProducerSpec == ProducerInit /\ [][ProducerNext]_producerVars
-----------------------------------------------------------------------------
\* "A pair that already has a candidate is not proposed twice" (cli.py:354): neither by
\* two rules of one run nor by another producer, whatever was decided meanwhile, unless
\* the second run had read the candidates before the first committed.
OneCandidatePerPairUnlessOverlapping ==
  \A row, other \in er_candidate :
    row.pair = other.pair /\ row.commit <= other.commit =>
      row = other \/ (row.commit < other.commit /\ other.after < row.commit)

\* "A pair a reviewer rejected is not proposed again at all" (cli.py:355): every
\* candidate of a rejected pair is of a run that had read the constraints before.
RejectedIsNotProposedAgain ==
  \A row \in er_candidate, n \in constraints : n.pair = row.pair => row.asOf < n.decision

\* Neither what waits for a reviewer nor what one refused comes back.
NothingIsProposedAgain == OneCandidatePerPairUnlessOverlapping /\ RejectedIsNotProposedAgain

\* What can be confirmed in bulk rests on claims of one identifier that some registry
\* may have issued to one person: on one day at least both held, and no two registries
\* are named (H-07).
PreVerifiedOnAgreeingEvidence ==
  \A row \in er_candidate : \A k, l \in row.basis :
    /\ Identifier[k] = Identifier[l]
    /\ Cardinality({Issuer[k], Issuer[l]} \ {None}) <= 1
    /\ \E day \in 1..LastDay : \A x \in {k, l} :
         (ValidFrom[x] = 0 \/ ValidFrom[x] <= day) /\ (ValidTo[x] = 0 \/ day <= ValidTo[x])
=============================================================================
