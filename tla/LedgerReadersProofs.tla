------------------------- MODULE LedgerReadersProofs -------------------------
(***************************************************************************)
(* Proofs about who reads the identity ledger while it changes: the reader *)
(* of the past (ClaimHistory), the analysts' screens (AnalystDesk), the    *)
(* producers of candidates (CandidateProducers) and the import of the      *)
(* legacy dataset (LegacyImport), each under its own specification and for *)
(* all constants.  What one of them has read stays in a fixed relation to  *)
(* what the ledger has become, and the theorems follow from that relation. *)
(***************************************************************************)
EXTENDS IdentityLedgerProofs, ClaimHistory, AnalystDesk, CandidateProducers, LegacyImport,
        FiniteSetTheorems

-----------------------------------------------------------------------------
\* The clerks' transactions and the stamps; who records a claim is alone at work on it and
\* it has no row yet, and whoever retracts one has read its row.
ClerksOK ==
  /\ clock \in Nat
  /\ clerk \in [Clerks -> [work : {"none", "record", "retract"}, claim : Claims \cup {None},
                           at : 0..clock]]
  /\ stamps \in [DOMAIN stamps -> [recorded : Nat, retracted : Nat \cup {None}]]
  /\ \A w \in Clerks : clerk[w].work = "record" =>
       /\ clerk[w].claim \notin DOMAIN stamps
       /\ \A v \in Clerks \ {w} : clerk[v].work # "none" => clerk[v].claim # clerk[w].claim
  /\ \A w \in Clerks : clerk[w].work = "retract" => clerk[w].claim \in DOMAIN stamps

\* A settled answer still holds; who is at work on its claim began after the moment it is
\* about, and when he is to retract it, it was not retracted by that moment.
Late(w) ==
  clerk[w].work # "none" /\ clerk[w].claim = answer.claim =>
    /\ clerk[w].at > answer.asOf
    /\ clerk[w].work = "retract" =>
         \/ stamps[answer.claim].retracted = None
         \/ stamps[answer.claim].retracted > answer.asOf
AnswerOK ==
  answer.settled =>
    /\ answer.asOf \in Nat /\ answer.asOf < clock
    /\ answer.seen = Visible(answer.claim, answer.asOf, answer.auditor)
    /\ \A w \in Clerks : Late(w)

LEMMA HistoryStart == HistoryInit => ClerksOK /\ AnswerOK
BY DEF HistoryInit, ClerksOK, AnswerOK, NoAnswer, Away, NoLineage

\* One clerk takes up a claim, or lays it down.
LEMMA ClerkTurns ==
  ASSUME ClerksOK, AnswerOK, clock' = clock, stamps' = stamps, answer' = answer,
         NEW w \in Clerks, NEW work \in {"none", "record", "retract"},
         NEW k \in Claims \cup {None}, NEW at \in 0..clock,
         clerk' = [clerk EXCEPT ![w] = [work |-> work, claim |-> k, at |-> at]],
         work = "record" => /\ k \notin DOMAIN stamps
                            /\ \A v \in Clerks : clerk[v].claim # k,
         work = "retract" => k \in DOMAIN stamps /\ stamps[k].retracted = None,
         work # "none" => at = clock
  PROVE  ClerksOK' /\ AnswerOK'
<1>1. /\ clerk'[w].work = work /\ clerk'[w].claim = k /\ clerk'[w].at = at
      /\ \A v \in Clerks \ {w} : clerk'[v] = clerk[v]
      /\ clerk' \in [Clerks -> [work : {"none", "record", "retract"}, claim : Claims \cup {None},
                                at : 0..clock]]
  BY DEF ClerksOK
<1>2. \A v \in Clerks : clerk'[v].work = "retract" => clerk'[v].claim \in DOMAIN stamps
  BY <1>1 DEF ClerksOK
<1>3. ASSUME NEW u \in Clerks, clerk'[u].work = "record"
      PROVE  /\ clerk'[u].claim \notin DOMAIN stamps
             /\ \A v \in Clerks \ {u} : clerk'[v].work # "none" => clerk'[v].claim # clerk'[u].claim
  <2>1. CASE u = w
    BY <1>1, <1>3, <2>1
  <2>2. CASE u # w
    BY <1>1, <1>3, <2>2 DEF ClerksOK
  <2> QED
    BY <2>1, <2>2
<1>4. ClerksOK'
  BY <1>1, <1>2, <1>3 DEF ClerksOK
<1>5. ASSUME answer.settled PROVE \A v \in Clerks : Late(v)'
  BY <1>1, <1>5 DEF AnswerOK, Late
<1> QED
  BY <1>4, <1>5 DEF AnswerOK, Visible

LEMMA RecordingKeeps ==
  ASSUME ClerksOK, AnswerOK, NEW w \in Clerks, CommitRecord(w)
  PROVE  ClerksOK' /\ AnswerOK'
<1> DEFINE k == clerk[w].claim
<1>1. /\ clerk[w].work = "record" /\ clock' = clock /\ answer' = answer
      /\ stamps' = [x \in DOMAIN stamps \cup {k} |->
                      IF x = k THEN [recorded |-> clerk[w].at, retracted |-> None] ELSE stamps[x]]
      /\ clerk' = [clerk EXCEPT ![w] = [work |-> "none", claim |-> None, at |-> 0]]
  BY DEF CommitRecord, Away
<1>2. /\ clerk'[w].work = "none"
      /\ \A v \in Clerks \ {w} : clerk'[v] = clerk[v]
      /\ clerk' \in [Clerks -> [work : {"none", "record", "retract"}, claim : Claims \cup {None},
                                at : 0..clock]]
  BY <1>1 DEF ClerksOK
<1>3. /\ DOMAIN stamps' = DOMAIN stamps \cup {k} /\ \A x \in DOMAIN stamps : stamps'[x] = stamps[x]
      /\ stamps'[k].recorded = clerk[w].at
      /\ stamps' \in [DOMAIN stamps' -> [recorded : Nat, retracted : Nat \cup {None}]]
  BY <1>1 DEF ClerksOK
<1>4. k \notin DOMAIN stamps /\ \A v \in Clerks \ {w} : clerk[v].work # "none" => clerk[v].claim # k
  BY <1>1 DEF ClerksOK
<1> HIDE DEF k
<1>5. ClerksOK'
  BY <1>1, <1>2, <1>3, <1>4 DEF ClerksOK
<1>6. ASSUME answer.settled
      PROVE  /\ answer.seen = Visible(answer.claim, answer.asOf, answer.auditor)'
             /\ \A v \in Clerks : Late(v)'
  <2>1. CASE answer.claim = k
    <3>1. clerk[w].at > answer.asOf /\ ~answer.seen
      BY <1>1, <1>4, <1>6, <2>1 DEF AnswerOK, Late, Visible, k
    <3>2. ~(stamps'[k].recorded <= answer.asOf)
      BY <1>3, <1>6, <3>1 DEF AnswerOK, ClerksOK
    <3> QED
      BY <1>1, <1>2, <1>4, <1>6, <2>1, <3>1, <3>2 DEF AnswerOK, Late, Visible
  <2>2. CASE answer.claim # k
    BY <1>1, <1>2, <1>3, <1>6, <2>2 DEF AnswerOK, ClerksOK, Late, Visible
  <2> QED
    BY <2>1, <2>2
<1> QED
  BY <1>1, <1>5, <1>6 DEF AnswerOK

LEMMA RetractingKeeps ==
  ASSUME ClerksOK, AnswerOK, NEW w \in Clerks, CommitRetraction(w)
  PROVE  ClerksOK' /\ AnswerOK'
<1>0. PICK k : k = clerk[w].claim
  OBVIOUS
<1>1. /\ clerk[w].work = "retract" /\ clock' = clock /\ answer' = answer
      /\ stamps' = [stamps EXCEPT ![k].retracted = clerk[w].at]
      /\ clerk' = [clerk EXCEPT ![w] = [work |-> "none", claim |-> None, at |-> 0]]
  BY <1>0 DEF CommitRetraction, Away
<1>2. /\ clerk'[w].work = "none"
      /\ \A v \in Clerks \ {w} : clerk'[v] = clerk[v]
      /\ clerk' \in [Clerks -> [work : {"none", "record", "retract"}, claim : Claims \cup {None},
                                at : 0..clock]]
  BY <1>1 DEF ClerksOK
<1>3. k \in DOMAIN stamps /\ clerk[w].at \in Nat
  BY <1>0, <1>1 DEF ClerksOK
<1>4. /\ DOMAIN stamps' = DOMAIN stamps /\ \A x \in DOMAIN stamps \ {k} : stamps'[x] = stamps[x]
      /\ stamps'[k].recorded = stamps[k].recorded /\ stamps'[k].retracted = clerk[w].at
      /\ stamps' \in [DOMAIN stamps' -> [recorded : Nat, retracted : Nat \cup {None}]]
  <2>1. stamps[k] \in [recorded : Nat, retracted : Nat \cup {None}]
    BY <1>3 DEF ClerksOK
  <2>2. PICK new : new = [stamps[k] EXCEPT !.retracted = clerk[w].at]
    OBVIOUS
  <2>3. /\ new \in [recorded : Nat, retracted : Nat \cup {None}]
        /\ new.recorded = stamps[k].recorded /\ new.retracted = clerk[w].at
    BY <1>3, <2>1, <2>2
  <2>4. stamps' = [stamps EXCEPT ![k] = new]
    BY <1>1, <2>2
  <2> QED
    BY <1>3, <2>3, <2>4 DEF ClerksOK
<1>5. ClerksOK'
  BY <1>1, <1>2, <1>4 DEF ClerksOK
<1>6. ASSUME answer.settled
      PROVE  /\ answer.seen = Visible(answer.claim, answer.asOf, answer.auditor)'
             /\ \A v \in Clerks : Late(v)'
  <2>1. CASE answer.claim = k
    <3>1. clerk[w].at > answer.asOf
      BY <1>0, <1>1, <1>6, <2>1 DEF AnswerOK, Late
    <3>2. stamps[k].retracted = None \/ stamps[k].retracted > answer.asOf
      BY <1>0, <1>1, <1>6, <2>1 DEF AnswerOK, Late
    <3>3. Visible(k, answer.asOf, answer.auditor)' <=> Visible(k, answer.asOf, answer.auditor)
      BY <1>1, <1>4, <3>1, <3>2 DEF Visible
    <3>4. \A v \in Clerks : Late(v)'
      BY <1>1, <1>2, <1>4, <1>6, <2>1, <3>1 DEF AnswerOK, Late
    <3>5. answer.seen = Visible(k, answer.asOf, answer.auditor)
      BY <1>6, <2>1 DEF AnswerOK
    <3> QED
      BY <1>1, <2>1, <3>3, <3>4, <3>5 DEF Visible
  <2>2. CASE answer.claim # k
    BY <1>1, <1>2, <1>4, <1>6, <2>2 DEF AnswerOK, ClerksOK, Late, Visible
  <2> QED
    BY <2>1, <2>2
<1> QED
  BY <1>1, <1>5, <1>6 DEF AnswerOK

LEMMA HistoryStep ==
  ClerksOK /\ AnswerOK /\ [HistoryNext]_historyVars => ClerksOK' /\ AnswerOK'
<1> SUFFICES ASSUME ClerksOK, AnswerOK, [HistoryNext]_historyVars PROVE ClerksOK' /\ AnswerOK'
  OBVIOUS
<1>1. CASE Tick
  <2>1. clock \in Nat /\ clock' = clock + 1 /\ UNCHANGED <<stamps, clerk, answer>>
    BY <1>1 DEF Tick, ClerksOK
  <2>2. 0..clock \subseteq 0..clock'
    BY <2>1
  <2>3. clerk \in [Clerks -> [work : {"none", "record", "retract"}, claim : Claims \cup {None},
                              at : 0..clock']]
    BY <2>2 DEF ClerksOK
  <2>4. ClerksOK'
    BY <2>1, <2>3 DEF ClerksOK
  <2>5. answer.settled => answer.asOf < clock'
    BY <2>1 DEF AnswerOK
  <2> QED
    BY <2>1, <2>4, <2>5 DEF AnswerOK, Visible, Late
<1>2. ASSUME NEW w \in Clerks, NEW k \in Claims, BeginRecord(w, k) PROVE ClerksOK' /\ AnswerOK'
  <2>1. clock \in 0..clock
    BY DEF ClerksOK
  <2> QED
    BY <1>2, <2>1, ClerkTurns DEF BeginRecord, AtWorkOn
<1>3. ASSUME NEW w \in Clerks, NEW k \in Claims, BeginRetraction(w, k) PROVE ClerksOK' /\ AnswerOK'
  <2>1. clock \in 0..clock
    BY DEF ClerksOK
  <2> QED
    BY <1>3, <2>1, ClerkTurns DEF BeginRetraction
<1>4. ASSUME NEW w \in Clerks, GiveUp(w) PROVE ClerksOK' /\ AnswerOK'
  <2>1. 0 \in 0..clock
    BY DEF ClerksOK
  <2> QED
    BY <1>4, <2>1, ClerkTurns DEF GiveUp, Away
<1>5. ASSUME NEW k, NEW asOf \in 0..MaxTime, NEW auditor, Ask(k, asOf, auditor)
      PROVE  ClerksOK' /\ AnswerOK'
  <2>1. ClerksOK'
    BY <1>5 DEF Ask, ClerksOK
  <2>2. /\ answer'.claim = k /\ answer'.asOf = asOf /\ answer'.auditor = auditor
        /\ answer'.seen = Visible(k, asOf, auditor) /\ answer'.settled = ~AtWorkOn(k)
        /\ asOf < clock /\ clock' = clock /\ clerk' = clerk /\ stamps' = stamps
    BY <1>5 DEF Ask
  <2>3. Visible(k, asOf, auditor)' <=> Visible(k, asOf, auditor)
    BY <2>2 DEF Visible
  <2>4. answer'.settled => \A w \in Clerks : Late(w)'
    BY <2>2 DEF Late, AtWorkOn
  <2>5. asOf \in Nat
    BY HistoryAssumption DEF HistoryAssumption
  <2> QED
    BY <2>1, <2>2, <2>3, <2>4, <2>5 DEF AnswerOK, Visible
<1>6. CASE UNCHANGED historyVars
  BY <1>6 DEF historyVars, ClerksOK, AnswerOK, Visible, Late
<1> QED
  BY <1>1, <1>2, <1>3, <1>4, <1>5, <1>6, RecordingKeeps, RetractingKeeps DEF HistoryNext

\* Whoever asks again what was known at a moment is told the same, whatever is recorded
\* and retracted meanwhile, unless somebody was at work on the claim when he first asked
\* (claim_filters, retract_claim).
THEOREM PastAnswers == HistorySpec => []PastAnswersHold
<1>1. AnswerOK => PastAnswersHold
  BY DEF AnswerOK, PastAnswersHold
<1> QED
  BY <1>1, HistoryStart, HistoryStep, PTL DEF HistorySpec
-----------------------------------------------------------------------------
\* No step takes a row away: what it says of its opening stays.
LEMMA OpenedStay ==
  ASSUME IInv, [Next]_vars, NEW row \in memberships
  PROVE  \E x \in memberships' :
           x.mention = row.mention /\ x.entity = row.entity /\ x.opened = row.opened
<1>1. Rows /\ head \in Nat
  BY LedgerAssumption DEF IInv, Rows, LedgerAssumption
<1>2. MovesRows \/ OpensRows \/ KeepsRows
  BY <1>1, StepOnRows
<1>3. CASE MovesRows
  <2>1. PICK ms \in SUBSET Mentions, target \in Entities :
          memberships' = Moved(ms, target, head + 1)
    BY <1>3 DEF MovesRows
  <2> QED
    BY <1>1, <2>1, MovedHas
<1> QED
  BY <1>2, <1>3 DEF OpensRows, KeepsRows

\* A screen shows no one a pair that was not held when it was read, and what was held
\* then and is not on it was attached late, at that very revision.
ScreenOK(seen, listedAt) ==
  /\ seen \subseteq HeldAt(listedAt)
  /\ \A h \in HeldAt(listedAt) \ seen : \E row \in memberships :
       row.mention = h[1] /\ row.entity = h[2] /\ row.opened = listedAt

DeskInv ==
  /\ desk = [x \in Analysts |-> desk[x]]
  /\ \A x \in Analysts :
       /\ desk[x] = [stage |-> desk[x].stage, seen |-> desk[x].seen,
                     listedAt |-> desk[x].listedAt, revision |-> desk[x].revision]
       /\ desk[x].listedAt \in 0..head /\ desk[x].revision \in 0..head
       /\ desk[x].stage # "away" => ScreenOK(desk[x].seen, desk[x].listedAt)

LEMMA ScreenStays ==
  ASSUME IInv, [Next]_vars, NEW seen, NEW at \in 0..head, ScreenOK(seen, at)
  PROVE  ScreenOK(seen, at)'
<1>1. Rows /\ head \in Nat /\ at \in Nat /\ at <= head
  BY LedgerAssumption DEF IInv, Rows, LedgerAssumption
<1>2. MovesRows \/ OpensRows \/ KeepsRows
  BY <1>1, StepOnRows
<1>3. HeldAt(at) \subseteq HeldAt(at)'
  BY <1>1, <1>2, HeldGrows
<1>4. ASSUME NEW h \in HeldAt(at)', h \notin seen
      PROVE  \E row \in memberships' :
               row.mention = h[1] /\ row.entity = h[2] /\ row.opened = at
  <2>1. CASE h \in HeldAt(at)
    <3>1. PICK row \in memberships : row.mention = h[1] /\ row.entity = h[2] /\ row.opened = at
      BY <1>4, <2>1 DEF ScreenOK
    <3> QED
      BY <3>1, OpenedStay
  <2>2. CASE h \notin HeldAt(at)
    <3>1. at = head /\ OpensRows
      BY <1>1, <1>2, <1>4, <2>2, HeldFrozen
    <3>2. PICK row \in memberships' :
            /\ h = <<row.mention, row.entity>> /\ row.opened <= at
            /\ row.closed = Open \/ row.closed > at
      BY <1>4 DEF HeldAt
    <3>3. row \notin memberships
      BY <2>2, <3>2 DEF HeldAt
    <3>4. row.opened = head
      BY <3>1, <3>3, OpeningRow DEF OpensRows
    <3> QED
      BY <3>1, <3>2, <3>4
  <2> QED
    BY <2>1, <2>2
<1>5. seen \subseteq HeldAt(at)'
  BY <1>3 DEF ScreenOK
<1> QED
  BY <1>4, <1>5 DEF ScreenOK

\* The desk's own steps leave the ledger, the ledger's leave the desk.
LEMMA DeskSteps ==
  ASSUME DeskInv, IInv, [DeskNext]_deskVars
  PROVE  \/ [Next]_vars /\ desk' = desk
         \/ UNCHANGED vars /\ \E x \in Analysts : ListCandidates(x) \/ ReadRevision(x)
<1>1. ASSUME NEW x \in Analysts, Decide(x) PROVE [Next]_vars /\ desk' = desk
  <2>1. desk[x].revision \in 0..MaxRevision
    BY LedgerAssumption DEF DeskInv, IInv, TypeOK, LedgerAssumption
  <2> QED
    BY <1>1, <2>1 DEF Decide, Next
<1> QED
  BY <1>1 DEF DeskNext, deskVars, Next, ListCandidates, ReadRevision

LEMMA DeskStart == DeskInit => DeskInv
<1> SUFFICES ASSUME DeskInit PROVE DeskInv
  OBVIOUS
<1>1. head = 0 /\ 0 \in 0..0
  BY DEF DeskInit, Init
<1> QED
  BY <1>1 DEF DeskInit, DeskAway, DeskInv

LEMMA DeskStep == DeskInv /\ IInv /\ IInv' /\ [DeskNext]_deskVars => DeskInv'
<1> SUFFICES ASSUME DeskInv, IInv, IInv', [DeskNext]_deskVars PROVE DeskInv'
  OBVIOUS
<1>1. head \in Nat /\ head' \in Nat
  BY LedgerAssumption DEF IInv, TypeOK, LedgerAssumption
<1>2. CASE [Next]_vars /\ desk' = desk
  <2>1. head' = head \/ head' = head + 1
    BY <1>1, <1>2, StepOnRows DEF MovesRows, OpensRows, KeepsRows
  <2>2. 0..head \subseteq 0..head'
    BY <1>1, <2>1
  <2>3. ASSUME NEW x \in Analysts, desk[x].stage # "away"
        PROVE  ScreenOK(desk[x].seen, desk[x].listedAt)'
    <3>1. PICK seen, at : seen = desk[x].seen /\ at = desk[x].listedAt
      OBVIOUS
    <3>2. at \in 0..head /\ ScreenOK(seen, at)
      BY <2>3, <3>1 DEF DeskInv
    <3>3. ScreenOK(seen, at)'
      BY <1>2, <3>2, ScreenStays
    <3> QED
      BY <1>2, <3>1, <3>3 DEF ScreenOK
  <2> QED
    BY <1>2, <2>2, <2>3 DEF DeskInv
<1>3. ASSUME UNCHANGED vars, NEW x \in Analysts, ListCandidates(x) \/ ReadRevision(x)
      PROVE  DeskInv'
  <2>1. head' = head /\ head \in 0..head /\ memberships' = memberships
    BY <1>1, <1>3 DEF vars
  <2>2. \A seen, at : ScreenOK(seen, at)' <=> ScreenOK(seen, at)
    BY <2>1 DEF ScreenOK, HeldAt
  <2>3. PICK new : /\ desk' = [desk EXCEPT ![x] = new]
                   /\ new = [stage |-> new.stage, seen |-> new.seen,
                             listedAt |-> new.listedAt, revision |-> new.revision]
                   /\ new.listedAt \in 0..head /\ new.revision \in 0..head
                   /\ new.stage # "away" => ScreenOK(new.seen, new.listedAt)
    <3>1. PICK old : /\ old = desk[x]
                     /\ old = [stage |-> old.stage, seen |-> old.seen,
                               listedAt |-> old.listedAt, revision |-> old.revision]
                     /\ old.listedAt \in 0..head /\ old.revision \in 0..head
                     /\ old.stage # "away" => ScreenOK(old.seen, old.listedAt)
      BY DEF DeskInv
    <3>2. CASE ListCandidates(x)
      <4>1. PICK q : q = [old EXCEPT !.stage = "listed", !.seen = HeldAt(head), !.listedAt = head]
        OBVIOUS
      <4>2. desk' = [desk EXCEPT ![x] = q]
        BY <3>1, <3>2, <4>1 DEF ListCandidates
      <4>3. q = [stage |-> "listed", seen |-> HeldAt(head), listedAt |-> head,
                 revision |-> old.revision]
        BY <3>1, <4>1
      <4>4. ScreenOK(HeldAt(head), head)
        BY DEF ScreenOK
      <4>5. /\ q.stage = "listed" /\ q.seen = HeldAt(head) /\ q.listedAt = head
            /\ q.revision = old.revision
        BY <4>3
      <4> WITNESS q
      <4> QED
        BY <2>1, <3>1, <4>2, <4>3, <4>4, <4>5
    <3>3. CASE ReadRevision(x)
      <4>1. PICK q : q = [old EXCEPT !.stage = "shown", !.revision = head]
        OBVIOUS
      <4>2. desk' = [desk EXCEPT ![x] = q]
        BY <3>1, <3>3, <4>1 DEF ReadRevision
      <4>3. q = [stage |-> "shown", seen |-> old.seen, listedAt |-> old.listedAt,
                 revision |-> head]
        BY <3>1, <4>1
      <4>4. ScreenOK(old.seen, old.listedAt)
        BY <3>1, <3>3 DEF ReadRevision
      <4>5. /\ q.stage = "shown" /\ q.seen = old.seen /\ q.listedAt = old.listedAt
            /\ q.revision = head
        BY <4>3
      <4> WITNESS q
      <4> QED
        BY <2>1, <3>1, <4>2, <4>3, <4>4, <4>5
    <3> QED
      BY <1>3, <3>2, <3>3
  <2>4. desk' = [y \in Analysts |-> IF y = x THEN new ELSE desk[y]]
    BY <2>3 DEF DeskInv
  <2>5. \A y \in Analysts : desk'[y] = IF y = x THEN new ELSE desk[y]
    BY <2>4
  <2>6. ASSUME NEW y \in Analysts
        PROVE  /\ (desk[y] = [stage |-> desk[y].stage, seen |-> desk[y].seen,
                              listedAt |-> desk[y].listedAt, revision |-> desk[y].revision])'
               /\ (desk[y].listedAt \in 0..head /\ desk[y].revision \in 0..head)'
               /\ (desk[y].stage # "away" => ScreenOK(desk[y].seen, desk[y].listedAt))'
    <3>1. PICK q : /\ q = desk'[y]
                   /\ q = [stage |-> q.stage, seen |-> q.seen,
                           listedAt |-> q.listedAt, revision |-> q.revision]
                   /\ q.listedAt \in 0..head /\ q.revision \in 0..head
                   /\ q.stage # "away" => ScreenOK(q.seen, q.listedAt)
      BY <2>3, <2>5 DEF DeskInv
    <3>2. q.stage # "away" => ScreenOK(q.seen, q.listedAt)'
      BY <2>2, <3>1
    <3> QED
      BY <2>1, <3>1, <3>2 DEF ScreenOK
  <2>7. (desk = [y \in Analysts |-> desk[y]])'
    BY <2>4, <2>5
  <2> QED
    BY <2>6, <2>7 DEF DeskInv
<1> QED
  BY <1>2, <1>3, DeskSteps

LEMMA DeskLedger == DeskSpec => [](IInv /\ DeskInv)
<1>1. DeskInit => IInv
  BY InitInv DEF DeskInit
<1>2. DeskInv /\ IInv /\ [DeskNext]_deskVars => IInv'
  BY DeskSteps, StepInv
<1> QED
  BY <1>1, <1>2, DeskStart, DeskStep, PTL DEF DeskSpec

\* The scoped check lets through no decision whose evidence a screen lacks, but for what
\* was attached late at the screen's own revision (check_scope_is_current,
\* listIdentityCandidates).
THEOREM OnlyLateUnseen == DeskSpec => OnlyLateMentionsGoUnseen
<1> DEFINE told ==
      \A d \in NewDecisions : \A x \in From(d) :
        desk[x].listedAt = desk[x].revision =>
          /\ {h \in desk[x].seen : h[2] \in Scope(d)'} \subseteq Evidence(d)'
          /\ \A h \in Evidence(d)' \ desk[x].seen :
               \E row \in memberships :
                 row.mention = h[1] /\ row.entity = h[2] /\ row.opened = desk[x].revision
<1>1. ASSUME IInv, DeskInv, [DeskNext]_deskVars PROVE told
  <2> SUFFICES ASSUME NEW d \in NewDecisions, NEW x \in From(d),
                      desk[x].listedAt = desk[x].revision
               PROVE  /\ {h \in desk[x].seen : h[2] \in Scope(d)'} \subseteq Evidence(d)'
                      /\ \A h \in Evidence(d)' \ desk[x].seen :
                           \E row \in memberships :
                             row.mention = h[1] /\ row.entity = h[2] /\ row.opened = desk[x].revision
    OBVIOUS
  <2>1. /\ d \in decisions' \ decisions /\ d.kind \in {"confirm", "split"}
        /\ x \in Analysts /\ desk[x].stage = "shown" /\ desk[x].revision = d.parent
    BY DEF NewDecisions, From
  <2>2. PICK y \in Analysts : Decide(y)
    BY ZenonT(60), <1>1, <2>1 DEF DeskNext, deskVars, vars, ListCandidates, ReadRevision, Record,
       RecordClaim, RetractClaim
  <2>3. desk[y].revision \in 0..MaxRevision /\ Adjudicate(desk[y].revision)
    BY <1>1, <2>2, LedgerAssumption DEF Decide, DeskInv, IInv, TypeOK, LedgerAssumption
  <2>4. /\ d.revision = head + 1 /\ d.parent \in 0..head
        /\ OnEvidence(head, d.parent, d.inputs) /\ MovesRows
    BY <1>1, <2>1, <2>3, NewEvidence
  <2>5. Rows /\ head \in Nat
    BY <1>1, LedgerAssumption DEF IInv, Rows, LedgerAssumption
  <2>6. PICK at : /\ at = d.parent /\ at \in 0..head
                  /\ ScreenOK(desk[x].seen, at) /\ OnEvidence(head, at, d.inputs)
    BY <1>1, <2>1, <2>4 DEF DeskInv
  <2>7. PICK now : now = head /\ now \in Nat
    BY <2>5
  <2>8. HeldAt(now)' = HeldAt(now)
    BY <2>4, <2>5, <2>7, HeldFrozen DEF MovesRows, OpensRows
  <2>9. d.revision - 1 = now
    BY <2>4, <2>7
  <2>10. /\ Scope(d)' = {e \in Entities : \E z \in d.inputs : <<z, e>> \in HeldAt(now)}
         /\ Evidence(d)' = {h \in HeldAt(now) : h[2] \in Scope(d)'}
    BY <2>8, <2>9 DEF Scope, Evidence
  <2>11. \A h \in Mentions \X Entities : h[2] \in Scope(d)' =>
           (h \in HeldAt(now) <=> h \in HeldAt(at))
    BY <2>6, <2>7, <2>10 DEF OnEvidence
  <2>12. HeldAt(now) \subseteq Mentions \X Entities /\ HeldAt(at) \subseteq Mentions \X Entities
    BY <2>5 DEF HeldAt, Rows, Membership
  <2>13. {h \in desk[x].seen : h[2] \in Scope(d)'} \subseteq Evidence(d)'
    BY <2>6, <2>10, <2>11, <2>12 DEF ScreenOK
  <2>14. ASSUME NEW h \in Evidence(d)', h \notin desk[x].seen
         PROVE  \E row \in memberships :
                  row.mention = h[1] /\ row.entity = h[2] /\ row.opened = at
    BY <2>6, <2>10, <2>11, <2>12, <2>14 DEF ScreenOK
  <2> QED
    BY <2>1, <2>6, <2>13, <2>14
<1> QED
  BY <1>1, DeskLedger, PTL DEF DeskSpec, OnlyLateMentionsGoUnseen
-----------------------------------------------------------------------------
\* The claims a pre-verified pair rests on agree.
Agree(basis) ==
  \A k, l \in basis :
    /\ Identifier[k] = Identifier[l]
    /\ Cardinality({Issuer[k], Issuer[l]} \ {None}) <= 1
    /\ \E day \in 1..LastDay : \A x \in {k, l} :
         (ValidFrom[x] = 0 \/ ValidFrom[x] <= day) /\ (ValidTo[x] = 0 \/ day <= ValidTo[x])

\* Two claims without a conflict hold on one day and name at most one registry.
LEMMA NoConflict ==
  ASSUME NEW k \in Claims, NEW l \in Claims, ~Conflict(k, l) \/ k = l
  PROVE  /\ Cardinality({Issuer[k], Issuer[l]} \ {None}) <= 1
         /\ \E day \in 1..LastDay : \A x \in {k, l} :
              (ValidFrom[x] = 0 \/ ValidFrom[x] <= day) /\ (ValidTo[x] = 0 \/ day <= ValidTo[x])
<1>1. /\ LastDay \in Nat \ {0}
      /\ \A c \in {k, l} : /\ ValidFrom[c] \in 0..LastDay /\ ValidTo[c] \in 0..LastDay
                           /\ ValidFrom[c] # 0 /\ ValidTo[c] # 0 => ValidFrom[c] <= ValidTo[c]
  BY ProducerAssumption DEF ProducerAssumption
<1>2. Cardinality({Issuer[k], Issuer[l]} \ {None}) <= 1
  <2>1. Issuer[k] = None \/ Issuer[l] = None \/ Issuer[k] = Issuer[l]
    BY DEF Conflict, ConflictOfIssuers
  <2>2. {Issuer[k], Issuer[l]} \ {None} \in {{}, {Issuer[k]}, {Issuer[l]}}
    BY <2>1
  <2>3. Cardinality({}) = 0 /\ Cardinality({Issuer[k]}) = 1 /\ Cardinality({Issuer[l]}) = 1
    BY FS_EmptySet, FS_Singleton
  <2>4. Cardinality({Issuer[k], Issuer[l]} \ {None}) \in {0, 1}
    BY <2>2, <2>3
  <2> QED
    BY <2>4
<1>3. \E day \in 1..LastDay : \A x \in {k, l} :
        (ValidFrom[x] = 0 \/ ValidFrom[x] <= day) /\ (ValidTo[x] = 0 \/ day <= ValidTo[x])
  <2>1. /\ ~(ValidTo[k] # 0 /\ ValidFrom[l] # 0 /\ ValidTo[k] < ValidFrom[l])
        /\ ~(ValidTo[l] # 0 /\ ValidFrom[k] # 0 /\ ValidTo[l] < ValidFrom[k])
    BY <1>1 DEF Conflict, WindowsOverlap
  <2> DEFINE later == IF ValidFrom[k] <= ValidFrom[l] THEN ValidFrom[l] ELSE ValidFrom[k]
             day == IF later = 0 THEN 1 ELSE later
  <2>2. day \in 1..LastDay
    BY <1>1
  <2>3. \A x \in {k, l} :
          (ValidFrom[x] = 0 \/ ValidFrom[x] <= day) /\ (ValidTo[x] = 0 \/ day <= ValidTo[x])
    BY <1>1, <2>1
  <2> QED
    BY <2>2, <2>3
<1> QED
  BY <1>2, <1>3

\* Every pair of claims that one identifier speaks for agrees, whatever observation of a
\* mention was read last.
LEMMA IdentifiersAgree ==
  ASSUME TypeOK, NEW owner, NEW seen \in Observations(IdentifierClaims, owner),
         NEW row \in IdentifierPairs(seen)
  PROVE  Agree(row.basis)
<1>1. PICK vx \in DOMAIN seen : seen[vx] # None /\
        \E wy \in {w \in DOMAIN seen : /\ w[1] = vx[1] /\ w[2] # vx[2] /\ seen[w] # None
                                       /\ ~Conflict(seen[vx], seen[w])} :
          row = [pair |-> {vx[2], wy[2]}, basis |-> {seen[vx], seen[wy]}]
  BY DEF IdentifierPairs
<1>2. PICK wy \in DOMAIN seen : /\ wy[1] = vx[1] /\ seen[wy] # None /\ ~Conflict(seen[vx], seen[wy])
                                /\ row = [pair |-> {vx[2], wy[2]}, basis |-> {seen[vx], seen[wy]}]
  BY <1>1
<1>3. ASSUME NEW u \in DOMAIN seen, seen[u] # None
      PROVE  seen[u] \in Claims /\ Identifier[seen[u]] = u[1]
  <2>1. PICK v \in Values(IdentifierClaims), x \in Mentions : u = <<v, x>>
    BY DEF Observations
  <2>2. seen[<<v, x>>] \in Observed(IdentifierClaims, owner, v, x)
    BY <1>3, <2>1 DEF Observations
  <2>3. PICK k \in IdentifierClaims : k.id = seen[u] /\ Identifier[k.id] = v
    BY <2>1, <2>2 DEF Observed
  <2>4. k.id \in Claims
    BY <2>3 DEF IdentifierClaims, TypeOK, ClaimRow
  <2> QED
    BY <2>1, <2>3, <2>4
<1>4. PICK k, l : k = seen[vx] /\ l = seen[wy]
  OBVIOUS
<1>5. /\ k \in Claims /\ l \in Claims /\ Identifier[k] = Identifier[l] /\ ~Conflict(k, l)
      /\ row.basis = {k, l}
  BY <1>1, <1>2, <1>3, <1>4
<1>6. Conflict(l, k) <=> Conflict(k, l)
  <2>1. \A c \in {k, l} : ValidFrom[c] \in Nat /\ ValidTo[c] \in Nat
    BY <1>5, ProducerAssumption DEF ProducerAssumption
  <2> QED
    BY <2>1 DEF Conflict, ConflictOfIssuers, WindowsOverlap
<1>7. ASSUME NEW c \in {k, l}, NEW e \in {k, l}
      PROVE  /\ Identifier[c] = Identifier[e]
             /\ Cardinality({Issuer[c], Issuer[e]} \ {None}) <= 1
             /\ \E day \in 1..LastDay : \A x \in {c, e} :
                  (ValidFrom[x] = 0 \/ ValidFrom[x] <= day) /\ (ValidTo[x] = 0 \/ day <= ValidTo[x])
  BY <1>5, <1>6, NoConflict
<1> QED
  BY <1>5, <1>7 DEF Agree
-----------------------------------------------------------------------------
\* Of every constraint for the pair, and of every candidate of it, that it came later.
Clear(pair, asOf) == \A n \in constraints : n.pair = pair => asOf < n.decision
Unseen(pair, after) == \A c \in er_candidate : c.pair = pair => after < c.commit

\* A candidate, but for its disposition; what a run proposes; and a run at work.
CandidateOK(row) ==
  /\ row = [pair |-> row.pair, basis |-> row.basis, disposition |-> row.disposition,
            commit |-> row.commit, after |-> row.after, asOf |-> row.asOf]
  /\ row.pair \subseteq Mentions /\ Agree(row.basis)
  /\ row.commit \in Nat /\ row.commit <= committed
  /\ row.after \in Nat /\ row.after < row.commit
  /\ row.asOf \in 0..head /\ Clear(row.pair, row.asOf)

OncePerPair ==
  \A row, other \in er_candidate :
    row.pair = other.pair /\ row.commit <= other.commit =>
      row = other \/ (row.commit < other.commit /\ other.after < row.commit)

ProposalsOK(rows, after, asOf) ==
  /\ \A row \in rows : /\ row.pair \subseteq Mentions /\ Agree(row.basis)
                       /\ Unseen(row.pair, after) /\ Clear(row.pair, asOf)
  /\ \A row, other \in rows : row.pair = other.pair => row = other

RunOK(q) ==
  /\ q.after \in 0..committed /\ q.asOf \in 0..head
  /\ q.stage \in {"idle", "constraints", "candidates", "evidence", "insert"}
  /\ q.rules \in BOOLEAN
  /\ q.stage = "evidence" \/ (q.stage = "constraints" /\ q.rules = FALSE) =>
       \A pair : pair \notin q.existing => Unseen(pair, q.after)
  /\ q.stage = "evidence" \/ (q.stage = "candidates" /\ q.rules = TRUE) =>
       \A pair : pair \notin q.constrained => Clear(pair, q.asOf)
  /\ q.stage = "insert" => ProposalsOK(q.rows, q.after, q.asOf)

ProducerInv ==
  /\ committed \in Nat
  /\ \A row \in er_candidate : CandidateOK(row)
  /\ OncePerPair
  /\ producer = [r \in Runs |-> producer[r]]
  /\ \A r \in Runs : RunOK(producer[r]) /\ DOMAIN producer[r] = DOMAIN NoRun
                     /\ producer[r] = [f \in DOMAIN NoRun |-> producer[r][f]]

\* A constraint is an old one, for all that matters here, or of a decision just taken.
LEMMA ClearStays ==
  ASSUME IInv, ConstraintsOK, [Next]_vars, NEW pair, NEW asOf \in 0..head, Clear(pair, asOf)
  PROVE  Clear(pair, asOf)'
<1>1. head \in Nat
  BY LedgerAssumption DEF IInv, TypeOK, LedgerAssumption
<1>2. CASE constraints' = constraints
  BY <1>2 DEF Clear
<1>3. ASSUME NEW parent, NEW a, NEW b, NEW c, RejectMatch(parent, a, b, c)
      PROVE  Clear(pair, asOf)'
  <2>1. PICK new : Supersession(new, {a, b})
    BY <1>1, <1>3, Supersedes
  <2>2. asOf < new.decision
    BY <1>1, <2>1 DEF Supersession
  <2>3. ASSUME NEW n \in constraints
        PROVE  /\ [n EXCEPT !.supersededBy = head + 1].pair = n.pair
               /\ [n EXCEPT !.supersededBy = head + 1].decision = n.decision
    <3>1. n = [pair |-> n.pair, version |-> n.version, decision |-> n.decision,
               supersededBy |-> n.supersededBy]
      BY DEF ConstraintsOK
    <3> QED
      BY <3>1
  <2>4. \A y \in constraints' : y = new \/ \E n \in constraints :
                                              n.pair = y.pair /\ n.decision = y.decision
    BY <2>1, <2>3 DEF Supersession
  <2> QED
    BY <2>2, <2>4 DEF Clear
<1> QED
  BY <1>2, <1>3, Constrains

\* The candidates of a step that writes no new ones are the old ones, differently settled.
Resettled ==
  \A x, y \in er_candidate' : \E u, v \in er_candidate :
    /\ CandidateOK(u) => /\ x.pair = u.pair /\ x.basis = u.basis /\ x.commit = u.commit
                         /\ x.after = u.after /\ x.asOf = u.asOf
                         /\ x = [pair |-> x.pair, basis |-> x.basis, disposition |-> x.disposition,
                                 commit |-> x.commit, after |-> x.after, asOf |-> x.asOf]
    /\ CandidateOK(v) => y.pair = v.pair /\ y.commit = v.commit /\ y.after = v.after
    /\ u = v => x = y

LEMMA LedgerStepKeeps ==
  ASSUME ProducerInv, IInv, IInv', ConstraintsOK, [Next]_vars, Resettled,
         producer' = producer, committed' = committed
  PROVE  ProducerInv'
<1>1. head \in Nat /\ (head' = head \/ head' = head + 1)
  <2>1. Rows /\ head \in Nat
    BY LedgerAssumption DEF IInv, Rows, LedgerAssumption
  <2> QED
    BY <2>1, StepOnRows DEF MovesRows, OpensRows, KeepsRows
<1>2. 0..head \subseteq 0..head'
  BY <1>1
<1>3. ASSUME NEW x \in er_candidate' PROVE CandidateOK(x)'
  <2>1. PICK u \in er_candidate :
          CandidateOK(u) => /\ x.pair = u.pair /\ x.basis = u.basis /\ x.commit = u.commit
                            /\ x.after = u.after /\ x.asOf = u.asOf
                            /\ x = [pair |-> x.pair, basis |-> x.basis,
                                    disposition |-> x.disposition, commit |-> x.commit,
                                    after |-> x.after, asOf |-> x.asOf]
    BY DEF Resettled
  <2>2. CandidateOK(u)
    BY DEF ProducerInv
  <2>3. PICK pair, asOf : pair = u.pair /\ asOf = u.asOf
    OBVIOUS
  <2>4. Clear(pair, asOf)'
    BY <2>2, <2>3, ClearStays DEF CandidateOK
  <2>5. x.pair = pair /\ x.asOf = asOf /\ asOf \in 0..head'
    BY <1>2, <2>1, <2>2, <2>3 DEF CandidateOK
  <2>6. Clear(x.pair, x.asOf)'
    BY <2>4, <2>5 DEF Clear
  <2> QED
    BY <2>1, <2>2, <2>5, <2>6 DEF CandidateOK, Agree
<1>4. OncePerPair'
  <2> SUFFICES ASSUME NEW x \in er_candidate', NEW y \in er_candidate',
                      x.pair = y.pair, x.commit <= y.commit
               PROVE  x = y \/ (x.commit < y.commit /\ y.after < x.commit)
    BY DEF OncePerPair
  <2> QED
    BY DEF Resettled, ProducerInv, OncePerPair
<1>5. ASSUME NEW pair, NEW after, Unseen(pair, after) PROVE Unseen(pair, after)'
  BY <1>5 DEF Resettled, ProducerInv, Unseen
<1>6. ASSUME NEW r \in Runs PROVE RunOK(producer[r])'
  <2>1. PICK q : q = producer[r] /\ q = producer'[r] /\ RunOK(q)
    BY DEF ProducerInv
  <2>2. \A pair : Clear(pair, q.asOf) => Clear(pair, q.asOf)'
    BY <2>1, ClearStays DEF RunOK
  <2>3. \A pair : Unseen(pair, q.after) => Unseen(pair, q.after)'
    BY <1>5
  <2>4. q.stage = "insert" => ProposalsOK(q.rows, q.after, q.asOf)'
    BY <2>1, <2>2, <2>3 DEF RunOK, ProposalsOK, Agree
  <2>5. q.asOf \in 0..head'
    BY <1>2, <2>1 DEF RunOK
  <2>6. RunOK(q)'
    BY <2>1, <2>2, <2>3, <2>4, <2>5 DEF RunOK
  <2> QED
    BY <2>1, <2>6 DEF RunOK
<1> QED
  BY <1>3, <1>4, <1>6 DEF ProducerInv

\* A decision about a candidate settles it and leaves what it rests on.
LEMMA DecidedIsResettled ==
  ASSUME ProducerInv, NEW row \in er_candidate, NEW parent \in 0..MaxRevision,
         DecideCandidate(row, parent)
  PROVE  Resettled /\ [Next]_vars /\ producer' = producer /\ committed' = committed
<1>1. CandidateOK(row)
  BY DEF ProducerInv
<1>2. PICK disposition :
        er_candidate' = (er_candidate \ {row}) \cup {[row EXCEPT !.disposition = disposition]}
  BY DEF DecideCandidate
<1>3. PICK new : new = [row EXCEPT !.disposition = disposition]
  OBVIOUS
<1>4. /\ new.pair = row.pair /\ new.basis = row.basis /\ new.commit = row.commit
      /\ new.after = row.after /\ new.asOf = row.asOf
      /\ new = [pair |-> new.pair, basis |-> new.basis, disposition |-> new.disposition,
                commit |-> new.commit, after |-> new.after, asOf |-> new.asOf]
  BY <1>1, <1>3 DEF CandidateOK
<1>5. er_candidate' = (er_candidate \ {row}) \cup {new}
  BY <1>2, <1>3
<1>6. ASSUME NEW x \in er_candidate', NEW y \in er_candidate'
      PROVE  \E u, v \in er_candidate :
        /\ CandidateOK(u) => /\ x.pair = u.pair /\ x.basis = u.basis /\ x.commit = u.commit
                             /\ x.after = u.after /\ x.asOf = u.asOf
                             /\ x = [pair |-> x.pair, basis |-> x.basis,
                                     disposition |-> x.disposition, commit |-> x.commit,
                                     after |-> x.after, asOf |-> x.asOf]
        /\ CandidateOK(v) => y.pair = v.pair /\ y.commit = v.commit /\ y.after = v.after
        /\ u = v => x = y
  <2>1. PICK u \in er_candidate : (x = new /\ u = row) \/ (x # new /\ u = x /\ x # row)
    BY <1>5
  <2>2. PICK v \in er_candidate : (y = new /\ v = row) \/ (y # new /\ v = y /\ y # row)
    BY <1>5
  <2>3. CandidateOK(u) => /\ x.pair = u.pair /\ x.basis = u.basis /\ x.commit = u.commit
                          /\ x.after = u.after /\ x.asOf = u.asOf
                          /\ x = [pair |-> x.pair, basis |-> x.basis,
                                  disposition |-> x.disposition, commit |-> x.commit,
                                  after |-> x.after, asOf |-> x.asOf]
    BY <1>4, <2>1 DEF CandidateOK
  <2>4. CandidateOK(v) => y.pair = v.pair /\ y.commit = v.commit /\ y.after = v.after
    BY <1>4, <2>2 DEF CandidateOK
  <2>5. u = v => x = y
    BY <2>1, <2>2
  <2> QED
    BY <2>3, <2>4, <2>5
<1>7. [Next]_vars
  <2>1. PICK x, y \in Mentions :
          \/ "confirm_match" \in Modes /\ ConfirmMatch(parent, x, y, None)
          \/ "reject_match" \in Modes /\ RejectMatch(parent, x, y, None)
          \/ "mark_unresolved" \in Modes /\ MarkUnresolved(parent, x, y, None)
    BY <1>1 DEF DecideCandidate, CandidateOK
  <2> QED
    BY <2>1 DEF Next, Adjudicate
<1> QED
  BY <1>6, <1>7 DEF Resettled, DecideCandidate

\* One run goes on, and nothing else changes.
LEMMA RunGoesOn ==
  ASSUME ProducerInv, UNCHANGED <<vars, er_candidate, committed>>, NEW r \in Runs, NEW q,
         RunOK(q), DOMAIN q = DOMAIN NoRun, q = [f \in DOMAIN NoRun |-> q[f]],
         producer' = [producer EXCEPT ![r] = q]
  PROVE  ProducerInv'
<1>1. /\ head' = head /\ constraints' = constraints /\ er_candidate' = er_candidate
      /\ committed' = committed
  BY DEF vars
<1>2. /\ \A pair, asOf : Clear(pair, asOf)' <=> Clear(pair, asOf)
      /\ \A pair, after : Unseen(pair, after)' <=> Unseen(pair, after)
  BY <1>1 DEF Clear, Unseen
<1>3. /\ \A row \in er_candidate' : CandidateOK(row)'
      /\ OncePerPair'
  BY ZenonT(60), <1>1, <1>2 DEF ProducerInv, CandidateOK, OncePerPair, Agree
<1>4. \A x : RunOK(x) => RunOK(x)'
  BY <1>1, <1>2 DEF RunOK, ProposalsOK, Agree
<1>5. producer' = [x \in Runs |-> producer'[x]]
  BY DEF ProducerInv
<1>6. ASSUME NEW s \in Runs
      PROVE  /\ RunOK(producer[s])' /\ DOMAIN producer'[s] = DOMAIN NoRun
             /\ producer'[s] = [f \in DOMAIN NoRun |-> producer'[s][f]]
  <2>1. PICK p : /\ p = producer'[s] /\ RunOK(p) /\ DOMAIN p = DOMAIN NoRun
                 /\ p = [f \in DOMAIN NoRun |-> p[f]]
    <3>1. CASE s = r
      BY <3>1 DEF ProducerInv
    <3>2. CASE s # r
      BY <3>2 DEF ProducerInv
    <3> QED
      BY <3>1, <3>2
  <2>2. RunOK(p)'
    BY <1>4, <2>1
  <2> QED
    BY <2>1, <2>2 DEF RunOK
<1> QED
  BY <1>1, <1>3, <1>5, <1>6 DEF ProducerInv, NoRun

LEMMA IdleIsOK ==
  ASSUME committed \in Nat, head \in Nat
  PROVE  RunOK(NoRun) /\ NoRun = [f \in DOMAIN NoRun |-> NoRun[f]]
<1>1. NoRun = [f \in DOMAIN NoRun |-> NoRun[f]]
  BY DEF NoRun
<1>2. PICK q : q = NoRun
  OBVIOUS
<1>3. /\ q.stage = "idle" /\ q.rules = FALSE /\ q.after = 0 /\ q.asOf = 0
      /\ q.existing = {} /\ q.constrained = {} /\ q.rows = {}
  BY <1>2 DEF NoRun
<1>4. q.after \in 0..committed /\ q.asOf \in 0..head
  BY <1>3
<1>5. /\ q.stage \in {"idle", "constraints", "candidates", "evidence", "insert"}
      /\ q.stage # "insert" /\ q.stage # "evidence" /\ q.stage # "constraints"
      /\ q.stage # "candidates"
  BY <1>3
<1>6. RunOK(q)
  BY <1>3, <1>4, <1>5 DEF RunOK
<1> QED
  BY <1>1, <1>2, <1>6

\* What a run inserts is of pairs that were neither there nor constrained when it looked.
LEMMA InsertedAre ==
  ASSUME TypeOK, NEW q, NEW p \in Proposals(q), NEW rows \in Inserted(q, p.identified, p.other)
  PROVE  /\ \A row \in rows : /\ row.pair \subseteq Mentions /\ Agree(row.basis)
                              /\ row.pair \notin q.existing /\ row.pair \notin q.constrained
         /\ \A row, other \in rows : row.pair = other.pair => row = other
<1>1. \A row \in p.identified : row.pair \subseteq Mentions /\ Agree(row.basis)
  <2>1. ASSUME NEW seen \in Observations(IdentifierClaims, q.owner), NEW row \in IdentifierPairs(seen)
        PROVE  row.pair \subseteq Mentions /\ Agree(row.basis)
    <3>1. row.pair \subseteq Mentions
      BY DEF IdentifierPairs, Observations
    <3> QED
      BY <3>1, IdentifiersAgree
  <2>2. p.identified = {} \/ \E seen \in Observations(IdentifierClaims, q.owner) :
                                p.identified = IdentifierPairs(seen)
    BY DEF Proposals
  <2> QED
    BY <2>1, <2>2
<1>2. PICK pairs \in SUBSET Pairs : p.other = OnName(pairs)
  <2>1. CASE q.rules
    <3>1. PICK documents : p.other = OnName(SameKeyPairs(documents))
      BY <2>1 DEF Proposals
    <3>2. SameKeyPairs(documents) \subseteq Pairs
      BY DEF SameKeyPairs
    <3> QED
      BY <3>1, <3>2
  <2>2. CASE ~q.rules
    BY <2>2 DEF Proposals
  <2> QED
    BY <2>1, <2>2
<1>3. \A row \in p.other : /\ row.pair \subseteq Mentions /\ row.basis = {}
                           /\ row = [pair |-> row.pair, basis |-> {}]
  BY <1>2 DEF OnName, Pairs
<1> DEFINE emitted == {row \in p.identified : Emit(q, row)}
           proposed == {row.pair : row \in emitted}
<1>4. PICK chosen \in [proposed -> emitted] :
        /\ \A pair \in proposed : chosen[pair].pair = pair
        /\ rows = {chosen[pair] : pair \in proposed}
                    \cup {row \in p.other : Emit(q, row) /\ row.pair \notin proposed}
  BY DEF Inserted
<1>5. ASSUME NEW row \in rows
      PROVE  \/ row.pair \in proposed /\ row = chosen[row.pair] /\ row \in p.identified /\ Emit(q, row)
             \/ row.pair \notin proposed /\ row \in p.other /\ Emit(q, row)
  BY <1>4
<1> HIDE DEF proposed
<1>6. Agree({})
  BY DEF Agree
<1>7. ASSUME NEW row \in rows
      PROVE  /\ row.pair \subseteq Mentions /\ Agree(row.basis)
             /\ row.pair \notin q.existing /\ row.pair \notin q.constrained
  BY <1>1, <1>3, <1>5, <1>6 DEF Emit
<1>8. \A row, other \in rows : row.pair = other.pair => row = other
  BY <1>3, <1>5
<1> QED
  BY <1>7, <1>8

\* The rows of a run become candidates together, after all there are.
LEMMA CommitKeeps ==
  ASSUME ProducerInv, IInv, NEW r \in Runs, CommitRun(r)
  PROVE  ProducerInv'
<1>1. head \in Nat /\ committed \in Nat
  BY LedgerAssumption DEF IInv, TypeOK, LedgerAssumption, ProducerInv
<1>2. PICK q, now : /\ q = producer[r] /\ RunOK(q) /\ q.stage = "insert"
                    /\ now = committed + 1 /\ now \in Nat
  BY <1>1 DEF ProducerInv, CommitRun
<1> DEFINE Candidate(row) ==
             [pair |-> row.pair, basis |-> row.basis, disposition |-> "open", commit |-> now,
              after |-> q.after, asOf |-> q.asOf]
<1>3. /\ er_candidate' = er_candidate \cup {Candidate(row) : row \in q.rows}
      /\ committed' = now /\ producer' = [producer EXCEPT ![r] = NoRun]
      /\ head' = head /\ constraints' = constraints
  BY <1>2 DEF CommitRun, vars
<1>4. /\ ProposalsOK(q.rows, q.after, q.asOf)
      /\ q.after \in Nat /\ q.after <= committed /\ q.asOf \in 0..head
  BY <1>1, <1>2 DEF RunOK
<1>5. \A pair, asOf : Clear(pair, asOf)' <=> Clear(pair, asOf)
  BY <1>3 DEF Clear
<1>6. ASSUME NEW x \in er_candidate' PROVE CandidateOK(x)'
  <2>1. CASE x \in er_candidate
    <3>1. CandidateOK(x)
      BY <2>1 DEF ProducerInv
    <3>2. Clear(x.pair, x.asOf) /\ Agree(x.basis)
      BY <3>1 DEF CandidateOK
    <3>3. Clear(x.pair, x.asOf)'
      BY <1>5, <3>2
    <3>4. Agree(x.basis)'
      BY <3>2 DEF Agree
    <3>5. x.commit \in Nat /\ x.commit <= committed
      BY <3>1 DEF CandidateOK
    <3>6. x.commit <= now
      BY <1>1, <1>2, <3>5
    <3> QED
      BY <1>3, <3>1, <3>3, <3>4, <3>6 DEF CandidateOK
  <2>2. ASSUME NEW row \in q.rows, x = Candidate(row) PROVE CandidateOK(x)'
    <3>1. /\ x.pair = row.pair /\ x.basis = row.basis /\ x.commit = now /\ x.after = q.after
          /\ x.asOf = q.asOf
          /\ x = [pair |-> x.pair, basis |-> x.basis, disposition |-> x.disposition,
                  commit |-> x.commit, after |-> x.after, asOf |-> x.asOf]
      BY <2>2
    <3>2. row.pair \subseteq Mentions /\ Agree(row.basis) /\ Clear(row.pair, q.asOf)
      BY <1>4 DEF ProposalsOK
    <3>3. Clear(row.pair, q.asOf)'
      BY <1>5, <3>2
    <3>4. Agree(x.basis)' /\ x.pair \subseteq Mentions
      BY <3>1, <3>2 DEF Agree
    <3>5. Clear(x.pair, x.asOf)'
      BY <3>1, <3>3 DEF Clear
    <3>6. x.commit \in Nat /\ x.commit <= now /\ x.after \in Nat /\ x.after < x.commit
      BY <1>1, <1>2, <1>4, <3>1
    <3>7. x.asOf \in 0..head
      BY <1>4, <3>1
    <3> QED
      BY <1>3, <3>1, <3>4, <3>5, <3>6, <3>7 DEF CandidateOK
  <2> QED
    BY <1>3, <2>1, <2>2
<1>7. OncePerPair'
  <2> SUFFICES ASSUME NEW x \in er_candidate', NEW y \in er_candidate',
                      x.pair = y.pair, x.commit <= y.commit
               PROVE  x = y \/ (x.commit < y.commit /\ y.after < x.commit)
    BY DEF OncePerPair
  <2>1. CASE x \in er_candidate /\ y \in er_candidate
    BY <2>1 DEF ProducerInv, OncePerPair
  <2>2. CASE x \in er_candidate /\ \E row \in q.rows : y = Candidate(row)
    <3>1. PICK row \in q.rows : y = Candidate(row)
      BY <2>2
    <3>2. y.pair = row.pair /\ y.commit = now /\ y.after = q.after
      BY <3>1
    <3>3. x.commit \in Nat /\ x.commit <= committed
      BY <2>2 DEF ProducerInv, CandidateOK
    <3>4. q.after < x.commit
      BY <1>4, <2>2, <3>2 DEF ProposalsOK, Unseen
    <3> QED
      BY <1>1, <1>2, <3>2, <3>3, <3>4
  <2>3. CASE y \in er_candidate /\ \E row \in q.rows : x = Candidate(row)
    <3>1. x.commit = now
      BY <2>3
    <3>2. y.commit \in Nat /\ y.commit <= committed
      BY <2>3 DEF ProducerInv, CandidateOK
    <3> QED
      BY <1>1, <1>2, <3>1, <3>2
  <2>4. ASSUME NEW u \in q.rows, x = Candidate(u), NEW v \in q.rows, y = Candidate(v)
        PROVE  x = y
    <3>1. u.pair = v.pair
      BY <2>4
    <3> QED
      BY <1>4, <2>4, <3>1 DEF ProposalsOK
  <2> QED
    BY <1>3, <2>1, <2>2, <2>3, <2>4
<1>8. ASSUME NEW pair, NEW after \in 0..committed, Unseen(pair, after) PROVE Unseen(pair, after)'
  <2>1. ASSUME NEW row \in q.rows PROVE after < Candidate(row).commit
    BY <1>1, <1>2
  <2> QED
    BY <1>3, <1>8, <2>1 DEF Unseen
<1>9. ASSUME NEW p, RunOK(p) PROVE RunOK(p)'
  <2>1. p.after \in 0..committed /\ p.after \in 0..now
    BY <1>1, <1>2, <1>9 DEF RunOK
  <2>2. p.stage = "insert" => ProposalsOK(p.rows, p.after, p.asOf)'
    BY <1>5, <1>8, <1>9, <2>1 DEF RunOK, ProposalsOK, Agree
  <2> QED
    BY <1>3, <1>5, <1>8, <1>9, <2>1, <2>2 DEF RunOK
<1>10. ASSUME NEW s \in Runs
       PROVE  /\ RunOK(producer[s])' /\ DOMAIN producer'[s] = DOMAIN NoRun
              /\ producer'[s] = [f \in DOMAIN NoRun |-> producer'[s][f]]
  <2>1. PICK p : /\ p = producer'[s] /\ RunOK(p) /\ DOMAIN p = DOMAIN NoRun
                 /\ p = [f \in DOMAIN NoRun |-> p[f]]
    <3>1. CASE s = r
      BY <1>1, <1>3, <3>1, IdleIsOK DEF ProducerInv
    <3>2. CASE s # r
      BY <1>3, <3>2 DEF ProducerInv
    <3> QED
      BY <3>1, <3>2
  <2>2. RunOK(p)'
    BY <1>9, <2>1
  <2> QED
    BY <2>1, <2>2 DEF RunOK
<1>11. producer' = [x \in Runs |-> producer'[x]]
  BY <1>3 DEF ProducerInv
<1> QED
  BY <1>2, <1>3, <1>6, <1>7, <1>10, <1>11 DEF ProducerInv, NoRun

LEMMA RunKeeps ==
  ASSUME ProducerInv, IInv, ConstraintsOK, NEW r \in Runs, Run(r)
  PROVE  ProducerInv'
<1>1. head \in Nat /\ head \in 0..head /\ committed \in Nat /\ committed \in 0..committed
  BY LedgerAssumption DEF IInv, TypeOK, LedgerAssumption, ProducerInv
<1>2. PICK q : /\ q = producer[r] /\ RunOK(q) /\ DOMAIN q = DOMAIN NoRun
               /\ q = [f \in DOMAIN NoRun |-> q[f]]
  BY DEF ProducerInv
<1>3. DOMAIN NoRun = {"stage", "rules", "owner", "constrained", "existing", "after", "asOf", "rows"}
  BY Zenon DEF NoRun
<1>4. CASE StartRun(r)
  <2>1. PICK rules, new :
          /\ new = [NoRun EXCEPT !.stage = IF rules THEN "constraints" ELSE "candidates",
                                 !.rules = rules, !.owner = Owner]
          /\ rules \in BOOLEAN /\ producer' = [producer EXCEPT ![r] = new]
    BY <1>4 DEF StartRun
  <2>2. /\ DOMAIN new = DOMAIN NoRun /\ new = [f \in DOMAIN NoRun |-> new[f]]
        /\ new.stage = IF rules THEN "constraints" ELSE "candidates"
        /\ new.rules = rules /\ new.after = 0 /\ new.asOf = 0
    BY <2>1 DEF NoRun
  <2>3. RunOK(new)
    BY <1>1, <2>1, <2>2 DEF RunOK
  <2>4. UNCHANGED <<vars, er_candidate, committed>>
    BY <1>4 DEF StartRun
  <2> QED
    BY ZenonT(60), <2>1, <2>2, <2>3, <2>4, RunGoesOn
<1>5. CASE ReadConstrained(r)
  <2>1. PICK stage, seen, new :
          /\ stage = IF q.rules THEN "candidates" ELSE "evidence"
          /\ seen = {n.pair : n \in {x \in constraints : x.supersededBy = None}}
          /\ new = [q EXCEPT !.stage = stage, !.constrained = seen, !.asOf = head]
    OBVIOUS
  <2>2. producer' = [producer EXCEPT ![r] = new]
    BY <1>2, <1>5, <2>1 DEF ReadConstrained
  <2>3. /\ DOMAIN new = DOMAIN NoRun /\ new = [f \in DOMAIN NoRun |-> new[f]]
        /\ new.stage = stage /\ new.constrained = seen /\ new.asOf = head
        /\ new.rules = q.rules /\ new.existing = q.existing /\ new.after = q.after
    BY <1>2, <1>3, <2>1
  <2>4. \A pair : pair \notin seen => Clear(pair, head)
    BY <2>1 DEF Clear, ConstraintsOK
  <2>5. q.stage = "constraints"
    BY <1>2, <1>5 DEF ReadConstrained
  <2>6. new.after \in 0..committed /\ new.asOf \in 0..head /\ new.rules \in BOOLEAN
    BY <1>1, <1>2, <2>3 DEF RunOK
  <2>7. RunOK(new)
    <3>1. CASE q.rules = TRUE
      BY <2>1, <2>3, <2>4, <2>6, <3>1 DEF RunOK
    <3>2. CASE q.rules = FALSE
      BY <1>2, <2>1, <2>3, <2>4, <2>5, <2>6, <3>2 DEF RunOK
    <3> QED
      BY <1>2, <3>1, <3>2 DEF RunOK
  <2> QED
    BY <1>5, <2>2, <2>3, <2>7, RunGoesOn DEF ReadConstrained, Unproduced
<1>6. CASE ReadExisting(r)
  <2>1. PICK stage, seen, new :
          /\ stage = IF q.rules THEN "evidence" ELSE "constraints"
          /\ seen = {row.pair : row \in er_candidate}
          /\ new = [q EXCEPT !.stage = stage, !.existing = seen, !.after = committed]
    OBVIOUS
  <2>2. producer' = [producer EXCEPT ![r] = new]
    BY <1>2, <1>6, <2>1 DEF ReadExisting
  <2>3. /\ DOMAIN new = DOMAIN NoRun /\ new = [f \in DOMAIN NoRun |-> new[f]]
        /\ new.stage = stage /\ new.existing = seen /\ new.after = committed
        /\ new.rules = q.rules /\ new.constrained = q.constrained /\ new.asOf = q.asOf
    BY <1>2, <1>3, <2>1
  <2>4. \A pair : pair \notin seen => Unseen(pair, committed)
    BY <2>1 DEF Unseen
  <2>5. q.stage = "candidates"
    BY <1>2, <1>6 DEF ReadExisting
  <2>6. new.after \in 0..committed /\ new.asOf \in 0..head /\ new.rules \in BOOLEAN
    BY <1>1, <1>2, <2>3 DEF RunOK
  <2>7. RunOK(new)
    <3>1. CASE q.rules = TRUE
      BY <1>2, <2>1, <2>3, <2>4, <2>5, <2>6, <3>1 DEF RunOK
    <3>2. CASE q.rules = FALSE
      BY <2>1, <2>3, <2>4, <2>6, <3>2 DEF RunOK
    <3> QED
      BY <1>2, <3>1, <3>2 DEF RunOK
  <2> QED
    BY <1>6, <2>2, <2>3, <2>7, RunGoesOn DEF ReadExisting, Unproduced
<1>7. CASE Propose(r)
  <2>0. PICK p \in Proposals(q) : \E rows \in Inserted(q, p.identified, p.other) :
          producer' = [producer EXCEPT ![r] =
            [NoRun EXCEPT !.stage = "insert", !.rows = rows, !.after = q.after, !.asOf = q.asOf]]
    BY <1>2, <1>7 DEF Propose
  <2>1. PICK rows \in Inserted(q, p.identified, p.other) :
          producer' = [producer EXCEPT ![r] =
            [NoRun EXCEPT !.stage = "insert", !.rows = rows, !.after = q.after, !.asOf = q.asOf]]
    BY <2>0
  <2>2. PICK new : new = [NoRun EXCEPT !.stage = "insert", !.rows = rows, !.after = q.after,
                                       !.asOf = q.asOf]
    OBVIOUS
  <2>3. /\ DOMAIN new = DOMAIN NoRun /\ new = [f \in DOMAIN NoRun |-> new[f]]
        /\ new.stage = "insert" /\ new.rows = rows /\ new.after = q.after /\ new.asOf = q.asOf
        /\ new.rules = FALSE
    BY <2>2 DEF NoRun
  <2>4. /\ \A row \in rows : /\ row.pair \subseteq Mentions /\ Agree(row.basis)
                             /\ row.pair \notin q.existing /\ row.pair \notin q.constrained
        /\ \A row, other \in rows : row.pair = other.pair => row = other
    BY <2>1, InsertedAre DEF IInv
  <2>5. ProposalsOK(rows, q.after, q.asOf)
    BY <1>2, <1>7, <2>4 DEF RunOK, ProposalsOK, Propose
  <2>6. RunOK(new)
    BY <1>2, <2>3, <2>5 DEF RunOK
  <2> QED
    BY <1>7, <2>1, <2>2, <2>3, <2>6, RunGoesOn DEF Propose, Unproduced
<1>8. CASE FailRun(r)
  BY <1>1, <1>8, IdleIsOK, RunGoesOn DEF FailRun, Unproduced
<1>9. CASE CommitRun(r)
  BY <1>9, CommitKeeps
<1> QED
  BY <1>4, <1>5, <1>6, <1>7, <1>8, <1>9 DEF Run

LEMMA ProducerStart == ProducerInit => ProducerInv /\ ConstraintsOK
<1> SUFFICES ASSUME ProducerInit PROVE ProducerInv /\ ConstraintsOK
  OBVIOUS
<1>1. /\ er_candidate = {} /\ committed = 0 /\ head = 0 /\ constraints = {}
      /\ producer = [r \in Runs |-> NoRun]
  BY DEF ProducerInit, ProducerIdle, Init
<1>2. RunOK(NoRun) /\ NoRun = [f \in DOMAIN NoRun |-> NoRun[f]]
  BY <1>1, IdleIsOK
<1> QED
  BY <1>1, <1>2 DEF ProducerInv, OncePerPair, ConstraintsOK

\* A step of the whole is one of the ledger, or one of a run.
LEMMA ProducerSteps ==
  ASSUME ProducerInv, [ProducerNext]_producerVars
  PROVE  \/ [Next]_vars /\ Resettled /\ producer' = producer /\ committed' = committed
         \/ UNCHANGED vars /\ \E r \in Runs : Run(r)
<1>1. CASE er_candidate' = er_candidate
  <2>1. Resettled
    BY <1>1 DEF Resettled, CandidateOK
  <2> QED
    BY <2>1, DecidedIsResettled DEF ProducerNext, producerVars, Run, StartRun, ReadConstrained,
       ReadExisting, Propose, CommitRun, FailRun, Unproduced
<1>2. CASE er_candidate' # er_candidate
  BY <1>2, DecidedIsResettled DEF ProducerNext, producerVars, Run, CommitRun, StartRun,
     ReadConstrained, ReadExisting, Propose, FailRun, Unproduced
<1> QED
  BY <1>1, <1>2

LEMMA ProducersHold == ProducerSpec => [](IInv /\ ConstraintsOK /\ ProducerInv)
<1>1. ProducerInit => IInv
  BY InitInv DEF ProducerInit
<1>2. ASSUME IInv, ConstraintsOK, ProducerInv, [ProducerNext]_producerVars
      PROVE  IInv' /\ ConstraintsOK' /\ ProducerInv'
  <2>1. [Next]_vars
    BY <1>2, ProducerSteps
  <2>2. IInv' /\ ConstraintsOK'
    BY <1>2, <2>1, StepInv, ConstraintsStep
  <2> QED
    BY <1>2, <2>2, ProducerSteps, LedgerStepKeeps, RunKeeps
<1> QED
  BY <1>1, <1>2, ProducerStart, PTL DEF ProducerSpec

\* A pair has one candidate, unless a producer looked for it before another committed it,
\* and none after it was rejected, however runs and decisions interleave (cli.py, _emit,
\* run_splink).
THEOREM NotProposedAgain == ProducerSpec => []NothingIsProposedAgain
<1>1. ProducerInv => OneCandidatePerPairUnlessOverlapping
  BY DEF ProducerInv, OncePerPair, OneCandidatePerPairUnlessOverlapping
<1>2. ProducerInv => RejectedIsNotProposedAgain
  BY DEF ProducerInv, CandidateOK, Clear, RejectedIsNotProposedAgain
<1> QED
  BY <1>1, <1>2, ProducersHold, PTL DEF NothingIsProposedAgain

\* The claims a pre-verified candidate rests on are of one identifier, held together on
\* some day and are of one registry at most, whichever of several observations of a
\* mention the query returned last (evaluate_preverified_identifiers, _conflict).
THEOREM AgreeingEvidence == ProducerSpec => []PreVerifiedOnAgreeingEvidence
<1>1. ProducerInv => PreVerifiedOnAgreeingEvidence
  BY DEF ProducerInv, CandidateOK, Agree, PreVerifiedOnAgreeingEvidence
<1> QED
  BY <1>1, ProducersHold, PTL
-----------------------------------------------------------------------------
\* A node in the store has a mention that belonged to somebody; what the import at work
\* found of a node was so when it began, and still is while nobody has decided since.
SourcedOK ==
  /\ sourced \in SUBSET [mention : Mentions, node : Nodes]
  /\ \A x \in sourced : \E row \in memberships : row.mention = x.mention
FoundOK(n) ==
  \/ importer.found[n] = <<None, None>> /\ \A x \in sourced : x.node # n
  \/ \E m \in Mentions, e \in entities :
       /\ importer.found[n] = <<m, e>> /\ [mention |-> m, node |-> n] \in sourced
       /\ importer.asOf = head => Belongs(m, e)
ImporterOK ==
  /\ Looked \subseteq Nodes
  /\ importer.asOf \in 0..head
  /\ Looked = {} => importer = Idle
  /\ \A n \in Looked : FoundOK(n)

\* Of a claim it is known what it was imported as; the last import through went by a head
\* there was, no later than the import at work, and no retraction is undone.
DrawnOK ==
  /\ \A k, l \in claims : k.id = l.id => k = l
  /\ \A i \in DOMAIN drawn : \E k \in claims : k.id = i
SettledOK ==
  /\ settled.asOf \in 0..(MaxRevision + 1)
  /\ settled.asOf <= MaxRevision => settled.asOf <= head
  /\ Looked # {} /\ settled.asOf <= MaxRevision => settled.asOf <= importer.asOf
  /\ settled.retractions \subseteq Retractions

\* When an import is through, every node is in the store.
AllSourced == Untouched => \A n \in Nodes : \E x \in sourced : x.node = n

ImportInv ==
  /\ SourcedOK /\ ImporterOK /\ DrawnOK /\ SettledOK
  /\ NodesKeepTheirMention /\ AllSourced /\ ImportIsComplete

LEMMA ImportStart == Init /\ ImportInit => ImportInv
<1> SUFFICES ASSUME Init, ImportInit PROVE ImportInv
  OBVIOUS
<1>1. sourced = {} /\ claims = {} /\ head = 0 /\ Looked = {} /\ DOMAIN drawn = {}
  BY DEF Init, ImportInit, Idle, Looked, NoLineage
<1>2. importer = Idle /\ importer.asOf = 0
  BY DEF ImportInit, Idle
<1>3. settled.asOf = MaxRevision + 1 /\ settled.retractions = {}
  BY DEF ImportInit, NeverSettled
<1>4. ~Untouched
  BY <1>1, <1>3, LedgerAssumption DEF Untouched, LedgerAssumption
<1> QED
  BY <1>1, <1>2, <1>3, <1>4, LedgerAssumption
  DEF ImportInv, SourcedOK, ImporterOK, DrawnOK, SettledOK, NodesKeepTheirMention, AllSourced,
      ImportIsComplete, LedgerAssumption

\* A draft is of one node, or of two.
LEMMA DraftEnds ==
  ASSUME NEW d \in Drafts
  PROVE  d.source \in Nodes /\ d.target \in Nodes \cup {None}
<1> DEFINE Ends(x) == x.source \in Nodes /\ x.target \in Nodes \cup {None}
<1>1. ASSUME NEW n \in Nodes, d \in NodeDrafts(n)
      PROVE  Ends(d)
  <2>1. ASSUME NEW v, d = Draft(n, None, "known_as", NodeRecord[n], Always, v)
        PROVE  Ends(d)
    BY <2>1 DEF Draft
  <2>2. ASSUME NEW x, d = IF x \in Nodes
                          THEN Draft(n, x, "affiliated_with", NodeRecord[n], Always, None)
                          ELSE Draft(n, None, "affiliated_with", NodeRecord[n], Always, x)
        PROVE  Ends(d)
    BY <2>2 DEF Draft
  <2> QED
    BY <1>1, <2>1, <2>2 DEF NodeDrafts
<1>2. ASSUME NEW e \in Edges, d \in RemapEdge(e)
      PROVE  Ends(d)
  <2>1. PICK t, w : d = Draft(e.source, e.target, t.predicate, e.record, w, None)
    BY <1>2 DEF RemapEdge
  <2> QED
    BY <2>1, ImportAssumption DEF Draft, ImportAssumption
<1> QED
  BY <1>1, <1>2 DEF Drafts

\* Who a node is now, by the membership of its mention.
LEMMA IsNowBelongs ==
  ASSUME NEW n \in Nodes, NEW e
  PROVE  IsNow(n, e) <=> \E m : [mention |-> m, node |-> n] \in sourced /\ Belongs(m, e)
<1>1. n # None
  BY ImportAssumption DEF ImportAssumption
<1>2. ASSUME NEW known \in Known(n), known[2] = e
      PROVE  \E m : [mention |-> m, node |-> n] \in sourced /\ Belongs(m, e)
  BY <1>2 DEF Known, Belongs
<1>3. ASSUME NEW m, [mention |-> m, node |-> n] \in sourced, Belongs(m, e)
      PROVE  \E known \in Known(n) : known[2] = e
  <2>1. PICK row \in Active : row.mention = m /\ row.entity = e
    BY <1>3 DEF Belongs
  <2>2. <<row.mention, row.entity>> \in Known(n)
    BY <1>3, <2>1 DEF Known
  <2> QED
    BY <2>1, <2>2
<1> QED
  BY <1>1, <1>2, <1>3 DEF IsNow

\* While nobody decides, who is whose only grows, ...
LEMMA BelongsStays ==
  ASSUME [Next]_vars, head \in Nat, head' = head
  PROVE  memberships \subseteq memberships' /\ \A m, e : Belongs(m, e) => Belongs(m, e)'
<1>1. OpensRows \/ KeepsRows
  BY StepOnRows DEF MovesRows
<1>2. memberships \subseteq memberships'
  BY <1>1 DEF OpensRows, KeepsRows
<1> QED
  BY <1>2 DEF Belongs, Active

\* ... and a mention with a row has one at every time.
LEMMA MentionsStay ==
  ASSUME IInv, [Next]_vars, NEW row \in memberships
  PROVE  \E x \in memberships' : x.mention = row.mention
<1>1. MovesRows \/ OpensRows \/ KeepsRows
  BY StepOnRows DEF IInv, TypeOK
<1>2. CASE MovesRows
  <2>1. PICK ms \in SUBSET Mentions, target \in Entities :
          memberships' = Moved(ms, target, head + 1)
    BY <1>2 DEF MovesRows
  <2> QED
    BY <2>1, MovedHas DEF IInv
<1> QED
  BY <1>1, <1>2 DEF OpensRows, KeepsRows

\* A retraction is not undone, and while there is no other no claim changes.
LEMMA RetractionsGrow ==
  ASSUME ClaimsGoOn, DrawnOK
  PROVE  /\ Retractions \subseteq Retractions'
         /\ Retractions' = Retractions => \A k \in claims : ~k.retracted =>
              \E l \in claims' : SameClaim(k, l) /\ ~l.retracted
<1>1. ASSUME NEW k \in claims, k.retracted
      PROVE  k.id \in Retractions'
  <2>1. PICK l \in claims' : SameClaim(l, k)
    BY DEF ClaimsGoOn
  <2>2. l.retracted
    BY <1>1, <2>1 DEF ClaimsGoOn, SameClaim, DrawnOK
  <2> QED
    BY <2>1, <2>2 DEF Retractions, SameClaim
<1>2. ASSUME NEW k \in claims, ~k.retracted, Retractions' = Retractions
      PROVE  \E l \in claims' : SameClaim(k, l) /\ ~l.retracted
  <2>1. PICK l \in claims' : SameClaim(l, k)
    BY DEF ClaimsGoOn
  <2>2. ~l.retracted
    BY <1>2, <2>1 DEF Retractions, SameClaim, DrawnOK
  <2> QED
    BY <2>1, <2>2 DEF SameClaim
<1> QED
  BY <1>1, <1>2 DEF Retractions

\* A decision or a claim beside the import.
LEMMA ImportBesides ==
  ASSUME IInv, IInv', ImportInv, [Next]_vars, UNCHANGED <<sourced, drawn, importer, settled>>
  PROVE  ImportInv'
<1>1. head \in Nat /\ head' \in Nat /\ head <= head'
  <2>1. MovesRows \/ OpensRows \/ KeepsRows
    BY StepOnRows DEF IInv, TypeOK
  <2> QED
    BY <2>1 DEF MovesRows, OpensRows, KeepsRows, IInv, TypeOK
<1>2. ClaimsGoOn
  BY ClaimsStep
<1>3. entities \subseteq entities'
  <2>1. CASE Record
    BY <2>1 DEF Record, RecordClaim, RetractClaim
  <2>2. ASSUME NEW parent, Adjudicate(parent)
        PROVE  entities \subseteq entities'
    BY <2>2 DEF Adjudicate, ConfirmMatch, RejectMatch, MarkUnresolved, SplitEntity
  <2>3. CASE UNCHANGED vars
    BY <2>3 DEF vars
  <2> QED
    BY <2>1, <2>2, <2>3 DEF Next
<1>4. SourcedOK'
  BY MentionsStay DEF ImportInv, SourcedOK
<1>5. ImporterOK'
  <2>1. Looked' = Looked
    BY DEF Looked
  <2>2. ASSUME NEW n \in Looked PROVE FoundOK(n)'
    <3>1. FoundOK(n)
      BY DEF ImportInv, ImporterOK
    <3>2. CASE importer.found[n] = <<None, None>> /\ \A x \in sourced : x.node # n
      BY <3>2 DEF FoundOK
    <3>3. ASSUME NEW m \in Mentions, NEW e \in entities,
                 importer.found[n] = <<m, e>>, [mention |-> m, node |-> n] \in sourced,
                 importer.asOf = head => Belongs(m, e)
          PROVE  FoundOK(n)'
      <4>1. importer.asOf = head' => Belongs(m, e)'
        BY <1>1, <3>3, BelongsStays DEF ImportInv, ImporterOK
      <4> QED
        BY <1>3, <3>3, <4>1 DEF FoundOK
    <3> QED
      BY <3>1, <3>2, <3>3 DEF FoundOK
  <2> QED
    BY <1>1, <2>1, <2>2 DEF ImportInv, ImporterOK
<1>6. DrawnOK'
  <2>1. \A k, l \in claims' : k.id = l.id => k = l
    BY <1>2 DEF ClaimsGoOn, ImportInv, DrawnOK
  <2>2. \A i \in DOMAIN drawn : \E k \in claims' : k.id = i
    BY <1>2 DEF ClaimsGoOn, ImportInv, DrawnOK, SameClaim
  <2> QED
    BY <2>1, <2>2 DEF DrawnOK
<1>7. Retractions \subseteq Retractions'
  BY <1>2, RetractionsGrow DEF ImportInv
<1>8. SettledOK'
  BY <1>1, <1>7 DEF ImportInv, SettledOK, Looked
<1>9. NodesKeepTheirMention'
  BY DEF ImportInv, NodesKeepTheirMention
<1>10. ASSUME Untouched' PROVE Untouched /\ head' = head /\ Retractions' = Retractions
  <2>1. head' <= MaxRevision
    BY LedgerAssumption DEF IInv, TypeOK, LedgerAssumption
  <2>2. settled.asOf = head' /\ settled.retractions = Retractions'
    BY <1>10 DEF Untouched
  <2>3. settled.asOf <= head /\ settled.retractions \subseteq Retractions
    BY <2>1, <2>2 DEF ImportInv, SettledOK
  <2> QED
    BY <1>1, <1>7, <2>2, <2>3 DEF Untouched
<1>11. AllSourced'
  BY <1>10 DEF ImportInv, AllSourced
<1>12. ImportIsComplete'
  <2>1. SUFFICES ASSUME Untouched', NEW d \in Drafts
                 PROVE  \E l \in claims' :
                          /\ ~l.retracted /\ l.id \in DOMAIN drawn /\ drawn[l.id] = d.what
                          /\ \/ IsNow(d.source, l.subject)' /\ IsNow(d.target, l.object)'
                             \/ /\ d.what.predicate \in SymmetricPredicates
                                /\ IsNow(d.source, l.object)' /\ IsNow(d.target, l.subject)'
    BY DEF ImportIsComplete
  <2>2. PICK k \in claims :
          /\ ~k.retracted /\ k.id \in DOMAIN drawn /\ drawn[k.id] = d.what
          /\ \/ IsNow(d.source, k.subject) /\ IsNow(d.target, k.object)
             \/ /\ d.what.predicate \in SymmetricPredicates
                /\ IsNow(d.source, k.object) /\ IsNow(d.target, k.subject)
    BY <1>10, <2>1 DEF ImportInv, ImportIsComplete
  <2>3. PICK l \in claims' : SameClaim(k, l) /\ ~l.retracted
    BY <1>2, <1>10, <2>1, <2>2, RetractionsGrow DEF ImportInv
  <2>4. ASSUME NEW n \in Nodes \cup {None}, NEW e, IsNow(n, e)
        PROVE  IsNow(n, e)'
    <3>1. CASE n = None
      BY <2>4, <3>1 DEF IsNow
    <3>2. CASE n # None
      <4>1. PICK row \in Active :
              [mention |-> row.mention, node |-> n] \in sourced /\ row.entity = e
        BY <2>4, <3>2 DEF IsNow, Known
      <4>2. row \in Active'
        BY <1>1, <1>10, <2>1, BelongsStays DEF Active
      <4>3. <<row.mention, row.entity>> \in Known(n)'
        BY <4>1, <4>2 DEF Known
      <4> QED
        BY <3>2, <4>1, <4>3 DEF IsNow
    <3> QED
      BY <3>1, <3>2
  <2> QED
    BY <2>1, <2>2, <2>3, <2>4, DraftEnds DEF SameClaim
<1> QED
  BY <1>4, <1>5, <1>6, <1>8, <1>9, <1>11, <1>12 DEF ImportInv

\* The import looks a node up, or is given up.
LEMMA FindNodeKeeps ==
  ASSUME IInv, ImportInv, NEW n \in Nodes, FindNode(n)
  PROVE  ImportInv'
<1>1. /\ n \notin Looked /\ UNCHANGED <<vars, sourced, drawn, settled>>
  BY DEF FindNode
<1>2. PICK known \in IF Known(n) = {} THEN {<<None, None>>} ELSE Known(n) :
        importer' =
          [found |-> [x \in Looked \cup {n} |-> IF x = n THEN known ELSE importer.found[x]],
           asOf  |-> IF Looked = {} THEN head ELSE importer.asOf]
  BY DEF FindNode
<1>3. /\ Looked' = Looked \cup {n} /\ Looked' # {}
      /\ importer'.asOf = IF Looked = {} THEN head ELSE importer.asOf
      /\ importer'.found[n] = known
      /\ \A x \in Looked : importer'.found[x] = importer.found[x]
  BY <1>1, <1>2 DEF Looked
<1>4. /\ claims' = claims /\ head' = head /\ entities' = entities /\ memberships' = memberships
      /\ Active' = Active
  BY <1>1 DEF vars, Active
<1>5. head \in Nat
  BY DEF IInv, TypeOK
<1>6. FoundOK(n)'
  <2>1. CASE Known(n) = {}
    <3>1. known = <<None, None>>
      BY <1>2, <2>1
    <3>2. ASSUME NEW x \in sourced, x.node = n PROVE FALSE
      <4>1. x = [mention |-> x.mention, node |-> n]
        BY <3>2 DEF ImportInv, SourcedOK
      <4>2. PICK row \in Active : row.mention = x.mention
        BY DEF ImportInv, SourcedOK, IInv, OneEntityPerMention
      <4>3. <<row.mention, row.entity>> \in Known(n)
        BY <4>1, <4>2 DEF Known
      <4> QED
        BY <2>1, <4>3
    <3> QED
      BY <1>1, <1>3, <3>1, <3>2 DEF FoundOK
  <2>2. CASE Known(n) # {}
    <3>1. PICK row \in Active :
            /\ known = <<row.mention, row.entity>>
            /\ [mention |-> row.mention, node |-> n] \in sourced
      BY <1>2, <2>2 DEF Known
    <3>2. row.mention \in Mentions /\ row.entity \in entities
      BY DEF Active, IInv, TypeOK, Membership
    <3>3. Belongs(row.mention, row.entity)'
      BY <1>4 DEF Belongs
    <3> QED
      BY <1>1, <1>3, <1>4, <3>1, <3>2, <3>3 DEF FoundOK
  <2> QED
    BY <2>1, <2>2
<1>7. ASSUME NEW x \in Looked PROVE FoundOK(x)'
  <2>1. FoundOK(x) /\ importer'.asOf = importer.asOf
    BY <1>3, <1>7 DEF ImportInv, ImporterOK
  <2> QED
    BY <1>1, <1>3, <1>4, <2>1 DEF FoundOK, Belongs
<1>8. importer'.asOf \in 0..head
  BY <1>3, <1>5 DEF ImportInv, ImporterOK
<1>9. ImporterOK'
  BY <1>3, <1>4, <1>6, <1>7, <1>8 DEF ImportInv, ImporterOK
<1>10. SettledOK'
  BY <1>1, <1>3, <1>4, <1>5 DEF ImportInv, SettledOK, Retractions
<1>11. Untouched' = Untouched /\ ImportIsComplete' = ImportIsComplete
  BY <1>1, <1>4 DEF Untouched, Retractions, ImportIsComplete, IsNow, Known
<1> QED
  BY <1>1, <1>4, <1>9, <1>10, <1>11
  DEF ImportInv, SourcedOK, DrawnOK, NodesKeepTheirMention, AllSourced

LEMMA AbortKeeps ==
  ASSUME IInv, ImportInv, importer' = Idle, UNCHANGED <<vars, sourced, drawn, settled>>
  PROVE  ImportInv'
<1>1. Looked' = {} /\ importer'.asOf = 0
  BY DEF Looked, Idle, NoLineage
<1>2. /\ claims' = claims /\ head' = head /\ memberships' = memberships /\ Active' = Active
  BY DEF vars, Active
<1>3. ImporterOK'
  BY <1>1, <1>2 DEF ImporterOK, IInv, TypeOK
<1>4. SettledOK'
  BY <1>1, <1>2 DEF ImportInv, SettledOK, Retractions
<1>5. Untouched' = Untouched /\ ImportIsComplete' = ImportIsComplete
  BY <1>2 DEF Untouched, Retractions, ImportIsComplete, IsNow, Known
<1> QED
  BY <1>2, <1>3, <1>4, <1>5
  DEF ImportInv, SourcedOK, DrawnOK, NodesKeepTheirMention, AllSourced
-----------------------------------------------------------------------------
\* The nodes that were not found.
Strangers == {n \in Nodes : importer.found[n][1] = None}

\* What an import makes of them.
LEMMA FreshParts ==
  ASSUME NEW fresh \in Fresh
  PROVE  /\ fresh.mention \in [Strangers -> Mentions] /\ fresh.owner \in [Strangers -> Entities]
         /\ \A n \in Strangers :
              /\ \A x \in sourced : x.mention # fresh.mention[n]
              /\ \A row \in memberships : row.mention # fresh.mention[n]
         /\ \A n, o \in Strangers : fresh.mention[n] = fresh.mention[o] => n = o
<1> DEFINE taken == {x.mention : x \in sourced} \cup {row.mention : row \in memberships}
<1>1. /\ fresh.mention \in Injections(Strangers, Mentions \ taken)
      /\ fresh.owner \in Injections(Strangers, Entities \ entities)
  BY DEF Fresh, Strangers
<1>2. /\ fresh.mention \in [Strangers -> Mentions \ taken]
      /\ fresh.owner \in [Strangers -> Entities \ entities]
      /\ \A n, o \in Strangers : fresh.mention[n] = fresh.mention[o] => n = o
  BY <1>1 DEF Injections
<1> QED
  BY <1>2

\* Of every node there is an owner then, and a mention that is the owner's.
LEMMA NodesFound ==
  ASSUME IInv, ImportInv, Looked = Nodes, NEW fresh \in Fresh, NEW n \in Nodes
  PROVE  /\ OwnerOf(fresh)[n] \in Entities /\ MentionOf(fresh)[n] \in Mentions
         /\ \/ /\ n \in Strangers /\ \A x \in sourced : x.node # n
               /\ OwnerOf(fresh)[n] = fresh.owner[n] /\ MentionOf(fresh)[n] = fresh.mention[n]
            \/ /\ n \notin Strangers /\ OwnerOf(fresh)[n] \in entities
               /\ [mention |-> MentionOf(fresh)[n], node |-> n] \in sourced
               /\ importer.asOf = head => Belongs(MentionOf(fresh)[n], OwnerOf(fresh)[n])
<1>1. FoundOK(n)
  BY DEF ImportInv, ImporterOK
<1>2. DOMAIN fresh.owner = Strangers /\ DOMAIN fresh.mention = Strangers
  BY FreshParts
<1> DEFINE f == importer.found[n]
<1>3. \A m, e : f = <<m, e>> => f[1] = m
  OBVIOUS
<1>4. n \in Strangers <=> f[1] = None
  BY DEF Strangers
<1>5. None \notin Mentions
  BY LedgerAssumption DEF LedgerAssumption
<1>6. \/ f = <<None, None>> /\ \A x \in sourced : x.node # n
      \/ \E m \in Mentions, e \in entities :
           /\ f = <<m, e>> /\ [mention |-> m, node |-> n] \in sourced
           /\ importer.asOf = head => Belongs(m, e)
  BY <1>1 DEF FoundOK
<1> HIDE DEF f
<1>7. CASE n \in Strangers
  <2>1. \A x \in sourced : x.node # n
    BY <1>7, <1>3, <1>4, <1>5, <1>6
  <2>2. OwnerOf(fresh)[n] = fresh.owner[n] /\ MentionOf(fresh)[n] = fresh.mention[n]
    BY <1>2, <1>7 DEF OwnerOf, MentionOf
  <2> QED
    BY <1>7, <2>1, <2>2, FreshParts
<1>8. CASE n \notin Strangers
  <2>1. PICK m \in Mentions, e \in entities :
          /\ f = <<m, e>> /\ [mention |-> m, node |-> n] \in sourced
          /\ importer.asOf = head => Belongs(m, e)
    BY <1>8, <1>3, <1>4, <1>6
  <2>2. OwnerOf(fresh)[n] = e /\ MentionOf(fresh)[n] = m
    BY <1>2, <1>8, <2>1 DEF OwnerOf, MentionOf, f
  <2> QED
    BY <1>8, <2>1, <2>2 DEF IInv, TypeOK
<1> QED
  BY <1>7, <1>8
-----------------------------------------------------------------------------
\* A claim that is recorded says what its draft does.
Tells(k, owner, d) ==
  \/ <<k.subject, k.object>> = EndsOf(owner, d)
  \/ /\ d.what.predicate \in SymmetricPredicates
     /\ <<k.object, k.subject>> = EndsOf(owner, d)

Between(k, owner) == \A e \in {k.subject, k.object} \ {None} : \E n \in Nodes : e = owner[n]

LEMMA RowTells ==
  ASSUME IInv, NEW owner \in [Nodes -> Entities], NEW mention \in [Nodes -> Mentions],
         NEW swapped \in SUBSET {d \in Drafts : MaySwap(d)},
         NEW d \in Drafts, NEW id \in Claims, NEW k, k = RowOf(id, d, owner, mention, swapped)
  PROVE  /\ k \in ClaimRow /\ k.id = id /\ k.revision = head /\ ~k.retracted
         /\ Tells(k, owner, d)
         /\ Between(k, owner)
<1>1. d.source \in Nodes /\ d.target \in Nodes \cup {None}
  BY DraftEnds
<1>2. None \notin Nodes
  BY ImportAssumption DEF ImportAssumption
<1> DEFINE first  == IF d \in swapped THEN d.target ELSE d.source
           second == IF d \in swapped THEN d.source ELSE d.target
           anchor(n) == IF n # None /\ NodeRecord[n] = d.what.record THEN mention[n] ELSE None
<1>3. first \in Nodes /\ second \in Nodes \cup {None}
  BY <1>1 DEF MaySwap
<1>4. \A n \in Nodes \cup {None} : anchor(n) \in Mentions \cup {None}
  OBVIOUS
<1>5. \A n \in Nodes : EndOf(owner, n) = owner[n] /\ owner[n] \in Entities
  BY <1>2 DEF EndOf
<1>6. EndOf(owner, None) = None
  BY DEF EndOf
<1>7. /\ EndOf(owner, first) \in Entities /\ EndOf(owner, second) \in Entities \cup {None}
      /\ \A e \in {EndOf(owner, first), EndOf(owner, second)} \ {None} :
           \E n \in Nodes : e = owner[n]
  BY <1>3, <1>5, <1>6
<1>8. \/ <<EndOf(owner, first), EndOf(owner, second)>> = EndsOf(owner, d)
      \/ /\ d.what.predicate \in SymmetricPredicates
         /\ <<EndOf(owner, second), EndOf(owner, first)>> = EndsOf(owner, d)
  BY DEF EndsOf, MaySwap
<1> DEFINE s == EndOf(owner, first)
           o == EndOf(owner, second)
           sm == anchor(first)
           om == anchor(second)
<1>9. k = [id |-> id, subject |-> s, subjectMention |-> sm, object |-> o, objectMention |-> om,
           revision |-> head, retracted |-> FALSE]
  BY DEF RowOf
<1>10. sm \in Mentions \cup {None} /\ om \in Mentions \cup {None}
  BY <1>3, <1>4
<1> HIDE DEF s, o, sm, om
<1>11. /\ k \in ClaimRow /\ k.id = id /\ k.revision = head /\ ~k.retracted
       /\ k.subject = s /\ k.object = o
  BY <1>7, <1>9, <1>10 DEF IInv, TypeOK, ClaimRow, s, o
<1>12. Tells(k, owner, d)
  BY <1>8, <1>11 DEF Tells, s, o
<1> QED
  BY <1>7, <1>11, <1>12 DEF s, o, Between

\* What a commit records.
LEMMA SayingsParts ==
  ASSUME IInv, NEW owner \in [Nodes -> Entities], NEW mention \in [Nodes -> Mentions],
         NEW swapped \in SUBSET {d \in Drafts : MaySwap(d)},
         NEW row \in Sayings(owner, mention, swapped)
  PROVE  /\ DOMAIN row \subseteq Unsaid(owner)
         /\ \A d \in DOMAIN row :
              /\ row[d] \in ClaimRow /\ row[d].revision = head /\ ~row[d].retracted
              /\ Tells(row[d], owner, d)
              /\ Between(row[d], owner)
              /\ \A k \in claims : k.id # row[d].id
         /\ \A d, x \in DOMAIN row : row[d].id = row[x].id => d = x
         /\ \A d \in Unsaid(owner) \ DOMAIN row :
              \E x \in DOMAIN row : Speaks(row[x], x.what, owner, d)
<1> DEFINE ids(new) == Injections(new, Claims \ {k.id : k \in claims})
           rows(new) == {[d \in new |-> RowOf(id[d], d, owner, mention, swapped)] : id \in ids(new)}
<1>1. /\ row \in UNION {rows(new) : new \in SUBSET Unsaid(owner)}
      /\ \A d \in Unsaid(owner) :
           d \in DOMAIN row <=> ~\E x \in DOMAIN row \ {d} : Speaks(row[x], x.what, owner, d)
  BY DEF Sayings
<1> HIDE DEF rows
<1>2. PICK new \in SUBSET Unsaid(owner) : row \in rows(new)
  BY <1>1
<1> HIDE DEF ids
<1>3. PICK id \in ids(new) : row = [d \in new |-> RowOf(id[d], d, owner, mention, swapped)]
  BY <1>2 DEF rows
<1>4. /\ id \in [new -> Claims \ {k.id : k \in claims}]
      /\ \A x, y \in new : id[x] = id[y] => x = y
  BY DEF Injections, ids
<1>5. DOMAIN row = new
  BY <1>3
<1>6. ASSUME NEW d \in new
      PROVE  /\ row[d] \in ClaimRow /\ row[d].id = id[d]
             /\ row[d].revision = head /\ ~row[d].retracted
             /\ Tells(row[d], owner, d)
             /\ Between(row[d], owner)
  <2>1. d \in Drafts /\ id[d] \in Claims
    BY <1>4 DEF Unsaid
  <2>2. row[d] = RowOf(id[d], d, owner, mention, swapped)
    BY <1>3
  <2> QED
    BY <2>1, <2>2, RowTells
<1>7. \A d \in new : \A k \in claims : k.id # id[d]
  BY <1>4
<1>8. \A d \in Unsaid(owner) \ DOMAIN row : \E x \in DOMAIN row : Speaks(row[x], x.what, owner, d)
  BY <1>1
<1>9. ASSUME NEW d \in DOMAIN row
       PROVE  /\ row[d] \in ClaimRow /\ row[d].revision = head /\ ~row[d].retracted
              /\ Tells(row[d], owner, d)
              /\ Between(row[d], owner)
              /\ \A k \in claims : k.id # row[d].id
  BY <1>5, <1>6, <1>7
<1>10. \A d, x \in DOMAIN row : row[d].id = row[x].id => d = x
  BY <1>4, <1>5, <1>6
<1> QED
  BY <1>5, <1>8, <1>9, <1>10
-----------------------------------------------------------------------------
\* The rows a commit adds to the table: of mentions that had none.
LEMMA BaselineRows ==
  ASSUME IInv, ImportInv, NEW fresh \in Fresh, head' = head,
         entities \subseteq entities', Range(fresh.owner) \subseteq entities',
         memberships' = memberships \cup
            {[mention |-> fresh.mention[n], entity |-> fresh.owner[n], opened |-> 0,
              closed |-> Open] : n \in DOMAIN fresh.mention}
  PROVE  /\ Rows' /\ OneEntityPerMention'
         /\ \A row \in memberships' : row.entity \in entities'
         /\ \A m, e : Belongs(m, e) => Belongs(m, e)'
         /\ \A n \in Strangers : Belongs(fresh.mention[n], fresh.owner[n])'
<1> DEFINE new(n) == [mention |-> fresh.mention[n], entity |-> fresh.owner[n], opened |-> 0,
                      closed |-> Open]
<1>1. /\ fresh.mention \in [Strangers -> Mentions] /\ fresh.owner \in [Strangers -> Entities]
      /\ \A n \in Strangers : \A row \in memberships : row.mention # fresh.mention[n]
      /\ \A n, o \in Strangers : fresh.mention[n] = fresh.mention[o] => n = o
  BY FreshParts
<1>2. ASSUME NEW n \in Strangers
      PROVE  /\ new(n) \in Membership /\ new(n).opened = 0 /\ new(n).closed = Open
             /\ new(n).mention = fresh.mention[n] /\ new(n).entity = fresh.owner[n]
             /\ new(n).entity \in entities'
  <2>1. fresh.owner[n] \in Range(fresh.owner)
    BY <1>1 DEF Range
  <2> QED
    BY <1>1, <2>1, LedgerAssumption DEF Membership, Open, LedgerAssumption
<1>3. \A row : row \in memberships' <=> row \in memberships \/ \E n \in Strangers : row = new(n)
  BY <1>1
<1> HIDE DEF new
<1>4. \A row : row \in Active' <=> row \in Active \/ \E n \in Strangers : row = new(n)
  BY <1>2, <1>3 DEF Active
<1>5. Rows'
  <2>1. head \in Nat /\ Open = 0
    BY DEF IInv, TypeOK, Open
  <2>2. ASSUME NEW row \in memberships'
        PROVE  /\ row \in Membership /\ row.opened <= head /\ row.closed <= head
               /\ row.closed # Open => row.opened < row.closed
    <3>1. CASE row \in memberships
      BY <3>1 DEF IInv, Rows
    <3>2. ASSUME NEW n \in Strangers, row = new(n)
          PROVE  row \in Membership /\ row.opened <= head /\ row.closed <= head /\ row.closed = Open
      BY <1>2, <2>1, <3>2
    <3> QED
      BY <1>3, <3>1, <3>2
  <2> QED
    BY <2>2 DEF IInv, Rows
<1>6. ASSUME NEW row \in memberships'
      PROVE  \E x \in Active' : /\ x.mention = row.mention
                                /\ \A y \in Active' : y.mention = row.mention => y = x
  <2>1. CASE row \in memberships
    <3>1. PICK x \in Active : /\ x.mention = row.mention
                              /\ \A y \in Active : y.mention = row.mention => y = x
      BY <2>1 DEF IInv, OneEntityPerMention
    <3>2. \A n \in Strangers : new(n).mention # row.mention
      BY <1>1, <1>2, <2>1
    <3> QED
      BY <1>4, <3>1, <3>2
  <2>2. ASSUME NEW n \in Strangers, row = new(n)
        PROVE  \A y \in Active' : y.mention = row.mention => y = row
    <3>1. \A y \in Active : y.mention # row.mention
      BY <1>1, <1>2, <2>2 DEF Active
    <3>2. \A o \in Strangers : new(o).mention = row.mention => o = n
      BY <1>1, <1>2, <2>2
    <3> QED
      BY <1>4, <2>2, <3>1, <3>2
  <2> QED
    BY <1>3, <1>4, <2>1, <2>2
<1>7. \A row \in memberships' : row.entity \in entities'
  BY <1>2, <1>3 DEF IInv, TypeOK
<1>8. \A m, e : Belongs(m, e) => Belongs(m, e)'
  BY <1>4 DEF Belongs
<1>9. \A n \in Strangers : Belongs(fresh.mention[n], fresh.owner[n])'
  BY <1>2, <1>4 DEF Belongs
<1> QED
  BY <1>5, <1>6, <1>7, <1>8, <1>9 DEF OneEntityPerMention

LEMMA ImportKeepsTypes ==
  ASSUME IInv, ImportInv, CommitImport
  PROVE  IInv'
<1>1. PICK fresh \in Fresh, swapped \in SUBSET {d \in Drafts : MaySwap(d)} :
        \E row \in Sayings(OwnerOf(fresh), MentionOf(fresh), swapped) : Write(fresh, row)
  BY DEF CommitImport
<1>2. PICK row \in Sayings(OwnerOf(fresh), MentionOf(fresh), swapped) : Write(fresh, row)
  BY <1>1
<1>3. /\ entities' = entities \cup Range(fresh.owner)
      /\ memberships' = memberships \cup
           {[mention |-> fresh.mention[n], entity |-> fresh.owner[n], opened |-> 0,
             closed |-> Open] : n \in DOMAIN fresh.mention}
      /\ claims' = claims \cup Range(row)
  BY <1>2 DEF Write
<1>4. /\ Looked = Nodes
      /\ UNCHANGED <<tombstoned, head, decisions, candidates, constraints, canonical, queue>>
  BY DEF CommitImport
<1>5. /\ Rows' /\ OneEntityPerMention' /\ \A x \in memberships' : x.entity \in entities'
      /\ \A n \in Strangers : fresh.owner[n] \in entities'
  BY <1>3, <1>4, BaselineRows, FreshParts DEF Range
<1> DEFINE owner == OwnerOf(fresh)
           mention == MentionOf(fresh)
<1>6. \A n \in Nodes : owner[n] \in Entities /\ owner[n] \in entities' /\ mention[n] \in Mentions
  BY <1>3, <1>4, <1>5, NodesFound
<1>7. owner \in [Nodes -> Entities] /\ mention \in [Nodes -> Mentions]
  BY <1>6 DEF OwnerOf, MentionOf
<1>8. \A d \in DOMAIN row : row[d] \in ClaimRow /\ row[d].revision = head /\ Between(row[d], owner)
  BY <1>3, <1>7, SayingsParts
<1> HIDE DEF owner, mention
<1>9. \A k \in claims' : k \in claims \/ \E d \in DOMAIN row : k = row[d]
  BY <1>3 DEF Range
<1>10. ASSUME NEW k \in claims'
      PROVE  /\ k \in ClaimRow /\ k.revision \in 0..head
             /\ {k.subject, k.object} \ {None} \subseteq entities'
  <2>1. CASE k \in claims
    BY <1>3, <2>1 DEF IInv, TypeOK, Stamps
  <2>2. ASSUME NEW d \in DOMAIN row, k = row[d]
        PROVE  /\ k \in ClaimRow /\ k.revision \in 0..head
               /\ {k.subject, k.object} \ {None} \subseteq entities'
    BY <1>6, <1>8, <2>2 DEF Between, IInv, TypeOK
  <2> QED
    BY <1>9, <2>1, <2>2
<1>11. Range(fresh.owner) \subseteq Entities
  BY FreshParts DEF Range
<1>12. TypeOK'
  BY <1>3, <1>4, <1>5, <1>10, <1>11 DEF IInv, TypeOK, Rows
<1>13. Stamps'
  BY <1>4, <1>10 DEF IInv, Stamps
<1> QED
  BY <1>5, <1>12, <1>13 DEF IInv

\* When nobody decided since the import began, its owners are who the nodes are.
LEMMA ImportKeeps ==
  ASSUME IInv, ImportInv, CommitImport
  PROVE  ImportInv'
<1>1. PICK fresh \in Fresh, swapped \in SUBSET {d \in Drafts : MaySwap(d)} :
        \E row \in Sayings(OwnerOf(fresh), MentionOf(fresh), swapped) : Write(fresh, row)
  BY DEF CommitImport
<1>2. PICK row \in Sayings(OwnerOf(fresh), MentionOf(fresh), swapped) : Write(fresh, row)
  BY <1>1
<1>3. /\ entities' = entities \cup Range(fresh.owner)
      /\ memberships' = memberships \cup
           {[mention |-> fresh.mention[n], entity |-> fresh.owner[n], opened |-> 0,
             closed |-> Open] : n \in DOMAIN fresh.mention}
      /\ sourced' = sourced \cup
           {[mention |-> fresh.mention[n], node |-> n] : n \in DOMAIN fresh.mention}
      /\ claims' = claims \cup Range(row)
      /\ drawn' = [k \in DOMAIN drawn \cup {row[d].id : d \in DOMAIN row} |->
                     IF k \in DOMAIN drawn THEN drawn[k]
                     ELSE (CHOOSE d \in DOMAIN row : row[d].id = k).what]
  BY <1>2 DEF Write
<1>4. /\ Looked = Nodes /\ importer' = Idle /\ head' = head
      /\ settled' = [asOf |-> importer.asOf, retractions |-> Retractions]
  BY DEF CommitImport
<1>5. /\ \A x \in memberships' : x.entity \in entities'
      /\ \A m, e : Belongs(m, e) => Belongs(m, e)'
      /\ \A n \in Strangers : Belongs(fresh.mention[n], fresh.owner[n])'
  BY <1>3, <1>4, BaselineRows
<1>6. PICK owner, mention : owner = OwnerOf(fresh) /\ mention = MentionOf(fresh)
  OBVIOUS
<1>7. \A n \in Nodes :
        /\ owner[n] \in Entities /\ mention[n] \in Mentions
        /\ \/ /\ n \in Strangers /\ \A x \in sourced : x.node # n
              /\ owner[n] = fresh.owner[n] /\ mention[n] = fresh.mention[n]
           \/ /\ n \notin Strangers
              /\ [mention |-> mention[n], node |-> n] \in sourced
              /\ importer.asOf = head => Belongs(mention[n], owner[n])
  BY <1>4, <1>6, NodesFound
<1>8. owner \in [Nodes -> Entities] /\ mention \in [Nodes -> Mentions]
  BY <1>7, <1>6 DEF OwnerOf, MentionOf
<1>9. /\ DOMAIN row \subseteq Unsaid(owner)
      /\ \A d \in DOMAIN row :
           /\ ~row[d].retracted /\ Tells(row[d], owner, d)
           /\ \A k \in claims : k.id # row[d].id
      /\ \A d, x \in DOMAIN row : row[d].id = row[x].id => d = x
      /\ \A d \in Unsaid(owner) \ DOMAIN row :
           \E x \in DOMAIN row : Speaks(row[x], x.what, owner, d)
  BY <1>3, <1>8, <1>6, SayingsParts
<1>10. \A n \in Strangers : mention[n] = fresh.mention[n] /\ owner[n] = fresh.owner[n]
  BY <1>7 DEF Strangers
<1>11. DOMAIN fresh.mention = Strangers
  BY FreshParts
<1>12. \A x : x \in sourced' <=>
         x \in sourced \/ \E n \in Strangers : x = [mention |-> mention[n], node |-> n]
  BY <1>3, <1>10, <1>11
<1>13. \A k : k \in claims' <=> k \in claims \/ \E d \in DOMAIN row : k = row[d]
  BY <1>3 DEF Range
<1>14. /\ DOMAIN drawn' = DOMAIN drawn \cup {row[d].id : d \in DOMAIN row}
       /\ \A i \in DOMAIN drawn : drawn'[i] = drawn[i]
  BY <1>3
<1>15. ASSUME NEW d \in DOMAIN row
       PROVE  row[d].id \in DOMAIN drawn' /\ drawn'[row[d].id] = d.what
  <2>1. row[d].id \notin DOMAIN drawn
    BY <1>9 DEF ImportInv, DrawnOK
  <2>2. (CHOOSE x \in DOMAIN row : row[x].id = row[d].id) = d
    BY <1>9
  <2> QED
    BY <1>3, <2>1, <2>2
<1>16. SourcedOK'
  <2>1. ASSUME NEW x \in sourced'
        PROVE  /\ x \in [mention : Mentions, node : Nodes]
               /\ \E r \in memberships' : r.mention = x.mention
    <3>1. CASE x \in sourced
      BY <1>3, <3>1 DEF ImportInv, SourcedOK
    <3>2. ASSUME NEW n \in Strangers, x = [mention |-> mention[n], node |-> n]
          PROVE  /\ x \in [mention : Mentions, node : Nodes]
                 /\ \E r \in memberships' : r.mention = x.mention
      <4>1. n \in Nodes
        BY DEF Strangers
      <4>2. Belongs(mention[n], owner[n])'
        BY <1>5, <1>7, <4>1
      <4> QED
        BY <1>7, <3>2, <4>1, <4>2 DEF Belongs, Active
    <3> QED
      BY <1>12, <3>1, <3>2
  <2> QED
    BY <2>1 DEF SourcedOK
<1>17. ImporterOK'
  BY <1>4 DEF ImporterOK, Looked, Idle, NoLineage, IInv, TypeOK
<1>18. DrawnOK'
  <2>1. ASSUME NEW k \in claims', NEW l \in claims', k.id = l.id PROVE k = l
    BY <1>9, <1>13, <2>1 DEF ImportInv, DrawnOK
  <2>2. ASSUME NEW i \in DOMAIN drawn' PROVE \E k \in claims' : k.id = i
    BY <1>13, <1>14 DEF ImportInv, DrawnOK
  <2> QED
    BY <2>1, <2>2 DEF DrawnOK
<1>19. Retractions' = Retractions
  BY <1>9, <1>13 DEF Retractions
<1>20. SettledOK'
  <2>1. head \in 0..MaxRevision /\ importer.asOf \in 0..head /\ MaxRevision \in Nat
    BY LedgerAssumption DEF ImportInv, ImporterOK, IInv, TypeOK, LedgerAssumption
  <2>2. settled'.asOf = importer.asOf /\ settled'.retractions = Retractions
    BY <1>4
  <2>3. Looked' = {}
    BY <1>4 DEF Looked, Idle, NoLineage
  <2> QED
    BY <1>4, <1>19, <2>1, <2>2, <2>3 DEF SettledOK
<1>21. NodesKeepTheirMention'
  <2>1. ASSUME NEW x \in sourced', NEW y \in sourced', x.node = y.node PROVE x = y
    <3>1. \A n \in Strangers : n \in Nodes
      BY DEF Strangers
    <3>2. \A n \in Strangers : \A z \in sourced : z.node # n
      BY <1>7, <3>1
    <3> QED
      BY <1>12, <2>1, <3>2 DEF ImportInv, NodesKeepTheirMention
  <2> QED
    BY <2>1 DEF NodesKeepTheirMention
<1>22. \A n \in Nodes : [mention |-> mention[n], node |-> n] \in sourced'
  BY <1>7, <1>12
<1>23. AllSourced'
  BY <1>22 DEF AllSourced
<1>24. ImportIsComplete'
  <2>1. SUFFICES ASSUME Untouched', NEW d \in Drafts
                 PROVE  \E k \in claims' :
                          /\ ~k.retracted /\ k.id \in DOMAIN drawn' /\ drawn'[k.id] = d.what
                          /\ \/ IsNow(d.source, k.subject)' /\ IsNow(d.target, k.object)'
                             \/ /\ d.what.predicate \in SymmetricPredicates
                                /\ IsNow(d.source, k.object)' /\ IsNow(d.target, k.subject)'
    BY DEF ImportIsComplete
  <2>2. importer.asOf = head
    BY <1>4, <2>1 DEF Untouched
  <2>3. ASSUME NEW n \in Nodes \cup {None} PROVE IsNow(n, EndOf(owner, n))'
    <3>1. CASE n = None
      BY <3>1 DEF IsNow, EndOf
    <3>2. CASE n # None
      <4>1. Belongs(mention[n], owner[n])'
        BY <1>5, <1>7, <2>2, <3>2
      <4>2. PICK r \in Active' : r.mention = mention[n] /\ r.entity = owner[n]
        BY <4>1 DEF Belongs
      <4>3. <<r.mention, r.entity>> \in Known(n)'
        BY <1>22, <3>2, <4>2 DEF Known
      <4> QED
        BY <3>2, <4>2, <4>3 DEF IsNow, EndOf
    <3> QED
      BY <3>1, <3>2
  <2>4. d.source \in Nodes \cup {None} /\ d.target \in Nodes \cup {None}
    BY DraftEnds
  <2>5. \E k \in claims' :
          /\ ~k.retracted /\ k.id \in DOMAIN drawn' /\ drawn'[k.id] = d.what
          /\ Tells(k, owner, d)
    <3>1. CASE d \notin Unsaid(owner)
      <4>1. PICK k \in claims :
              ~k.retracted /\ k.id \in DOMAIN drawn /\ Speaks(k, drawn[k.id], owner, d)
        BY <3>1 DEF Unsaid
      <4> QED
        BY <1>13, <1>14, <4>1 DEF Speaks, Tells
    <3>2. CASE d \in DOMAIN row
      BY <1>9, <1>13, <1>15, <3>2
    <3>3. CASE d \in Unsaid(owner) \ DOMAIN row
      <4>1. PICK x \in DOMAIN row : Speaks(row[x], x.what, owner, d)
        BY <1>9, <3>3
      <4> QED
        BY <1>9, <1>13, <1>15, <4>1 DEF Speaks, Tells
    <3> QED
      BY <3>1, <3>2, <3>3
  <2> QED
    BY <2>3, <2>4, <2>5 DEF Tells, EndsOf
<1> QED
  BY <1>16, <1>17, <1>18, <1>20, <1>21, <1>23, <1>24 DEF ImportInv
-----------------------------------------------------------------------------
LEMMA ImportHolds == ImportSpec => [](IInv /\ ImportInv)
<1>1. Init /\ ImportInit => IInv /\ ImportInv
  BY InitInv, ImportStart
<1>2. IInv /\ ImportInv /\ [ImportNext]_importVars => (IInv /\ ImportInv)'
  <2> SUFFICES ASSUME IInv, ImportInv, [ImportNext]_importVars
               PROVE  IInv' /\ ImportInv'
    OBVIOUS
  <2>1. CASE UNCHANGED vars /\ UNCHANGED <<sourced, drawn, importer, settled>>
    BY <2>1, StepInv, ImportBesides
  <2>2. CASE Next /\ UNCHANGED <<sourced, drawn, importer, settled>>
    BY <2>2, StepInv, ImportBesides
  <2>3. ASSUME NEW n \in Nodes, FindNode(n) PROVE IInv' /\ ImportInv'
    <3>1. UNCHANGED vars
      BY <2>3 DEF FindNode
    <3> QED
      BY <2>3, <3>1, StepInv, FindNodeKeeps
  <2>4. CASE AbortImport
    <3>1. UNCHANGED <<vars, sourced, drawn, settled>> /\ importer' = Idle
      BY <2>4 DEF AbortImport
    <3> QED
      BY <3>1, StepInv, AbortKeeps
  <2>5. CASE CommitImport
    BY <2>5, ImportKeeps, ImportKeepsTypes
  <2> QED
    BY <2>1, <2>2, <2>3, <2>4, <2>5 DEF ImportNext, Import, importVars
<1> QED
  BY <1>1, <1>2, PTL DEF ImportSpec

\* The store has the dataset's nodes once each, whatever is merged, split or imported
\* again, and says of them what the dataset says as soon as an import is through that
\* nobody decided beside (migrate).
THEOREM ImportFaithful == ImportSpec => []ImportIsFaithful
<1>1. ImportInv => ImportIsFaithful
  BY DEF ImportInv, ImportIsFaithful
<1> QED
  BY <1>1, ImportHolds, PTL

\* A node has one mention and a mention one entity.
LEMMA FoundIsNow ==
  ASSUME IInv, ImportInv, NEW n \in Nodes, NEW m, NEW e,
         [mention |-> m, node |-> n] \in sourced, Belongs(m, e)
  PROVE  \A x : IsNow(n, x) => x = e
<1> SUFFICES ASSUME NEW x, IsNow(n, x) PROVE x = e
  OBVIOUS
<1>1. PICK o : [mention |-> o, node |-> n] \in sourced /\ Belongs(o, x)
  BY IsNowBelongs
<1>2. [mention |-> o, node |-> n] = [mention |-> m, node |-> n]
  BY <1>1 DEF ImportInv, NodesKeepTheirMention
<1>3. o = m
  BY <1>2
<1> QED
  BY <1>1, <1>3 DEF IInv, OneEntityPerMention, Belongs, Active

\* A rerun that nobody decided beside finds every node and every claim.
LEMMA NothingToImport ==
  ASSUME IInv, ImportInv, CommitImport, importer # Idle, Untouched
  PROVE  UNCHANGED <<entities, memberships, claims>>
<1>1. PICK fresh \in Fresh, swapped \in SUBSET {d \in Drafts : MaySwap(d)} :
        \E row \in Sayings(OwnerOf(fresh), MentionOf(fresh), swapped) : Write(fresh, row)
  BY DEF CommitImport
<1>2. PICK row \in Sayings(OwnerOf(fresh), MentionOf(fresh), swapped) : Write(fresh, row)
  BY <1>1
<1>3. /\ entities' = entities \cup Range(fresh.owner)
      /\ memberships' = memberships \cup
           {[mention |-> fresh.mention[n], entity |-> fresh.owner[n], opened |-> 0,
             closed |-> Open] : n \in DOMAIN fresh.mention}
      /\ claims' = claims \cup Range(row)
  BY <1>2 DEF Write
<1>4. Looked = Nodes /\ Looked # {}
  BY DEF CommitImport, ImportInv, ImporterOK
<1>5. importer.asOf = head
  BY <1>4, LedgerAssumption
  DEF Untouched, ImportInv, SettledOK, ImporterOK, IInv, TypeOK, LedgerAssumption
<1> DEFINE owner == OwnerOf(fresh)
           mention == MentionOf(fresh)
<1>6. ASSUME NEW n \in Nodes
      PROVE  /\ n \notin Strangers /\ owner[n] \in Entities /\ mention[n] \in Mentions
             /\ [mention |-> mention[n], node |-> n] \in sourced /\ Belongs(mention[n], owner[n])
  <2>1. \E x \in sourced : x.node = n
    BY DEF ImportInv, AllSourced
  <2> QED
    BY <1>4, <1>5, <2>1, NodesFound
<1>7. Strangers = {}
  BY <1>6 DEF Strangers
<1>8. owner \in [Nodes -> Entities] /\ mention \in [Nodes -> Mentions]
  BY <1>6 DEF OwnerOf, MentionOf
<1>9. DOMAIN row \subseteq Unsaid(owner)
  BY <1>3, <1>8, SayingsParts
<1> HIDE DEF owner, mention
<1>10. ASSUME NEW n \in Nodes \cup {None}, NEW x, IsNow(n, x)
      PROVE  x = EndOf(owner, n)
  <2>1. CASE n = None
    BY <1>10, <2>1 DEF EndOf, IsNow
  <2>2. CASE n # None
    <3>1. x = owner[n]
      BY <1>6, <1>10, <2>2, FoundIsNow
    <3> QED
      BY <2>2, <3>1 DEF EndOf
  <2> QED
    BY <2>1, <2>2
<1>11. ASSUME NEW d \in Drafts PROVE d \notin Unsaid(owner)
  <2>1. PICK k \in claims :
          /\ ~k.retracted /\ k.id \in DOMAIN drawn /\ drawn[k.id] = d.what
          /\ \/ IsNow(d.source, k.subject) /\ IsNow(d.target, k.object)
             \/ /\ d.what.predicate \in SymmetricPredicates
                /\ IsNow(d.source, k.object) /\ IsNow(d.target, k.subject)
    BY DEF ImportInv, ImportIsComplete
  <2>2. d.source \in Nodes \cup {None} /\ d.target \in Nodes \cup {None}
    BY DraftEnds
  <2>3. Speaks(k, drawn[k.id], owner, d)
    BY <1>10, <2>1, <2>2 DEF Speaks, EndsOf
  <2> QED
    BY <2>1, <2>3 DEF Unsaid
<1>12. DOMAIN row = {}
  BY <1>9, <1>11 DEF Unsaid
<1>13. DOMAIN fresh.owner = {} /\ DOMAIN fresh.mention = {}
  BY <1>7, FreshParts
<1> QED
  BY <1>3, <1>12, <1>13 DEF Range

\* "Re-running the migration therefore changes nothing" (legacy.py), as long as nobody
\* decides or retracts.
THEOREM ImportRepeatable == ImportSpec => ImportIsRepeatable
<1>1. ASSUME IInv, ImportInv, [ImportNext]_importVars
      PROVE  [importer # Idle /\ importer' = Idle /\ Untouched
                => UNCHANGED <<entities, memberships, claims>>]_importVars
  <2> SUFFICES ASSUME ImportNext, importer # Idle, importer' = Idle, Untouched
               PROVE  UNCHANGED <<entities, memberships, claims>>
    BY <1>1
  <2>1. CASE CommitImport
    BY <1>1, <2>1, NothingToImport
  <2>2. CASE AbortImport
    BY <2>2 DEF AbortImport, vars
  <2>3. CASE \E n \in Nodes : FindNode(n)
    BY <2>3 DEF FindNode, vars
  <2> QED
    BY <2>1, <2>2, <2>3 DEF ImportNext, Import
<1> QED
  BY <1>1, ImportHolds, PTL DEF ImportSpec, ImportIsRepeatable
=============================================================================
