------------------------ MODULE IdentityLedgerProofs ------------------------
(***************************************************************************)
(* Proofs about IdentityLedger, for every set of mentions, entities,       *)
(* claims and candidates and every bound on the revisions.                 *)
(*                                                                         *)
(* All that a step does to the membership table is one of three things     *)
(* (MovesRows, OpensRows, KeepsRows); what the theorems need of the table  *)
(* is proved once for each of the three.                                   *)
(***************************************************************************)
EXTENDS IdentityLedger, TLAPS, WellFoundedInduction

\* Induction over the naturals, as the least counterexample.
LEMMA LeastOf ==
  ASSUME NEW S \in SUBSET Nat, S # {}
  PROVE  \E m \in S : \A x \in S : m <= x
<1> DEFINE R == {ss \in Nat \X Nat : ss[1] < ss[2]}
<1>1. IsWellFoundedOn(R, Nat)
  BY NatLessThanWellFounded DEF OpToRel
<1> HIDE DEF R
<1>2. PICK m \in S : \A x \in S : <<x, m>> \notin R
  BY <1>1, WFMin
<1>3. \A x \in S : ~(x < m)
  BY <1>2 DEF R
<1> QED
  BY <1>3
-----------------------------------------------------------------------------
MovesRows ==
  /\ head < MaxRevision
  /\ head' = head + 1
  /\ \E ms \in SUBSET Mentions, target \in Entities :
       memberships' = Moved(ms, target, head + 1)

OpensRows ==
  /\ head' = head
  /\ \E s \in Entities, o \in Entities \cup {None}, sm, om \in Mentions \cup {None} :
       /\ sm = om => sm = None
       /\ o = None => om = None
       /\ memberships' = memberships \cup Opening(s, sm) \cup Opening(o, om)

KeepsRows ==
  /\ memberships' = memberships
  /\ \/ head' = head
     \/ head < MaxRevision /\ head' = head + 1

-----------------------------------------------------------------------------
\* A split moves mentions of the store onto an entity of the store.
LEMMA StepOnRows ==
  ASSUME [Next]_vars, head \in Nat
  PROVE  MovesRows \/ OpensRows \/ KeepsRows
<1>1. CASE UNCHANGED vars
  BY <1>1 DEF vars, KeepsRows
<1>2. CASE Record
  <2>1. ASSUME NEW k \in Claims, NEW s \in Entities, NEW o \in Entities \cup {None},
               NEW sm \in Mentions \cup {None}, NEW om \in Mentions \cup {None},
               RecordClaim(k, s, sm, o, om)
        PROVE  OpensRows
    BY <2>1 DEF RecordClaim, OpensRows
  <2>2. ASSUME NEW k \in Claims, RetractClaim(k)
        PROVE  KeepsRows
    BY <2>2 DEF RetractClaim, KeepsRows
  <2>3. QED
    BY <1>2, <2>1, <2>2 DEF Record
<1>3. ASSUME NEW parent \in 0..MaxRevision, Adjudicate(parent)
      PROVE  MovesRows \/ KeepsRows
  <2>1. ASSUME NEW x \in Mentions, NEW y \in Mentions, NEW c \in Candidates \cup {None},
               ConfirmMatch(parent, x, y, c)
        PROVE  MovesRows
    BY <2>1 DEF ConfirmMatch, OpenDecision, MovesRows, MentionsOf
  <2>2. ASSUME NEW x \in Mentions, NEW y \in Mentions, NEW c \in Candidates \cup {None},
               RejectMatch(parent, x, y, c) \/ MarkUnresolved(parent, x, y, c)
        PROVE  KeepsRows
    BY <2>2 DEF RejectMatch, MarkUnresolved, OpenDecision, KeepsRows
  <2>3. ASSUME NEW e \in entities, NEW ms \in SUBSET Mentions, NEW target \in Entities,
               SplitEntity(parent, e, ms, target)
        PROVE  MovesRows
    BY <2>3 DEF SplitEntity, OpenDecision, MovesRows
  <2>4. QED
    BY <1>3, <2>1, <2>2, <2>3 DEF Adjudicate
<1>4. QED
  BY <1>1, <1>2, <1>3 DEF Next
-----------------------------------------------------------------------------
\* The membership table and the head have their types, and no row names a
\* revision that does not exist yet.
Rows ==
  /\ head \in 0..MaxRevision
  /\ memberships \in SUBSET Membership
  /\ \A row \in memberships :
       /\ row.opened <= head
       /\ row.closed <= head
       /\ row.closed # Open => row.opened < row.closed

\* The three parts of Moved, and the two of a late attachment, row by row.
LEMMA MovedRow ==
  ASSUME Rows, NEW ms \in SUBSET Mentions, NEW target \in Entities,
         NEW row \in Moved(ms, target, head + 1)
  PROVE  \/ row \in memberships /\ row \notin Leaving(ms, target)
         \/ \E x \in Leaving(ms, target) :
              \/ row = [mention |-> x.mention, entity |-> x.entity,
                        opened |-> x.opened, closed |-> head + 1]
              \/ row = [mention |-> x.mention, entity |-> target,
                        opened |-> head + 1, closed |-> Open]
<1>1. CASE row \in memberships \ Leaving(ms, target)
  BY <1>1
<1>2. ASSUME NEW x \in Leaving(ms, target), row = [x EXCEPT !.closed = head + 1]
      PROVE  row = [mention |-> x.mention, entity |-> x.entity,
                    opened |-> x.opened, closed |-> head + 1]
  BY <1>2 DEF Rows, Leaving, Active, Membership
<1>3. QED
  BY <1>1, <1>2 DEF Moved

\* Every row of Moved, and what Moved keeps.
LEMMA MovedHas ==
  ASSUME Rows, NEW ms \in SUBSET Mentions, NEW target \in Entities
  PROVE  /\ memberships \ Leaving(ms, target) \subseteq Moved(ms, target, head + 1)
         /\ \A x \in Leaving(ms, target) :
              /\ [mention |-> x.mention, entity |-> x.entity, opened |-> x.opened,
                  closed |-> head + 1] \in Moved(ms, target, head + 1)
              /\ [mention |-> x.mention, entity |-> target, opened |-> head + 1,
                  closed |-> Open] \in Moved(ms, target, head + 1)
<1>1. memberships \ Leaving(ms, target) \subseteq Moved(ms, target, head + 1)
  BY DEF Moved
<1>2. ASSUME NEW x \in Leaving(ms, target)
      PROVE  /\ [mention |-> x.mention, entity |-> x.entity, opened |-> x.opened,
                 closed |-> head + 1] \in Moved(ms, target, head + 1)
             /\ [mention |-> x.mention, entity |-> target, opened |-> head + 1,
                 closed |-> Open] \in Moved(ms, target, head + 1)
  <2>1. x = [mention |-> x.mention, entity |-> x.entity, opened |-> x.opened,
             closed |-> Open]
    BY DEF Rows, Leaving, Active, Membership
  <2>2. [x EXCEPT !.closed = head + 1]
          = [mention |-> x.mention, entity |-> x.entity, opened |-> x.opened,
             closed |-> head + 1]
    BY <2>1
  <2>3. QED
    BY <2>2 DEF Moved
<1>3. QED
  BY <1>1, <1>2

\* A row that a late attachment adds: the mention had no active row.
LEMMA OpeningRow ==
  ASSUME NEW e, NEW m, NEW row \in Opening(e, m)
  PROVE  /\ m # None /\ ~Resolved(m)
         /\ row = [mention |-> m, entity |-> e, opened |-> head, closed |-> Open]
BY DEF Opening

\* The table stays well formed.
LEMMA RowsStep ==
  ASSUME Rows, MovesRows \/ OpensRows \/ KeepsRows
  PROVE  Rows'
<1>1. CASE MovesRows
  <2>1. PICK ms \in SUBSET Mentions, target \in Entities :
          memberships' = Moved(ms, target, head + 1)
    BY <1>1 DEF MovesRows
  <2>2. head' = head + 1 /\ head' \in 0..MaxRevision
    BY <1>1, LedgerAssumption DEF MovesRows, Rows, LedgerAssumption
  <2>3. ASSUME NEW row \in memberships'
        PROVE  /\ row \in Membership /\ row.opened <= head' /\ row.closed <= head'
               /\ row.closed # Open => row.opened < row.closed
    <3>1. CASE row \in memberships
      BY <3>1, <2>2 DEF Rows, Membership
    <3>2. ASSUME NEW x \in Leaving(ms, target),
                 \/ row = [mention |-> x.mention, entity |-> x.entity,
                           opened |-> x.opened, closed |-> head + 1]
                 \/ row = [mention |-> x.mention, entity |-> target,
                           opened |-> head + 1, closed |-> Open]
          PROVE  /\ row \in Membership /\ row.opened <= head' /\ row.closed <= head'
                 /\ row.closed # Open => row.opened < row.closed
      <4>1. x \in Membership /\ x.opened <= head
        BY DEF Leaving, Active, Rows
      <4>2. /\ x.mention \in Mentions /\ x.entity \in Entities
            /\ x.opened \in 0..MaxRevision /\ x.opened < head + 1
            /\ head + 1 \in 0..MaxRevision /\ 0 \in 0..MaxRevision
        BY <4>1, <2>2, LedgerAssumption DEF Membership, Rows, LedgerAssumption
      <4>3. CASE row = [mention |-> x.mention, entity |-> x.entity,
                        opened |-> x.opened, closed |-> head + 1]
        BY <4>2, <4>3, <2>2 DEF Membership
      <4>4. CASE row = [mention |-> x.mention, entity |-> target,
                        opened |-> head + 1, closed |-> Open]
        BY <4>2, <4>4, <2>2 DEF Membership, Open
      <4>5. QED
        BY <3>2, <4>3, <4>4
    <3>3. QED
      BY <2>1, <2>3, <3>1, <3>2, MovedRow
  <2>4. QED
    BY <2>2, <2>3 DEF Rows
<1>2. CASE OpensRows
  <2>1. PICK s \in Entities, o \in Entities \cup {None}, sm \in Mentions \cup {None},
             om \in Mentions \cup {None} :
          /\ o = None => om = None
          /\ memberships' = memberships \cup Opening(s, sm) \cup Opening(o, om)
    BY <1>2 DEF OpensRows
  <2>2. head' = head
    BY <1>2 DEF OpensRows
  <2>3. ASSUME NEW row \in Opening(s, sm) \cup Opening(o, om)
        PROVE  /\ row \in Membership /\ row.opened <= head /\ row.closed <= head
               /\ row.closed = Open
    <3>1. PICK e \in Entities, m \in Mentions :
            row = [mention |-> m, entity |-> e, opened |-> head, closed |-> Open]
      <4>1. CASE row \in Opening(s, sm)
        BY <4>1, OpeningRow
      <4>2. CASE row \in Opening(o, om)
        BY <2>1, <4>2, OpeningRow
      <4>3. QED
        BY <2>3, <4>1, <4>2
    <3>2. head \in 0..MaxRevision /\ 0 \in 0..MaxRevision /\ 0 <= head
      BY LedgerAssumption DEF Rows, LedgerAssumption
    <3>3. QED
      BY <3>1, <3>2 DEF Membership, Open
  <2>4. QED
    BY <2>1, <2>2, <2>3 DEF Rows
<1>3. CASE KeepsRows
  <2>1. head' \in 0..MaxRevision /\ head <= head'
    BY <1>3, LedgerAssumption DEF KeepsRows, Rows, LedgerAssumption
  <2>2. ASSUME NEW row \in memberships
        PROVE  row.opened <= head' /\ row.closed <= head'
    BY <2>1, LedgerAssumption DEF Rows, Membership, LedgerAssumption
  <2>3. QED
    BY <1>3, <2>1, <2>2 DEF KeepsRows, Rows
<1>4. QED
  BY <1>1, <1>2, <1>3
-----------------------------------------------------------------------------
\* A mention with a row keeps exactly one active row.
LEMMA OneEntityStep ==
  ASSUME Rows, OneEntityPerMention, MovesRows \/ OpensRows \/ KeepsRows
  PROVE  OneEntityPerMention'
<1>1. CASE MovesRows
  <2>1. PICK ms \in SUBSET Mentions, target \in Entities :
          memberships' = Moved(ms, target, head + 1)
    BY <1>1 DEF MovesRows
  <2>2. head + 1 # Open
    BY LedgerAssumption DEF Rows, Open, LedgerAssumption
  <2> DEFINE Reopened(x) == [mention |-> x.mention, entity |-> target,
                             opened |-> head + 1, closed |-> Open]
  <2>3. ASSUME NEW y \in Active'
        PROVE  \/ y \in Active /\ y \notin Leaving(ms, target)
               \/ \E x \in Leaving(ms, target) : y = Reopened(x)
    <3>1. y \in Moved(ms, target, head + 1) /\ y.closed = Open
      BY <2>1, <2>3 DEF Active
    <3>2. QED
      BY <3>1, <2>2, MovedRow DEF Active
  <2>4. SUFFICES ASSUME NEW row \in memberships'
                 PROVE  \E x \in Active' :
                          /\ x.mention = row.mention
                          /\ \A y \in Active' : y.mention = row.mention => y = x
    BY DEF OneEntityPerMention
  <2>5. PICK old \in memberships : old.mention = row.mention
    <3>1. CASE row \in memberships
      BY <3>1
    <3>2. ASSUME NEW x \in Leaving(ms, target), row.mention = x.mention
          PROVE  \E z \in memberships : z.mention = row.mention
      BY <3>2 DEF Leaving, Active
    <3>3. QED
      BY <2>1, <2>4, <3>1, <3>2, MovedRow
  <2>6. PICK x \in Active : /\ x.mention = row.mention
                            /\ \A y \in Active : y.mention = row.mention => y = x
    BY <2>5 DEF OneEntityPerMention
  <2>7. CASE x \in Leaving(ms, target)
    <3>1. Reopened(x) \in Active'
      BY <2>1, <2>7, MovedHas DEF Active
    <3>2. ASSUME NEW y \in Active', y.mention = row.mention
          PROVE  y = Reopened(x)
      <4>1. ASSUME y \in Active, y \notin Leaving(ms, target)
            PROVE  FALSE
        BY <4>1, <2>6, <2>7, <3>2
      <4>2. ASSUME NEW z \in Leaving(ms, target), y = Reopened(z)
            PROVE  z = x
        BY <4>2, <2>6, <3>2 DEF Leaving
      <4>3. QED
        BY <2>3, <4>1, <4>2
    <3>3. QED
      BY <3>1, <3>2, <2>6
  <2>8. CASE x \notin Leaving(ms, target)
    <3>1. x \in Active'
      BY <2>1, <2>8, MovedHas DEF Active
    <3>2. ASSUME NEW y \in Active', y.mention = row.mention
          PROVE  y = x
      <4>1. ASSUME NEW z \in Leaving(ms, target), y = Reopened(z)
            PROVE  FALSE
        BY <4>1, <2>6, <2>8, <3>2 DEF Leaving
      <4>2. QED
        BY <2>3, <2>6, <3>2, <4>1
    <3>3. QED
      BY <3>1, <3>2, <2>6
  <2>9. QED
    BY <2>7, <2>8
<1>2. CASE OpensRows
  <2>1. PICK s \in Entities, o \in Entities \cup {None}, sm \in Mentions \cup {None},
             om \in Mentions \cup {None} :
          /\ sm = om => sm = None
          /\ memberships' = memberships \cup Opening(s, sm) \cup Opening(o, om)
    BY <1>2 DEF OpensRows
  <2> DEFINE New == Opening(s, sm) \cup Opening(o, om)
  <2>2. ASSUME NEW x \in New, NEW y \in New, x.mention = y.mention
        PROVE  x = y
    <3>1. ASSUME NEW u \in Opening(s, sm), NEW v \in Opening(o, om)
          PROVE  u.mention # v.mention
      BY <2>1, <3>1, OpeningRow
    <3>2. ASSUME NEW e, NEW m, NEW u \in Opening(e, m), NEW v \in Opening(e, m)
          PROVE  u = v
      BY <3>2, OpeningRow
    <3>3. QED
      BY <2>2, <3>1, <3>2
  <2>3. ASSUME NEW x \in New
        PROVE  x.closed = Open /\ \A y \in Active : y.mention # x.mention
    BY <2>3, OpeningRow DEF Resolved
  <2>4. Active' = Active \cup New
    BY <2>1, <2>3 DEF Active
  <2>5. SUFFICES ASSUME NEW row \in memberships'
                 PROVE  \E x \in Active' :
                          /\ x.mention = row.mention
                          /\ \A y \in Active' : y.mention = row.mention => y = x
    BY DEF OneEntityPerMention
  <2>6. CASE row \in New
    BY <2>2, <2>3, <2>4, <2>6
  <2>7. CASE row \in memberships
    <3>1. PICK x \in Active : /\ x.mention = row.mention
                              /\ \A y \in Active : y.mention = row.mention => y = x
      BY <2>7 DEF OneEntityPerMention
    <3>2. QED
      BY <3>1, <2>3, <2>4
  <2>8. QED
    BY <2>1, <2>5, <2>6, <2>7
<1>3. CASE KeepsRows
  BY <1>3 DEF KeepsRows, OneEntityPerMention, Active
<1>4. QED
  BY <1>1, <1>2, <1>3

-----------------------------------------------------------------------------
\* What a step leaves of the membership set at a revision: everything, when the
\* revision is past or becomes past by this decision, ...
LEMMA HeldFrozen ==
  ASSUME Rows, MovesRows \/ OpensRows \/ KeepsRows,
         NEW rev \in Nat, rev < head \/ (rev = head /\ ~OpensRows)
  PROVE  HeldAt(rev)' = HeldAt(rev)
<1> DEFINE In(row) == row.opened <= rev /\ (row.closed = Open \/ row.closed > rev)
<1>0. head \in Nat /\ rev <= head
  BY LedgerAssumption DEF Rows, LedgerAssumption
<1>1. CASE MovesRows
  <2>1. PICK ms \in SUBSET Mentions, target \in Entities :
          memberships' = Moved(ms, target, head + 1)
    BY <1>1 DEF MovesRows
  <2>2. ASSUME NEW row \in memberships', In(row)
        PROVE  \E x \in memberships : In(x) /\ x.mention = row.mention /\ x.entity = row.entity
    <3>1. ASSUME NEW x \in Leaving(ms, target),
                 row = [mention |-> x.mention, entity |-> x.entity,
                        opened |-> x.opened, closed |-> head + 1]
          PROVE  \E z \in memberships : In(z) /\ z.mention = row.mention /\ z.entity = row.entity
      BY <2>2, <3>1 DEF Leaving, Active
    <3>2. ASSUME NEW x \in Leaving(ms, target),
                 row = [mention |-> x.mention, entity |-> target,
                        opened |-> head + 1, closed |-> Open]
          PROVE  FALSE
      BY <2>2, <3>2, <1>0
    <3>3. QED
      BY <2>1, <2>2, <3>1, <3>2, MovedRow
  <2>3. ASSUME NEW x \in memberships, In(x)
        PROVE  \E row \in memberships' : In(row) /\ x.mention = row.mention /\ x.entity = row.entity
    <3>1. CASE x \in Leaving(ms, target)
      <4> DEFINE z == [mention |-> x.mention, entity |-> x.entity,
                       opened |-> x.opened, closed |-> head + 1]
      <4>1. z \in memberships'
        BY <2>1, <3>1, MovedHas
      <4>2. In(z)
        BY <2>3, <1>0
      <4>3. QED
        BY <4>1, <4>2
    <3>2. CASE x \notin Leaving(ms, target)
      BY <2>1, <2>3, <3>2, MovedHas
    <3>3. QED
      BY <3>1, <3>2
  <2>4. QED
    BY <2>2, <2>3 DEF HeldAt
<1>2. CASE OpensRows
  <2>1. PICK s \in Entities, o \in Entities \cup {None}, sm \in Mentions \cup {None},
             om \in Mentions \cup {None} :
          memberships' = memberships \cup Opening(s, sm) \cup Opening(o, om)
    BY <1>2 DEF OpensRows
  <2>2. ASSUME NEW row \in Opening(s, sm) \cup Opening(o, om)
        PROVE  ~In(row)
    BY <1>0, <1>2, <2>2, OpeningRow
  <2>3. QED
    BY <2>1, <2>2 DEF HeldAt
<1>3. CASE KeepsRows
  BY <1>3 DEF KeepsRows, HeldAt
<1>4. QED
  BY <1>1, <1>2, <1>3

\* ... and nothing is taken from the one at the head.
LEMMA HeldGrows ==
  ASSUME Rows, MovesRows \/ OpensRows \/ KeepsRows, NEW rev \in Nat, rev <= head
  PROVE  HeldAt(rev) \subseteq HeldAt(rev)'
<1>1. CASE OpensRows
  BY <1>1 DEF OpensRows, HeldAt
<1>2. CASE ~OpensRows
  <2>1. rev < head \/ rev = head
    BY LedgerAssumption DEF Rows, LedgerAssumption
  <2>2. QED
    BY <1>2, <2>1, HeldFrozen
<1>3. QED
  BY <1>1, <1>2
-----------------------------------------------------------------------------
\* A claim and a decision name revisions that exist, a decision an earlier one.
Stamps ==
  /\ \A k \in claims : k.revision \in 0..head
  /\ \A d \in decisions : d.revision \in 1..head /\ d.parent \in 0..(d.revision - 1)

IInv == TypeOK /\ Rows /\ Stamps /\ OneEntityPerMention

\* The baseline is a sound ledger.
LEMMA InitInv == Init => IInv
<1> SUFFICES ASSUME Init PROVE IInv
  OBVIOUS
<1> USE LedgerAssumption DEF LedgerAssumption, Init
<1>1. ASSUME NEW m \in DOMAIN Baseline
      PROVE  [mention |-> m, entity |-> Baseline[m], opened |-> 0, closed |-> Open]
               \in Membership /\ Baseline[m] \in BaselineEntities
  BY <1>1 DEF Membership, Open
<1>2. \A row \in memberships :
        \E m \in DOMAIN Baseline :
          row = [mention |-> m, entity |-> Baseline[m], opened |-> 0, closed |-> Open]
  OBVIOUS
<1>3. Rows
  BY <1>1, <1>2 DEF Rows, Open
<1>4. TypeOK
  <2>1. DOMAIN canonical \subseteq entities
    BY DEF NoLineage
  <2>2. \A row \in memberships : row.entity \in entities
    BY <1>1, <1>2
  <2>3. QED
    BY <1>3, <2>1, <2>2 DEF TypeOK, Rows
<1>5. Stamps
  BY DEF Stamps
<1>6. OneEntityPerMention
  BY <1>2 DEF OneEntityPerMention, Active, Open
<1>7. QED
  BY <1>3, <1>4, <1>5, <1>6 DEF IInv

\* One decision more, and the head it results in.
LEMMA OpenDecisionStep ==
  ASSUME IInv, NEW kind \in {"confirm", "reject", "split", "unresolved"},
         NEW parent \in 0..MaxRevision, NEW inputs \in SUBSET Mentions,
         OpenDecision(kind, parent, inputs)
  PROVE  /\ decisions' \in SUBSET Decision
         /\ \A d \in decisions' : d.revision \in 1..head' /\ d.parent \in 0..(d.revision - 1)
         /\ head' \in Nat /\ head <= head'
<1> DEFINE new == [kind |-> kind, parent |-> parent, inputs |-> inputs,
                   revision |-> head + 1]
<1>1. head \in Nat /\ head < MaxRevision /\ head' = head + 1 /\ parent \in 0..head
  BY LedgerAssumption DEF IInv, TypeOK, OpenDecision, LedgerAssumption
<1>2. decisions' = decisions \cup {new}
  BY DEF OpenDecision
<1>3. new \in Decision
  BY <1>1, LedgerAssumption DEF Decision, LedgerAssumption
<1>4. ASSUME NEW d \in decisions
      PROVE  d.revision \in 1..head' /\ d.parent \in 0..(d.revision - 1)
  BY <1>1 DEF IInv, Stamps
<1>5. new.revision \in 1..head' /\ new.parent \in 0..(new.revision - 1)
  BY <1>1
<1>6. QED
  BY <1>1, <1>2, <1>3, <1>4, <1>5 DEF IInv, TypeOK

\* Claims written before stay stamped with revisions that exist.
LEMMA ClaimsStay ==
  ASSUME IInv, claims' = claims, head' \in Nat, head <= head'
  PROVE  \A k \in claims' : k.revision \in 0..head'
BY LedgerAssumption DEF IInv, Stamps, TypeOK, LedgerAssumption

\* A candidate is settled as one of the dispositions.
LEMMA SettleStep ==
  ASSUME IInv, NEW c \in Candidates \cup {None},
         NEW to \in {"confirmed", "rejected", "unresolved"}, SettleCandidate(c, to)
  PROVE  candidates' \in [Candidates -> {"open", "confirmed", "rejected", "unresolved"}]
BY LedgerAssumption DEF SettleCandidate, IInv, TypeOK, LedgerAssumption

\* The map and the tombstones name entities that have a row.
LEMMA RebuildStep ==
  ASSUME RebuildCanonicalMap
  PROVE  DOMAIN canonical' \subseteq entities' /\ tombstoned' \subseteq entities'
BY DEF RebuildCanonicalMap, MapOf, OrphansOf

\* Moved rows name entities that have a row.
LEMMA MovedEntities ==
  ASSUME IInv, NEW ms \in SUBSET Mentions, NEW target \in Entities,
         NEW ents, entities \subseteq ents, target \in ents
  PROVE  \A row \in Moved(ms, target, head + 1) : row.entity \in ents
<1> SUFFICES ASSUME NEW row \in Moved(ms, target, head + 1) PROVE row.entity \in ents
  OBVIOUS
<1>1. CASE row \in memberships
  BY <1>1 DEF IInv, TypeOK
<1>2. ASSUME NEW x \in Leaving(ms, target), row.entity = x.entity \/ row.entity = target
      PROVE  row.entity \in ents
  BY <1>2 DEF IInv, TypeOK, Leaving, Active
<1>3. QED
  BY <1>1, <1>2, MovedRow DEF IInv

\* TypeOK and Stamps, without what Rows already says.
Others ==
  /\ entities \in SUBSET Entities
  /\ tombstoned \in SUBSET entities
  /\ decisions \in SUBSET Decision
  /\ candidates \in [Candidates -> {"open", "confirmed", "rejected", "unresolved"}]
  /\ DOMAIN canonical \subseteq entities
  /\ claims \in SUBSET ClaimRow
  /\ \A row \in memberships : row.entity \in entities
  /\ \A k \in claims : {k.subject, k.object} \ {None} \subseteq entities
  /\ Stamps

\* What a confirm does to everything but the membership rows.
LEMMA ConfirmOthers ==
  ASSUME IInv, NEW parent \in 0..MaxRevision, NEW x \in Mentions, NEW y \in Mentions,
         NEW c \in Candidates \cup {None}, ConfirmMatch(parent, x, y, c)
  PROVE  Others'
<1>1. OpenDecision("confirm", parent, {x, y}) /\ SettleCandidate(c, "confirmed")
        /\ RebuildCanonicalMap /\ entities' = entities /\ claims' = claims
  BY DEF ConfirmMatch
<1>2. \A row \in memberships' : row.entity \in entities'
  <2>1. PICK survivor \in Entities, absorbed \in Entities :
          Belongs(x, survivor) /\ memberships' = Moved(MentionsOf(absorbed), survivor, head + 1)
    BY DEF ConfirmMatch
  <2>2. survivor \in entities /\ MentionsOf(absorbed) \in SUBSET Mentions
    BY <2>1 DEF Belongs, Active, IInv, TypeOK, MentionsOf
  <2>3. QED
    BY <1>1, <2>1, <2>2, MovedEntities
<1>3. QED
  BY <1>1, <1>2, OpenDecisionStep, ClaimsStay, SettleStep, RebuildStep
     DEF IInv, TypeOK, Others, Stamps

\* What a split does to everything but the membership rows.
LEMMA SplitOthers ==
  ASSUME IInv, NEW parent \in 0..MaxRevision, NEW e \in entities,
         NEW ms \in SUBSET Mentions, NEW target \in Entities,
         SplitEntity(parent, e, ms, target)
  PROVE  Others'
<1>1. OpenDecision("split", parent, ms) /\ RebuildCanonicalMap
        /\ entities' = entities \cup {target} /\ claims' = claims /\ candidates' = candidates
        /\ memberships' = Moved(ms, target, head + 1)
  BY DEF SplitEntity
<1>2. \A row \in memberships' : row.entity \in entities'
  BY <1>1, MovedEntities
<1>3. QED
  BY <1>1, <1>2, OpenDecisionStep, ClaimsStay, RebuildStep
     DEF IInv, TypeOK, Others, Stamps

\* What the decisions that move nothing do.
LEMMA RejectOrUnresolvedOthers ==
  ASSUME IInv, NEW parent \in 0..MaxRevision, NEW x \in Mentions, NEW y \in Mentions,
         NEW c \in Candidates \cup {None},
         RejectMatch(parent, x, y, c) \/ MarkUnresolved(parent, x, y, c)
  PROVE  Others'
<1>1. /\ \/ OpenDecision("reject", parent, {x, y}) /\ SettleCandidate(c, "rejected")
         \/ OpenDecision("unresolved", parent, {x, y}) /\ SettleCandidate(c, "unresolved")
      /\ UNCHANGED <<entities, tombstoned, memberships, canonical, claims>>
  BY DEF RejectMatch, MarkUnresolved
<1>2. /\ decisions' \in SUBSET Decision
      /\ \A d \in decisions' : d.revision \in 1..head' /\ d.parent \in 0..(d.revision - 1)
      /\ head' \in Nat /\ head <= head'
      /\ candidates' \in [Candidates -> {"open", "confirmed", "rejected", "unresolved"}]
  BY <1>1, OpenDecisionStep, SettleStep
<1>3. QED
  BY <1>1, <1>2, ClaimsStay DEF IInv, TypeOK, Others, Stamps

\* What a new claim does to everything but the membership rows.
LEMMA RecordOthers ==
  ASSUME IInv, NEW k \in Claims, NEW s \in Entities, NEW o \in Entities \cup {None},
         NEW sm \in Mentions \cup {None}, NEW om \in Mentions \cup {None},
         RecordClaim(k, s, sm, o, om)
  PROVE  Others'
<1> DEFINE new == [id |-> k, subject |-> s, subjectMention |-> sm, object |-> o,
                   objectMention |-> om, revision |-> head, retracted |-> FALSE]
<1>1. /\ entities' = entities \cup ({s, o} \ {None}) /\ claims' = claims \cup {new}
      /\ memberships' = memberships \cup Opening(s, sm) \cup Opening(o, om)
      /\ o = None => om = None
      /\ UNCHANGED <<tombstoned, head, decisions, candidates, canonical>>
  BY DEF RecordClaim
<1>2. new \in ClaimRow /\ head \in 0..head /\ s # None
  BY LedgerAssumption DEF ClaimRow, IInv, TypeOK, LedgerAssumption
<1>3. \A row \in memberships' : row.entity \in entities'
  BY <1>1, <1>2, OpeningRow DEF IInv, TypeOK
<1>4. \A j \in claims' : /\ {j.subject, j.object} \ {None} \subseteq entities'
                         /\ j.revision \in 0..head
  <2>1. ASSUME NEW j \in claims
        PROVE  {j.subject, j.object} \ {None} \subseteq entities' /\ j.revision \in 0..head
    BY <1>1 DEF IInv, TypeOK, Stamps
  <2>2. {new.subject, new.object} \ {None} \subseteq entities' /\ new.revision \in 0..head
    BY <1>1, <1>2
  <2>3. QED
    BY <1>1, <2>1, <2>2
<1>5. entities' \in SUBSET Entities /\ entities \subseteq entities'
  BY <1>1 DEF IInv, TypeOK
<1>6. claims' \in SUBSET ClaimRow
  BY <1>1, <1>2 DEF IInv, TypeOK
<1>7. QED
  BY <1>1, <1>3, <1>4, <1>5, <1>6 DEF IInv, TypeOK, Others, Stamps

\* What a retraction does.
LEMMA RetractOthers ==
  ASSUME IInv, NEW k \in Claims, RetractClaim(k)
  PROVE  Others'
<1>1. PICK x \in claims : claims' = (claims \ {x}) \cup {[x EXCEPT !.retracted = TRUE]}
  BY DEF RetractClaim
<1> DEFINE marked == [x EXCEPT !.retracted = TRUE]
<1>2. /\ marked \in ClaimRow /\ marked.subject = x.subject
      /\ marked.object = x.object /\ marked.revision = x.revision
  BY DEF IInv, TypeOK, ClaimRow
<1>3. claims' \in SUBSET ClaimRow
  BY <1>1, <1>2 DEF IInv, TypeOK
<1>4. /\ \A j \in claims' : {j.subject, j.object} \ {None} \subseteq entities
      /\ \A j \in claims' : j.revision \in 0..head
  BY <1>1, <1>2 DEF IInv, TypeOK, Stamps
<1>5. QED
  BY <1>3, <1>4 DEF RetractClaim, IInv, TypeOK, Others, Stamps
-----------------------------------------------------------------------------
\* The invariant is inductive.
LEMMA StepInv == IInv /\ [Next]_vars => IInv'
<1> SUFFICES ASSUME IInv, [Next]_vars PROVE IInv'
  OBVIOUS
<1>1. MovesRows \/ OpensRows \/ KeepsRows
  BY StepOnRows, LedgerAssumption DEF IInv, TypeOK, LedgerAssumption
<1>2. Rows' /\ OneEntityPerMention'
  BY <1>1, RowsStep, OneEntityStep DEF IInv
<1>3. Others'
  <2>1. CASE UNCHANGED vars
    BY <2>1 DEF vars, IInv, TypeOK, Others, Stamps
  <2>2. CASE Record
    BY <2>2, RecordOthers, RetractOthers DEF Record
  <2>3. ASSUME NEW parent \in 0..MaxRevision, Adjudicate(parent)
        PROVE  Others'
    BY <2>3, ConfirmOthers, RejectOrUnresolvedOthers, SplitOthers DEF Adjudicate
  <2>4. QED
    BY <2>1, <2>2, <2>3 DEF Next
<1>4. QED
  BY <1>2, <1>3 DEF IInv, TypeOK, Rows, Others

\* The strengthened invariant holds in every reachable state, for all constants.
THEOREM InvariantHolds == Spec => []IInv
BY InitInv, StepInv, PTL DEF Spec

\* The tables keep their types and their foreign keys, whatever is adjudicated or
\* recorded.
THEOREM TypeCorrect == Spec => []TypeOK
BY InvariantHolds, PTL DEF IInv

\* No mention that was ever given to an entity ends up with two entities or none.
THEOREM OneEntity == Spec => []OneEntityPerMention
BY InvariantHolds, PTL DEF IInv

\* What identity meant at a past revision is never changed.
THEOREM PastFrozen == Spec => PastIsFrozen
<1>1. IInv /\ [Next]_vars
        => [\A rev \in 0..MaxRevision : rev < head => HeldAt(rev)' = HeldAt(rev)]_vars
  <2> SUFFICES ASSUME IInv, [Next]_vars, NEW rev \in 0..MaxRevision, rev < head
               PROVE  HeldAt(rev)' = HeldAt(rev)
    OBVIOUS
  <2>1. MovesRows \/ OpensRows \/ KeepsRows
    BY StepOnRows, LedgerAssumption DEF IInv, TypeOK, LedgerAssumption
  <2>2. QED
    BY <2>1, HeldFrozen DEF IInv
<1>2. QED
  BY <1>1, InvariantHolds, PTL DEF Spec, PastIsFrozen

-----------------------------------------------------------------------------
\* No step takes from a claim what its anchors were checked against.
LEMMA AnchorsStep ==
  IInv /\ AnchorsHeldWhenWritten /\ [Next]_vars => AnchorsHeldWhenWritten'
<1> SUFFICES ASSUME IInv, AnchorsHeldWhenWritten, [Next]_vars
             PROVE  AnchorsHeldWhenWritten'
  OBVIOUS
<1>1. MovesRows \/ OpensRows \/ KeepsRows
  BY StepOnRows, LedgerAssumption DEF IInv, TypeOK, LedgerAssumption
<1>2. ASSUME NEW k \in claims
      PROVE  /\ k.subjectMention # None =>
                  <<k.subjectMention, k.subject>> \in HeldAt(k.revision)'
             /\ k.objectMention # None =>
                  <<k.objectMention, k.object>> \in HeldAt(k.revision)'
  <2>1. k.revision \in Nat /\ k.revision <= head
    BY LedgerAssumption DEF IInv, Stamps, TypeOK, LedgerAssumption
  <2>2. HeldAt(k.revision) \subseteq HeldAt(k.revision)'
    BY <1>1, <2>1, HeldGrows DEF IInv
  <2>3. QED
    BY <2>2 DEF AnchorsHeldWhenWritten
<1>3. CASE claims' = claims
  BY <1>2, <1>3 DEF AnchorsHeldWhenWritten
<1>4. ASSUME NEW k \in Claims, NEW s \in Entities, NEW o \in Entities \cup {None},
             NEW sm \in Mentions \cup {None}, NEW om \in Mentions \cup {None},
             RecordClaim(k, s, sm, o, om)
      PROVE  AnchorsHeldWhenWritten'
  <2> DEFINE new == [id |-> k, subject |-> s, subjectMention |-> sm, object |-> o,
                     objectMention |-> om, revision |-> head, retracted |-> FALSE]
  <2>1. /\ claims' = claims \cup {new}
        /\ memberships' = memberships \cup Opening(s, sm) \cup Opening(o, om)
        /\ ArgumentOK(s, sm)
        /\ om # None => ArgumentOK(o, om)
        /\ head' = head
    BY <1>4 DEF RecordClaim
  <2>2. ASSUME NEW e, NEW m, ArgumentOK(e, m), m # None,
               Opening(e, m) \subseteq memberships'
        PROVE  <<m, e>> \in HeldAt(head)'
    <3>1. CASE Resolved(m)
      <4>1. PICK row \in memberships : row.closed = Open /\ row.mention = m /\ row.entity = e
        BY <2>2, <3>1 DEF ArgumentOK, Belongs, Active
      <4>2. row.opened <= head /\ row \in memberships'
        BY <2>1, <4>1 DEF IInv, Rows
      <4>3. QED
        BY <2>1, <4>1, <4>2 DEF HeldAt
    <3>2. CASE ~Resolved(m)
      <4> DEFINE row == [mention |-> m, entity |-> e, opened |-> head, closed |-> Open]
      <4>1. row \in memberships' /\ head <= head
        BY <2>2, <3>2, LedgerAssumption DEF Opening, IInv, TypeOK, LedgerAssumption
      <4>2. QED
        BY <2>1, <4>1 DEF HeldAt
    <3>3. QED
      BY <3>1, <3>2
  <2>3. /\ sm # None => <<sm, s>> \in HeldAt(head)'
        /\ om # None => <<om, o>> \in HeldAt(head)'
    BY <2>1, <2>2
  <2>4. ASSUME NEW j \in claims'
        PROVE  /\ j.subjectMention # None =>
                    <<j.subjectMention, j.subject>> \in HeldAt(j.revision)'
               /\ j.objectMention # None =>
                    <<j.objectMention, j.object>> \in HeldAt(j.revision)'
    <3>1. CASE j \in claims
      BY <1>2, <3>1
    <3>2. CASE j = new
      <4>1. /\ j.subjectMention = sm /\ j.subject = s
            /\ j.objectMention = om /\ j.object = o /\ j.revision = head
        BY <3>2
      <4>2. HeldAt(j.revision)' = HeldAt(head)'
        BY <2>1, <4>1 DEF HeldAt
      <4>3. QED
        BY <2>3, <4>1, <4>2
    <3>3. QED
      BY <2>1, <3>1, <3>2
  <2>5. QED
    BY <2>4 DEF AnchorsHeldWhenWritten
<1>5. ASSUME NEW k \in Claims, RetractClaim(k)
      PROVE  AnchorsHeldWhenWritten'
  <2>1. PICK x \in claims : claims' = (claims \ {x}) \cup {[x EXCEPT !.retracted = TRUE]}
    BY <1>5 DEF RetractClaim
  <2> DEFINE marked == [x EXCEPT !.retracted = TRUE]
  <2>2. /\ marked.subject = x.subject /\ marked.subjectMention = x.subjectMention
        /\ marked.object = x.object /\ marked.objectMention = x.objectMention
        /\ marked.revision = x.revision
    BY DEF IInv, TypeOK, ClaimRow
  <2>3. QED
    BY <1>2, <2>1, <2>2 DEF AnchorsHeldWhenWritten
<1>6. QED
  <2>1. CASE Record
    BY <2>1, <1>4, <1>5 DEF Record
  <2>2. ASSUME NEW parent \in 0..MaxRevision, Adjudicate(parent)
        PROVE  claims' = claims
    BY <2>2 DEF Adjudicate, ConfirmMatch, RejectMatch, MarkUnresolved, SplitEntity
  <2>3. CASE UNCHANGED vars
    BY <2>3, <1>3 DEF vars
  <2>4. QED
    BY <1>3, <2>1, <2>2, <2>3 DEF Next

\* An anchored claim agrees with the ledger at the revision it is stamped with.
THEOREM AnchorsHeld == Spec => []AnchorsHeldWhenWritten
<1>1. Init => AnchorsHeldWhenWritten
  BY DEF Init, AnchorsHeldWhenWritten
<1>2. QED
  BY <1>1, AnchorsStep, InvariantHolds, PTL DEF Spec

-----------------------------------------------------------------------------
\* A decision on ms at revision rev, computed at parent, found the entities of ms as
\* they were at parent.
OnEvidence(rev, parent, ms) ==
  \A m \in Mentions, e \in Entities :
    (\E x \in ms : <<x, e>> \in HeldAt(rev)) =>
      (<<m, e>> \in HeldAt(rev) <=> <<m, e>> \in HeldAt(parent))

\* DecidedOnCurrentEvidence, decision by decision.
LEMMA EvidenceOfEach ==
  DecidedOnCurrentEvidence <=>
    \A d \in decisions : d.kind \in {"confirm", "split"} =>
      OnEvidence(d.revision - 1, d.parent, d.inputs)
BY DEF DecidedOnCurrentEvidence, OnEvidence

\* The membership set at the head is the active rows.
LEMMA HeadIsActive ==
  ASSUME Rows, NEW m, NEW e
  PROVE  <<m, e>> \in HeldAt(head) <=> Belongs(m, e)
<1>1. \A row \in memberships :
        /\ row.opened <= head
        /\ (row.closed = Open \/ row.closed > head) <=> row.closed = Open
  BY LedgerAssumption DEF Rows, Membership, Open, LedgerAssumption
<1> QED
  BY <1>1 DEF HeldAt, Belongs, Active

\* What the scope check establishes: the scope's memberships at the parent revision
\* are those at the head.
LEMMA ScopeCheck ==
  ASSUME Rows, NEW parent \in 0..head, NEW scope, ScopeIsCurrent(parent, scope),
         NEW m, NEW e \in scope
  PROVE  <<m, e>> \in HeldAt(head) <=> <<m, e>> \in HeldAt(parent)
<1>1. ASSUME NEW row \in memberships, row.entity = e
      PROVE  /\ row.opened <= head /\ row.opened <= parent
             /\ (row.closed = Open \/ row.closed > head) <=>
                  (row.closed = Open \/ row.closed > parent)
  BY <1>1, LedgerAssumption DEF ScopeIsCurrent, Rows, Membership, Open, LedgerAssumption
<1> QED
  BY <1>1 DEF HeldAt

\* A decision that moves mentions opens its revision on a scope that is current.
LEMMA NewEvidence ==
  ASSUME IInv, NEW parent \in 0..MaxRevision, Adjudicate(parent),
         NEW d \in decisions' \ decisions, d.kind \in {"confirm", "split"}
  PROVE  /\ d.revision = head + 1 /\ d.parent = parent /\ parent \in 0..head
         /\ OnEvidence(head, parent, d.inputs)
         /\ MovesRows
<1>1. ASSUME NEW x \in Mentions, NEW y \in Mentions, NEW c \in Candidates \cup {None},
             ConfirmMatch(parent, x, y, c)
      PROVE  /\ d.revision = head + 1 /\ d.parent = parent /\ parent \in 0..head
             /\ OnEvidence(head, parent, d.inputs)
             /\ MovesRows
  <2>1. d = [kind |-> "confirm", parent |-> parent, inputs |-> {x, y}, revision |-> head + 1]
        /\ parent \in 0..head
    BY <1>1 DEF ConfirmMatch, OpenDecision
  <2>2. ScopeIsCurrent(parent, EntitiesOf({x, y}))
    BY <1>1 DEF ConfirmMatch
  <2>3. ASSUME NEW m \in Mentions, NEW e \in Entities,
               \E z \in {x, y} : <<z, e>> \in HeldAt(head)
        PROVE  <<m, e>> \in HeldAt(head) <=> <<m, e>> \in HeldAt(parent)
    <3>1. e \in EntitiesOf({x, y})
      BY <2>3, HeadIsActive DEF EntitiesOf, IInv
    <3> QED
      BY <2>1, <2>2, <3>1, ScopeCheck DEF IInv
  <2>4. MovesRows
    BY <1>1 DEF ConfirmMatch, OpenDecision, MovesRows, MentionsOf
  <2> QED
    BY <2>1, <2>3, <2>4 DEF OnEvidence
<1>2. ASSUME NEW f \in entities, NEW ms \in SUBSET Mentions, NEW target \in Entities,
             SplitEntity(parent, f, ms, target)
      PROVE  /\ d.revision = head + 1 /\ d.parent = parent /\ parent \in 0..head
             /\ OnEvidence(head, parent, d.inputs)
             /\ MovesRows
  <2>1. d = [kind |-> "split", parent |-> parent, inputs |-> ms, revision |-> head + 1]
        /\ parent \in 0..head
    BY <1>2 DEF SplitEntity, OpenDecision
  <2>2. ScopeIsCurrent(parent, {f}) /\ ms \subseteq MentionsOf(f)
    BY <1>2 DEF SplitEntity, MayLeave
  <2>3. ASSUME NEW m \in Mentions, NEW e \in Entities,
               \E z \in ms : <<z, e>> \in HeldAt(head)
        PROVE  <<m, e>> \in HeldAt(head) <=> <<m, e>> \in HeldAt(parent)
    <3>1. PICK z \in ms : Belongs(z, e)
      BY <2>3, HeadIsActive DEF IInv
    <3>2. Belongs(z, f)
      BY <2>2 DEF MentionsOf
    <3>3. e = f
      BY <3>1, <3>2 DEF Belongs, Active, IInv, OneEntityPerMention
    <3> QED
      BY <2>1, <2>2, <3>3, ScopeCheck DEF IInv
  <2>4. MovesRows
    BY <1>2 DEF SplitEntity, OpenDecision, MovesRows
  <2> QED
    BY <2>1, <2>3, <2>4 DEF OnEvidence
<1>3. ASSUME NEW x \in Mentions, NEW y \in Mentions, NEW c \in Candidates \cup {None},
             RejectMatch(parent, x, y, c) \/ MarkUnresolved(parent, x, y, c)
      PROVE  FALSE
  BY <1>3 DEF RejectMatch, MarkUnresolved, OpenDecision
<1> QED
  BY <1>1, <1>2, <1>3 DEF Adjudicate

\* A decision's evidence stays what it was.
LEMMA EvidenceKept ==
  ASSUME NEW rev \in Nat, NEW parent \in Nat, NEW ms, OnEvidence(rev, parent, ms),
         HeldAt(rev)' = HeldAt(rev), HeldAt(parent)' = HeldAt(parent)
  PROVE  OnEvidence(rev, parent, ms)'
BY DEF OnEvidence

\* Every step leaves every decision on evidence that was current.
LEMMA EvidenceStep ==
  IInv /\ DecidedOnCurrentEvidence /\ [Next]_vars => DecidedOnCurrentEvidence'
<1> SUFFICES ASSUME IInv, DecidedOnCurrentEvidence, [Next]_vars,
                    NEW d \in decisions', d.kind \in {"confirm", "split"}
             PROVE  OnEvidence(d.revision - 1, d.parent, d.inputs)'
  BY EvidenceOfEach DEF DecidedOnCurrentEvidence, OnEvidence
<1>1. MovesRows \/ OpensRows \/ KeepsRows
  BY StepOnRows, LedgerAssumption DEF IInv, TypeOK, LedgerAssumption
<1>2. CASE d \in decisions
  <2>1. /\ d.revision - 1 \in Nat /\ d.revision - 1 < head
        /\ d.parent \in Nat /\ d.parent < head
    BY <1>2, LedgerAssumption DEF IInv, Stamps, TypeOK, LedgerAssumption
  <2>2. OnEvidence(d.revision - 1, d.parent, d.inputs)
    BY <1>2, EvidenceOfEach
  <2>3. HeldAt(d.revision - 1)' = HeldAt(d.revision - 1)
    BY <1>1, <2>1, HeldFrozen DEF IInv
  <2>4. HeldAt(d.parent)' = HeldAt(d.parent)
    BY <1>1, <2>1, HeldFrozen DEF IInv
  <2> QED
    BY <2>1, <2>2, <2>3, <2>4, EvidenceKept
<1>3. CASE d \notin decisions
  <2>1. PICK parent \in 0..MaxRevision : Adjudicate(parent)
    <3>1. decisions' # decisions
      BY <1>3
    <3> QED
      BY <3>1 DEF Next, vars, Record, RecordClaim, RetractClaim
  <2>2. /\ d.revision = head + 1 /\ d.parent \in 0..head
        /\ OnEvidence(head, d.parent, d.inputs)
        /\ MovesRows
    BY <1>3, <2>1, NewEvidence
  <2>3. head \in Nat /\ d.revision - 1 = head /\ d.revision - 1 \in Nat /\ d.parent \in Nat
    BY <2>2, LedgerAssumption DEF IInv, TypeOK, LedgerAssumption
  <2>4. ~OpensRows
    BY <2>2, <2>3 DEF MovesRows, OpensRows
  <2>5. HeldAt(d.revision - 1)' = HeldAt(d.revision - 1)
    BY <1>1, <2>3, <2>4, HeldFrozen DEF IInv
  <2>6. HeldAt(d.parent)' = HeldAt(d.parent)
    <3>1. d.parent < head \/ d.parent = head
      BY <2>2, <2>3
    <3> QED
      BY <1>1, <2>3, <2>4, <3>1, HeldFrozen DEF IInv
  <2>7. OnEvidence(d.revision - 1, d.parent, d.inputs)
    BY <2>2, <2>3
  <2> QED
    BY <2>3, <2>5, <2>6, <2>7, EvidenceKept
<1> QED
  BY <1>2, <1>3

\* No confirm and no split was computed against entities that had changed since, as
\* long as each is one step (check_scope_is_current).
THEOREM CurrentEvidence == Spec => []DecidedOnCurrentEvidence
<1>1. Init => DecidedOnCurrentEvidence
  BY DEF Init, DecidedOnCurrentEvidence
<1>2. QED
  BY <1>1, EvidenceStep, InvariantHolds, PTL DEF Spec
-----------------------------------------------------------------------------
\* The constraints of a pair: one is in force, of the highest version, and every other
\* points at the decision that wrote the next.
ConstraintsOK ==
  /\ \A n \in constraints :
       /\ n = [pair |-> n.pair, version |-> n.version, decision |-> n.decision,
               supersededBy |-> n.supersededBy]
       /\ n.version \in Nat \ {0} /\ n.decision \in Nat /\ n.decision <= head
       /\ \E x \in constraints : x.pair = n.pair /\ x.supersededBy = None
       /\ n.supersededBy # None =>
            \E x \in constraints : /\ x.pair = n.pair /\ x.version = n.version + 1
                                   /\ x.decision = n.supersededBy
  /\ \A n, x \in constraints : n.pair = x.pair /\ n # x =>
       /\ n.version # x.version
       /\ n.supersededBy = None => x.version < n.version

LEMMA ChainOfConstraints == ConstraintsOK => ConstraintsFormAChain
<1> SUFFICES ASSUME ConstraintsOK, NEW n \in constraints
             PROVE  LET next == {x \in constraints : x.pair = n.pair /\ x.version = n.version + 1}
                    IN  IF n.supersededBy = None
                        THEN \A x \in constraints : x.pair = n.pair /\ x # n => x.version < n.version
                        ELSE \E x \in next : next = {x} /\ x.decision = n.supersededBy
  BY DEF ConstraintsFormAChain
<1>1. CASE n.supersededBy = None
  BY <1>1 DEF ConstraintsOK
<1>2. CASE n.supersededBy # None
  <2>1. PICK x \in constraints : /\ x.pair = n.pair /\ x.version = n.version + 1
                                 /\ x.decision = n.supersededBy
    BY <1>2 DEF ConstraintsOK
  <2>2. {y \in constraints : y.pair = n.pair /\ y.version = n.version + 1} = {x}
    BY <2>1 DEF ConstraintsOK
  <2> QED
    BY <1>2, <2>1, <2>2
<1> QED
  BY <1>1, <1>2

\* A step writes no constraint, or the one of a rejection, which supersedes the one in
\* force.
LEMMA Constrains ==
  ASSUME [Next]_vars
  PROVE  \/ constraints' = constraints
         \/ \E parent \in 0..MaxRevision, a, b \in Mentions, c \in Candidates \cup {None} :
              RejectMatch(parent, a, b, c)
BY ZenonT(60) DEF Next, vars, Record, RecordClaim, RetractClaim, Adjudicate, ConfirmMatch, MarkUnresolved,
   SplitEntity

Supersession(new, pair) ==
  /\ new.pair = pair /\ new.decision = head + 1 /\ new.supersededBy = None
  /\ new = [pair |-> new.pair, version |-> new.version,
            decision |-> new.decision, supersededBy |-> new.supersededBy]
  /\ \/ /\ \A n \in constraints : n.pair # pair
        /\ new.version = 1 /\ constraints' = constraints \cup {new}
     \/ \E n \in constraints :
          /\ n.pair = pair /\ n.supersededBy = None
          /\ new.version = n.version + 1
          /\ constraints' = (constraints \ {n})
               \cup {[n EXCEPT !.supersededBy = head + 1], new}

\* The pair's constraint in force, if it has one, is what the rejection finds.
LEMMA Supersedes ==
  ASSUME ConstraintsOK, head \in Nat, NEW parent, NEW a, NEW b, NEW c,
         RejectMatch(parent, a, b, c)
  PROVE  \E new : Supersession(new, {a, b})
<1> DEFINE previous == PreviousConstraint({a, b})
           version  == IF previous = {} THEN 1 ELSE (CHOOSE n \in previous : TRUE).version + 1
           new == [pair |-> {a, b}, version |-> version, decision |-> head + 1,
                   supersededBy |-> None]
<1>1. constraints' = (constraints \ previous)
           \cup {[n EXCEPT !.supersededBy = head + 1] : n \in previous} \cup {new}
  BY DEF RejectMatch
<1>2. CASE \A n \in constraints : n.pair # {a, b}
  <2>1. previous = {}
    BY <1>2 DEF PreviousConstraint, LiveConstraints
  <2>2. new.version = 1 /\ constraints' = constraints \cup {new}
    BY <1>1, <2>1
  <2> HIDE DEF previous
  <2>3. Supersession(new, {a, b})
    BY <1>2, <2>2 DEF Supersession
  <2> QED
    BY <2>3
<1>3. ASSUME NEW x \in constraints, x.pair = {a, b}
      PROVE  \E n \in constraints :
               /\ n.pair = {a, b} /\ n.supersededBy = None
               /\ new.version = n.version + 1
               /\ constraints' = (constraints \ {n})
                    \cup {[n EXCEPT !.supersededBy = head + 1], new}
  <2>1. PICK n \in constraints : n.pair = {a, b} /\ n.supersededBy = None
    BY <1>3 DEF ConstraintsOK
  <2>2. \A y \in LiveConstraints({a, b}) : y = n
    <3>1. ASSUME NEW y \in LiveConstraints({a, b}), y # n
          PROVE  FALSE
      <4>1. y \in constraints /\ y.pair = n.pair /\ y.supersededBy = None
        BY <2>1 DEF LiveConstraints
      <4>2. /\ n.version \in Nat /\ y.version \in Nat
            /\ n.version < y.version /\ y.version < n.version
        BY <2>1, <3>1, <4>1 DEF ConstraintsOK
      <4> QED
        BY <4>2
    <3> QED
      BY <3>1
  <2>3. n.version <= n.version
    BY DEF ConstraintsOK
  <2>4. previous = {n}
    BY <2>1, <2>2, <2>3 DEF PreviousConstraint, LiveConstraints
  <2>5. (CHOOSE y \in previous : TRUE) = n
    BY <2>4
  <2>6. version = n.version + 1
    BY <2>4, <2>5
  <2> HIDE DEF previous, version
  <2>7. constraints' = (constraints \ {n}) \cup {[n EXCEPT !.supersededBy = head + 1], new}
    BY <1>1, <2>4
  <2> QED
    BY <2>1, <2>6, <2>7
<1>4. CASE \E x \in constraints : x.pair = {a, b}
  <2> HIDE DEF previous, version
  <2>1. Supersession(new, {a, b})
    BY <1>3, <1>4 DEF Supersession
  <2> QED
    BY <2>1
<1> QED
  BY <1>2, <1>4

LEMMA ConstraintsStep ==
  ASSUME IInv, ConstraintsOK, [Next]_vars
  PROVE  ConstraintsOK'
<1>1. head \in Nat /\ (head' = head \/ head' = head + 1)
  <2>1. Rows /\ head \in Nat
    BY LedgerAssumption DEF IInv, Rows, LedgerAssumption
  <2> QED
    BY <2>1, StepOnRows DEF MovesRows, OpensRows, KeepsRows
<1>2. CASE constraints' = constraints
  BY <1>1, <1>2 DEF ConstraintsOK
<1>3. ASSUME NEW parent, NEW a, NEW b, NEW c, RejectMatch(parent, a, b, c)
      PROVE  ConstraintsOK'
  <2>0. PICK new : Supersession(new, {a, b})
    BY <1>1, <1>3, Supersedes
  <2>1. /\ new.pair = {a, b} /\ new.decision = head + 1 /\ new.supersededBy = None
        /\ new = [pair |-> new.pair, version |-> new.version,
                  decision |-> new.decision, supersededBy |-> new.supersededBy]
        /\ \/ /\ \A n \in constraints : n.pair # {a, b}
              /\ new.version = 1 /\ constraints' = constraints \cup {new}
           \/ \E n \in constraints :
                /\ n.pair = {a, b} /\ n.supersededBy = None
                /\ new.version = n.version + 1
                /\ constraints' = (constraints \ {n})
                     \cup {[n EXCEPT !.supersededBy = head + 1], new}
    BY <2>0 DEF Supersession
  <2>2. head' = head + 1
    BY <1>3 DEF RejectMatch, OpenDecision
  <2>3. CASE (\A n \in constraints : n.pair # {a, b}) /\ new.version = 1
               /\ constraints' = constraints \cup {new}
    BY <1>1, <2>1, <2>2, <2>3 DEF ConstraintsOK
  <2>4. ASSUME NEW n \in constraints, n.pair = {a, b}, n.supersededBy = None,
               new.version = n.version + 1,
               constraints' = (constraints \ {n}) \cup {[n EXCEPT !.supersededBy = head + 1], new}
        PROVE  ConstraintsOK'
    <3>1. PICK old : old = [n EXCEPT !.supersededBy = head + 1]
      OBVIOUS
    <3>2. /\ old = [pair |-> old.pair, version |-> old.version, decision |-> old.decision,
                    supersededBy |-> old.supersededBy]
          /\ old.pair = n.pair /\ old.version = n.version /\ old.decision = n.decision
          /\ old.supersededBy = head + 1 /\ old.supersededBy # None
      <4>1. n = [pair |-> n.pair, version |-> n.version, decision |-> n.decision,
                 supersededBy |-> n.supersededBy]
        BY DEF ConstraintsOK
      <4>2. old = [pair |-> n.pair, version |-> n.version, decision |-> n.decision,
                   supersededBy |-> head + 1]
        BY <3>1, <4>1
      <4>3. head + 1 # None
        BY <1>1, LedgerAssumption DEF LedgerAssumption
      <4> QED
        BY <4>2, <4>3
    <3>3. constraints' = (constraints \ {n}) \cup {old, new}
      BY <2>4, <3>1
    <3>4. \A x \in constraints \ {n} : x.pair = n.pair => x.version < n.version /\ x.supersededBy # None
      BY <2>4 DEF ConstraintsOK
    <3>5. n.version \in Nat \ {0} /\ n.decision \in Nat /\ n.decision <= head
      BY DEF ConstraintsOK
    <3>6. ASSUME NEW y \in constraints'
          PROVE  /\ y = [pair |-> y.pair, version |-> y.version, decision |-> y.decision,
                         supersededBy |-> y.supersededBy]
                 /\ y.version \in Nat \ {0} /\ y.decision \in Nat /\ y.decision <= head'
                 /\ \E x \in constraints' : x.pair = y.pair /\ x.supersededBy = None
                 /\ y.supersededBy # None =>
                      \E x \in constraints' : /\ x.pair = y.pair /\ x.version = y.version + 1
                                              /\ x.decision = y.supersededBy
      <4>1. CASE y = old
        <5>1. /\ new \in constraints' /\ new.pair = y.pair /\ new.supersededBy = None
              /\ new.version = y.version + 1 /\ new.decision = y.supersededBy
          BY <2>1, <2>4, <3>2, <3>3, <4>1
        <5>2. y.version \in Nat \ {0} /\ y.decision \in Nat /\ y.decision <= head'
          BY <1>1, <2>2, <3>2, <3>5, <4>1
        <5> QED
          BY <3>2, <4>1, <5>1, <5>2
      <4>3. CASE y = new
        <5>1. y.version \in Nat \ {0} /\ y.decision \in Nat /\ y.decision <= head'
          BY <1>1, <2>1, <2>2, <2>4, <3>5, <4>3
        <5> QED
          BY <2>1, <4>3, <5>1
      <4>2. CASE y \in constraints \ {n}
        <5>1. /\ y = [pair |-> y.pair, version |-> y.version, decision |-> y.decision,
                      supersededBy |-> y.supersededBy]
              /\ y.version \in Nat \ {0} /\ y.decision \in Nat /\ y.decision <= head
          BY <4>2 DEF ConstraintsOK
        <5>2. PICK x \in constraints : x.pair = y.pair /\ x.supersededBy = None
          BY <4>2 DEF ConstraintsOK
        <5>3. \E z \in constraints' : z.pair = y.pair /\ z.supersededBy = None
          BY <2>1, <2>4, <3>3, <5>2
        <5>4. ASSUME y.supersededBy # None
              PROVE  \E z \in constraints' : /\ z.pair = y.pair /\ z.version = y.version + 1
                                             /\ z.decision = y.supersededBy
          <6>1. PICK z \in constraints : /\ z.pair = y.pair /\ z.version = y.version + 1
                                         /\ z.decision = y.supersededBy
            BY <4>2, <5>4 DEF ConstraintsOK
          <6> QED
            BY <3>2, <3>3, <6>1
        <5> QED
          BY <1>1, <2>2, <5>1, <5>3, <5>4
      <4> QED
        BY <3>3, <4>1, <4>2, <4>3
    <3>7. ASSUME NEW y \in constraints', NEW x \in constraints', y.pair = x.pair, y # x
          PROVE  /\ y.version # x.version
                 /\ y.supersededBy = None => x.version < y.version
      <4>1. CASE y \in constraints \ {n} /\ x \in constraints \ {n}
        BY <3>7, <4>1 DEF ConstraintsOK
      <4>2. CASE y \in {old, new} /\ x \in {old, new}
        BY <2>1, <2>4, <3>2, <3>5, <3>7, <4>2
      <4>3. CASE y \in {old, new} /\ x \in constraints \ {n}
        <5>1. x.version < n.version /\ x.version \in Nat
          BY <2>1, <2>4, <3>2, <3>4, <3>7, <4>3 DEF ConstraintsOK
        <5> QED
          BY <2>4, <3>2, <3>5, <4>3, <5>1
      <4>4. CASE x \in {old, new} /\ y \in constraints \ {n}
        <5>1. y.version < n.version /\ y.supersededBy # None /\ y.version \in Nat
          BY <2>1, <2>4, <3>2, <3>4, <3>7, <4>4 DEF ConstraintsOK
        <5> QED
          BY <2>4, <3>2, <3>5, <4>4, <5>1
      <4> QED
        BY <3>3, <4>1, <4>2, <4>3, <4>4
    <3> QED
      BY <3>6, <3>7 DEF ConstraintsOK
  <2> QED
    BY <2>1, <2>3, <2>4
<1> QED
  BY <1>2, <1>3, Constrains

LEMMA ConstraintsHold == Spec => []ConstraintsOK
<1>1. Init => ConstraintsOK
  BY DEF Init, ConstraintsOK
<1> QED
  BY <1>1, ConstraintsStep, InvariantHolds, PTL DEF Spec

\* However often a pair is rejected, and whatever is decided in between, the versions of
\* its negative constraint form one chain with one end in force (reject_match).
THEOREM OneConstraintInForce == Spec => []ConstraintsFormAChain
BY ConstraintsHold, ChainOfConstraints, PTL
-----------------------------------------------------------------------------
\* A claim stays what it is, but for being retracted; a new one is stamped with the head.
SameClaim(k, l) ==
  /\ k.id = l.id /\ k.subject = l.subject /\ k.subjectMention = l.subjectMention
  /\ k.object = l.object /\ k.objectMention = l.objectMention /\ k.revision = l.revision

ClaimsGoOn ==
  /\ \A l \in claims : \E k \in claims' : SameClaim(k, l)
  /\ \A k \in claims' :
       \/ k \in claims
       \/ k.retracted /\ \E l \in claims : SameClaim(k, l)
       \/ k.revision = head /\ \A l \in claims : l.id # k.id
  /\ (\A k, l \in claims : k.id = l.id => k = l) => \A k, l \in claims' : k.id = l.id => k = l

\* No step edits a claim.
LEMMA ClaimsStep ==
  ASSUME IInv, [Next]_vars
  PROVE  ClaimsGoOn
<1>1. CASE claims' = claims
  BY <1>1 DEF SameClaim, ClaimsGoOn
<1>2. ASSUME NEW k, NEW s, NEW o, NEW sm, NEW om, RecordClaim(k, s, sm, o, om)
      PROVE  ClaimsGoOn
  <2>1. PICK new : new = [id |-> k, subject |-> s, subjectMention |-> sm, object |-> o,
                          objectMention |-> om, revision |-> head, retracted |-> FALSE]
    OBVIOUS
  <2>2. new.id = k /\ new.revision = head
    BY <2>1
  <2>3. claims' = claims \cup {new} /\ \A l \in claims : l.id # k
    BY <1>2, <2>1 DEF RecordClaim
  <2> QED
    BY <2>2, <2>3 DEF SameClaim, ClaimsGoOn
<1>3. ASSUME NEW k, RetractClaim(k)
      PROVE  ClaimsGoOn
  <2>1. PICK x \in claims : claims' = (claims \ {x}) \cup {[x EXCEPT !.retracted = TRUE]}
    BY <1>3 DEF RetractClaim
  <2>2. PICK y : y = [x EXCEPT !.retracted = TRUE]
    OBVIOUS
  <2>3. SameClaim(y, x) /\ y.retracted = TRUE
    BY <2>2 DEF SameClaim, IInv, TypeOK, ClaimRow
  <2>4. claims' = (claims \ {x}) \cup {y}
    BY <2>1, <2>2
  <2>5. \A l \in claims : \E j \in claims' : SameClaim(j, l)
    BY <2>3, <2>4 DEF SameClaim
  <2>6. \A j \in claims' : j \in claims \/ (j.retracted /\ \E l \in claims : SameClaim(j, l))
    BY <2>3, <2>4
  <2>7. ASSUME \A j, l \in claims : j.id = l.id => j = l
        PROVE  \A j, l \in claims' : j.id = l.id => j = l
    BY <2>3, <2>4, <2>7 DEF SameClaim
  <2> QED
    BY <2>5, <2>6, <2>7 DEF ClaimsGoOn
<1>4. claims' = claims \/ \E k, s, o, sm, om : RecordClaim(k, s, sm, o, om) \/ RetractClaim(k)
  <2>1. ASSUME NEW parent, Adjudicate(parent) PROVE claims' = claims
    BY <2>1 DEF Adjudicate, ConfirmMatch, RejectMatch, MarkUnresolved, SplitEntity
  <2>2. CASE UNCHANGED vars
    BY <2>2 DEF vars
  <2> QED
    BY <2>1, <2>2 DEF Next, Record
<1> QED
  BY <1>1, <1>2, <1>3, <1>4
=============================================================================
