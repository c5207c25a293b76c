--------------------------- MODULE IngestionProofs ---------------------------
(***************************************************************************)
(* Proofs about Landing and Extraction, for any number of processes,       *)
(* passes and reviewers.  A landing relates what stands in four places:    *)
(* the vault, the committed records, the rows of its session and what its  *)
(* process remembers from its reads.  SessionOK says what a process may    *)
(* rely on whatever the others do meanwhile; RecordsOK and KeysApart say   *)
(* what the records and all sessions have in common.                       *)
(***************************************************************************)
EXTENDS Extraction, TLAPS

Row == [name : Names, content : Contents, earlier : Nat,
        status : {"landed", "quarantined"}, released : BOOLEAN]

Keys(rows) == {KeyOf(row) : row \in Elements(rows)}

\* What is in the vault with its sidecar.
Kept == objects \cap DOMAIN sidecars

\* Of the first n records, those of this name have this content.
OneVersion(recs, n, name, content) ==
  \A j \in 1..n : recs[j].name = name => recs[j].content = content

\* A version that was not held back saw no other version among the records before it.
WellJudged(row, recs) ==
  /\ row.earlier \in 0..Len(recs)
  /\ row.status = "landed" /\ ~row.released =>
       row.content \notin Oversize /\ OneVersion(recs, row.earlier, row.name, row.content)

\* A put of content c, in the vault of the objects os, of which kept have a sidecar.
PutOK(q, c, os, kept) ==
  /\ DOMAIN q = {"stage", "content", "number"}
  /\ q.content = c
  /\ q.stage \in {"object", "putObject", "sidecar", "putSidecar", "stored"}
  /\ q.stage \in {"sidecar", "putSidecar", "stored"} => c \in os
  /\ q.stage = "stored" => c \in kept

RowsOK(rows, kept, recs) ==
  /\ rows \in Seq(Row)
  /\ \A row \in Elements(rows) : row.content \in kept /\ WellJudged(row, recs)
  /\ \A i, j \in DOMAIN rows : KeyOf(rows[i]) = KeyOf(rows[j]) => i = j

\* What a landing looked up still holds when it inserts: its bytes are in the vault, it
\* has not landed the artifact itself, and the earlier records are as it saw them.
LookedUpOK(r, kept, recs) ==
  /\ r.artifact[2] \in kept
  /\ r.earlier \in 0..Len(recs)
  /\ r.artifact \notin Keys(r.rows)
  /\ r.stage = "judged" /\ r.siblings = {} =>
       OneVersion(recs, r.earlier, r.artifact[1], r.artifact[2])

\* Re-landing what is landed gets no further than the look-up.
AgainOK(r, q, recs) ==
  /\ r.stage \in {"putting", "answered", "reported"}
  /\ r.artifact \in Keys(recs)
  /\ r.stage = "putting" => q.stage \in {"object", "sidecar", "stored"}

SessionOK(r, q, os, kept, recs) ==
  /\ DOMAIN r = DOMAIN NoLanding
  /\ RowsOK(r.rows, kept, recs)
  /\ r.stage # "closed" => r.artifact \in Names \X Contents
  /\ r.stage = "putting" => PutOK(q, r.artifact[2], os, kept)
  /\ r.stage # "putting" => q = NoPut
  /\ r.stage \in {"sourceless", "sourced", "judged"} => LookedUpOK(r, kept, recs)
  /\ r.again => AgainOK(r, q, recs)

SessionsOK == \A w \in Putters : SessionOK(work[w], put[w], objects, Kept, records)

\* No artifact has two rows, committed or in any session.
KeysApart ==
  /\ \A w \in Putters : Uncommitted(w) \cap Committed = {}
  /\ \A w, v \in Putters : w # v => Uncommitted(w) \cap Uncommitted(v) = {}

LandInv ==
  /\ work = [w \in Putters |-> work[w]]
  /\ put = [w \in Putters |-> put[w]]
  /\ RowsOK(records, Kept, records)
  /\ SessionsOK
  /\ KeysApart
-----------------------------------------------------------------------------
LEMMA KeySets ==
  /\ Committed = Keys(records) /\ Committed' = Keys(records')
  /\ \A w \in Putters : Uncommitted(w) = Keys(work[w].rows)
  /\ \A w \in Putters : Uncommitted(w)' = Keys(work'[w].rows)
  BY DEF Committed, Uncommitted, Keys, Elements

LEMMA KeysOfUnion ==
  ASSUME NEW s, NEW t, NEW u, Elements(u) = Elements(s) \cup Elements(t)
  PROVE  Keys(u) = Keys(s) \cup Keys(t)
  BY DEF Keys

LEMMA NoKeys == Keys(<<>>) = {}
  BY DEF Keys, Elements

LEMMA AppendedElements ==
  ASSUME NEW S, NEW s \in Seq(S), NEW x \in S
  PROVE  /\ Append(s, x) \in Seq(S) /\ Elements(Append(s, x)) = Elements(s) \cup {x}
         /\ \A i \in DOMAIN s : Append(s, x)[i] = s[i]
         /\ DOMAIN Append(s, x) = DOMAIN s \cup {Len(s) + 1} /\ Append(s, x)[Len(s) + 1] = x
  BY DEF Elements

LEMMA JoinedElements ==
  ASSUME NEW S, NEW s \in Seq(S), NEW t \in Seq(S)
  PROVE  /\ s \o t \in Seq(S) /\ Len(s \o t) = Len(s) + Len(t)
         /\ Elements(s \o t) = Elements(s) \cup Elements(t)
         /\ \A i \in 1..Len(s) : (s \o t)[i] = s[i]
         /\ \A i \in 1..Len(t) : (s \o t)[Len(s) + i] = t[i]
  <1>1. /\ s \o t \in Seq(S) /\ Len(s \o t) = Len(s) + Len(t)
        /\ \A i \in 1..Len(s) : (s \o t)[i] = s[i]
        /\ \A i \in 1..Len(t) : (s \o t)[Len(s) + i] = t[i]
    OBVIOUS
  <1>2. DOMAIN s = 1..Len(s) /\ DOMAIN t = 1..Len(t) /\ DOMAIN (s \o t) = 1..Len(s \o t)
        /\ Len(s) \in Nat /\ Len(t) \in Nat
    BY <1>1
  <1>3. \A i \in 1..(Len(s) + Len(t)) : i \in 1..Len(s) \/ (i - Len(s) \in 1..Len(t))
    BY <1>2
  <1>4. \A i \in 1..(Len(s) + Len(t)) : (s \o t)[i] \in Elements(s) \cup Elements(t)
    <2> SUFFICES ASSUME NEW i \in 1..(Len(s) + Len(t))
                 PROVE  (s \o t)[i] \in Elements(s) \cup Elements(t)
      OBVIOUS
    <2>1. CASE i \in 1..Len(s)
      BY <1>1, <1>2, <2>1 DEF Elements
    <2>2. CASE i - Len(s) \in 1..Len(t)
      <3>1. Len(s) + (i - Len(s)) = i
        BY <1>2
      <3>2. (s \o t)[i] = t[i - Len(s)]
        BY <1>1, <2>2, <3>1
      <3> QED BY <1>2, <2>2, <3>2 DEF Elements
    <2> QED BY <1>3, <2>1, <2>2
  <1>5. Elements(s \o t) \subseteq Elements(s) \cup Elements(t)
    BY <1>1, <1>2, <1>4 DEF Elements
  <1>6. Elements(s) \subseteq Elements(s \o t)
    <2>1. \A i \in 1..Len(s) : i \in 1..(Len(s) + Len(t))
      BY <1>2
    <2> QED BY <1>1, <1>2, <2>1 DEF Elements
  <1>7. Elements(t) \subseteq Elements(s \o t)
    <2>1. \A i \in 1..Len(t) : Len(s) + i \in 1..(Len(s) + Len(t))
      BY <1>2
    <2> QED BY <1>1, <1>2, <2>1 DEF Elements
  <1> QED BY <1>1, <1>5, <1>6, <1>7

\* What happens to the records: new ones at the end, and a change of status.
Extends(recs, more) ==
  /\ recs \in Seq(Row) /\ more \in Seq(Row) /\ Len(recs) <= Len(more)
  /\ \A i \in 1..Len(recs) : KeyOf(more[i]) = KeyOf(recs[i])

LEMMA SameRecords == ASSUME NEW recs \in Seq(Row) PROVE Extends(recs, recs)
  BY DEF Extends

LEMMA KeysGrow ==
  ASSUME NEW recs, NEW more, Extends(recs, more)
  PROVE  Keys(recs) \subseteq Keys(more)
  <1>1. DOMAIN recs = 1..Len(recs) /\ DOMAIN more = 1..Len(more)
        /\ Len(recs) \in Nat /\ Len(more) \in Nat
    BY DEF Extends
  <1>2. \A i \in DOMAIN recs : i \in DOMAIN more /\ KeyOf(recs[i]) = KeyOf(more[i])
    BY <1>1 DEF Extends
  <1> QED BY <1>2 DEF Keys, Elements

\* A judgement stands while the records only grow, and so does what a session knows.
LEMMA JudgedStays ==
  ASSUME NEW recs, NEW more, Extends(recs, more), NEW name, NEW content, NEW n \in 0..Len(recs),
         OneVersion(recs, n, name, content)
  PROVE  OneVersion(more, n, name, content)
  <1>1. Len(recs) \in Nat /\ Len(more) \in Nat /\ Len(recs) <= Len(more)
    BY DEF Extends
  <1>2. \A j \in 1..n : j \in 1..Len(recs)
    BY <1>1
  <1>3. \A j \in 1..n : more[j].name = recs[j].name /\ more[j].content = recs[j].content
    BY <1>2 DEF Extends, KeyOf
  <1> QED BY <1>3 DEF OneVersion

LEMMA WellJudgedStays ==
  ASSUME NEW recs, NEW more, Extends(recs, more), NEW row, WellJudged(row, recs)
  PROVE  WellJudged(row, more)
  <1>1. row.earlier \in 0..Len(recs) /\ row.earlier \in 0..Len(more)
    BY DEF WellJudged, Extends
  <1> QED BY <1>1, JudgedStays DEF WellJudged

LEMMA RowsStay ==
  ASSUME NEW recs, NEW more, Extends(recs, more), NEW kept, NEW keeps, kept \subseteq keeps,
         NEW rows, RowsOK(rows, kept, recs)
  PROVE  RowsOK(rows, keeps, more)
  BY WellJudgedStays DEF RowsOK

LEMMA SessionStays ==
  ASSUME NEW recs, NEW more, Extends(recs, more), NEW kept, NEW keeps, kept \subseteq keeps,
         NEW os, NEW oss, os \subseteq oss, NEW r, NEW q, SessionOK(r, q, os, kept, recs)
  PROVE  SessionOK(r, q, oss, keeps, more)
  <1>1. RowsOK(r.rows, keeps, more)
    BY RowsStay DEF SessionOK
  <1>2. r.stage = "putting" => PutOK(q, r.artifact[2], oss, keeps)
    BY DEF SessionOK, PutOK
  <1>3. ASSUME LookedUpOK(r, kept, recs) PROVE LookedUpOK(r, keeps, more)
    <2>1. r.earlier \in 0..Len(recs) /\ r.earlier \in 0..Len(more)
      BY <1>3 DEF LookedUpOK, Extends
    <2> QED BY <1>3, <2>1, JudgedStays DEF LookedUpOK
  <1>4. AgainOK(r, q, recs) => AgainOK(r, q, more)
    BY KeysGrow DEF AgainOK
  <1> QED BY <1>1, <1>2, <1>3, <1>4 DEF SessionOK
-----------------------------------------------------------------------------
\* A step of one session leaves the others what they rely on, if the vault and the
\* records only grow.
LEMMA SessionStep ==
  ASSUME LandInv, NEW w \in Putters,
         work' = [v \in Putters |-> work'[v]], put' = [v \in Putters |-> put'[v]],
         \A v \in Putters \ {w} : work'[v] = work[v] /\ put'[v] = put[v],
         objects \subseteq objects', Kept \subseteq Kept', Extends(records, records'),
         RowsOK(records', Kept', records'),
         SessionOK(work'[w], put'[w], objects', Kept', records'),
         KeysApart'
  PROVE  LandInv'
  <1>1. \A v \in Putters \ {w} : SessionOK(work'[v], put'[v], objects', Kept', records')
    BY SessionStays DEF LandInv, SessionsOK
  <1>2. \A v \in Putters : SessionOK(work'[v], put'[v], objects', Kept', records')
    BY <1>1
  <1>3. SessionsOK'
    BY <1>2 DEF SessionsOK
  <1>4. RowsOK(records, Kept, records)'
    BY DEF RowsOK
  <1> QED BY <1>3, <1>4 DEF LandInv

\* A step that inserts nothing and commits nothing.
LEMMA QuietStep ==
  ASSUME LandInv, NEW w \in Putters,
         work' = [v \in Putters |-> work'[v]], put' = [v \in Putters |-> put'[v]],
         \A v \in Putters \ {w} : work'[v] = work[v] /\ put'[v] = put[v],
         objects \subseteq objects', Kept \subseteq Kept', records' = records,
         SessionOK(work'[w], put'[w], objects', Kept', records),
         work'[w].rows \in {work[w].rows, <<>>}
  PROVE  LandInv'
  <1>1. Extends(records, records') /\ RowsOK(records', Kept', records')
    BY SameRecords, RowsStay DEF LandInv, RowsOK
  <1>2. Committed' = Committed
    BY DEF Committed, Elements
  <1>3. \A v \in Putters : Uncommitted(v)' \subseteq Uncommitted(v)
    BY DEF Uncommitted, Elements
  <1>4. KeysApart'
    BY <1>2, <1>3 DEF LandInv, KeysApart
  <1> QED BY <1>1, <1>4, SessionStep

\* What a session is like whose process has gone, or is through.
LEMMA NoLandingOK ==
  ASSUME NEW os, NEW kept, NEW recs
  PROVE  SessionOK(NoLanding, NoPut, os, kept, recs) /\ NoLanding.rows = <<>>
  BY DEF SessionOK, RowsOK, NoLanding, Elements

\* The bytes of a committed artifact are in the vault.
LEMMA CommittedIsKept ==
  ASSUME LandInv, NEW a \in Keys(records)
  PROVE  a[2] \in Kept
  BY DEF LandInv, RowsOK, Keys, KeyOf

LEMMA ReceiveStep ==
  ASSUME LandInv, NEW w \in Putters, NEW a \in Names \X Contents, NEW kind,
         work[w].stage \in {"closed", "reported"}, Receive(w, kind, a)
  PROVE  LandInv'
  <1>1. /\ objects' = objects /\ sidecars' = sidecars /\ records' = records
        /\ put' = [put EXCEPT ![w] = [stage |-> "object", content |-> a[2], number |-> puts + 1]]
        /\ work' = [work EXCEPT ![w].kind = kind, ![w].stage = "putting", ![w].artifact = a,
                                ![w].files = @ + 1, ![w].again = a \in Committed]
    BY DEF Receive, BeginPut
  <1>2. SessionOK(work[w], put[w], objects, Kept, records) /\ DOMAIN work[w] = DOMAIN NoLanding
    BY DEF LandInv, SessionsOK, SessionOK
  <1>3. /\ work' = [v \in Putters |-> work'[v]] /\ put' = [v \in Putters |-> put'[v]]
        /\ \A v \in Putters \ {w} : work'[v] = work[v] /\ put'[v] = put[v]
        /\ put'[w] = [stage |-> "object", content |-> a[2], number |-> puts + 1]
    BY <1>1 DEF LandInv
  <1>4. /\ DOMAIN work'[w] = DOMAIN NoLanding /\ work'[w].stage = "putting"
        /\ work'[w].artifact = a /\ work'[w].rows = work[w].rows
        /\ work'[w].again => a \in Keys(records)
    BY <1>1, <1>2 DEF LandInv, NoLanding, Committed, Keys
  <1>5. Kept' = Kept
    BY <1>1 DEF Kept
  <1>6. SessionOK(work'[w], put'[w], objects, Kept, records)
    <2>1. PutOK(put'[w], a[2], objects, Kept)
      BY <1>3 DEF PutOK
    <2>2. work'[w].again => AgainOK(work'[w], put'[w], records)
      BY <1>3, <1>4 DEF AgainOK
    <2> QED BY <1>2, <1>4, <2>1, <2>2 DEF SessionOK
  <1> QED BY ZenonT(60), <1>1, <1>3, <1>4, <1>5, <1>6, QuietStep

\* A put on its way has its object before its sidecar; one of a landed artifact finds both.
LEMMA PutStep ==
  ASSUME LandInv, NEW w \in Putters, Putting(w), UNCHANGED landVars
  PROVE  /\ LandInv'
         /\ objects \subseteq objects' /\ DOMAIN sidecars \subseteq DOMAIN sidecars'
         /\ work[w].again => UNCHANGED <<objects, sidecars>>
  <1>1. put[w].stage \in {"object", "putObject", "sidecar", "putSidecar"} /\ put[w] # NoPut
    BY DEF Putting, LinkObject, LinkSidecar, StatObject, PutObject, StatSidecar, PutSidecar, NoPut
  <1>2. /\ SessionOK(work[w], put[w], objects, Kept, records) /\ work[w].stage = "putting"
        /\ PutOK(put[w], work[w].artifact[2], objects, Kept)
        /\ put = [v \in Putters |-> put[v]]
    BY <1>1 DEF LandInv, SessionsOK, SessionOK
  <1>3. work[w].again => put[w].content \in Kept /\ put[w].stage \in {"object", "sidecar"}
    BY <1>1, <1>2, CommittedIsKept DEF SessionOK, AgainOK, PutOK
  <1>4. /\ put' = [v \in Putters |-> put'[v]] /\ \A v \in Putters \ {w} : put'[v] = put[v]
        /\ DOMAIN put'[w] = {"stage", "content", "number"} /\ put'[w].content = put[w].content
        /\ objects \subseteq objects' /\ DOMAIN sidecars \subseteq DOMAIN sidecars'
        /\ put'[w].stage \in {"putObject", "sidecar", "putSidecar", "stored"}
        /\ put'[w].stage \in {"sidecar", "putSidecar", "stored"} => put[w].content \in objects'
        /\ put'[w].stage = "stored" => put[w].content \in DOMAIN sidecars'
        /\ put[w].content \in Kept /\ put[w].stage \in {"object", "sidecar"} =>
             /\ UNCHANGED <<objects, sidecars>>
             /\ put'[w].stage \in {"sidecar", "stored"}
    <2>1. CASE LinkObject(w)
      BY <1>2, <2>1 DEF LinkObject, Moved, PutOK, Kept
    <2>2. CASE LinkSidecar(w)
      BY <1>2, <2>2 DEF LinkSidecar, Moved, PutOK, Kept, FirstSidecar, WithSidecar
    <2>3. CASE StatObject(w)
      BY <1>2, <2>3 DEF StatObject, Moved, PutOK, Kept
    <2>4. CASE PutObject(w)
      BY <1>2, <2>4 DEF PutObject, Moved, PutOK, Kept
    <2>5. CASE StatSidecar(w)
      BY <1>2, <2>5 DEF StatSidecar, Moved, PutOK, Kept
    <2>6. CASE PutSidecar(w)
      BY <1>2, <2>6 DEF PutSidecar, Moved, PutOK, Kept, WithSidecar
    <2> QED BY <2>1, <2>2, <2>3, <2>4, <2>5, <2>6 DEF Putting
  <1>5. work' = work /\ records' = records
    BY DEF landVars
  <1>6. Kept \subseteq Kept'
    BY <1>4 DEF Kept
  <1>7. PutOK(put'[w], work[w].artifact[2], objects', Kept')
    BY <1>2, <1>4 DEF PutOK, Kept
  <1>8. RowsOK(work[w].rows, Kept', records)
    <2>1. Extends(records, records) /\ RowsOK(work[w].rows, Kept, records)
      BY <1>2, SameRecords DEF LandInv, RowsOK, SessionOK
    <2> QED BY <1>6, <2>1, RowsStay
  <1>9. work[w].again => AgainOK(work[w], put'[w], records)
    BY <1>2, <1>3, <1>4 DEF SessionOK, AgainOK
  <1>10. SessionOK(work'[w], put'[w], objects', Kept', records)
    BY <1>2, <1>5, <1>7, <1>8, <1>9 DEF SessionOK
  <1>11. /\ work' = [v \in Putters |-> work'[v]] /\ work'[w].rows = work[w].rows
         /\ \A v \in Putters \ {w} : work'[v] = work[v]
    BY <1>5 DEF LandInv
  <1>12. LandInv'
    BY <1>4, <1>5, <1>6, <1>10, <1>11, QuietStep
  <1> QED BY <1>3, <1>4, <1>12

\* The transaction begins when the bytes and their sidecar are in the vault.
LEMMA LookUpStep ==
  ASSUME LandInv, NEW w \in Putters, LookUp(w)
  PROVE  LandInv'
  <1>1. /\ objects' = objects /\ sidecars' = sidecars /\ records' = records
        /\ put' = [put EXCEPT ![w] = NoPut]
        /\ work[w].stage = "putting" /\ put[w].stage = "stored"
    BY DEF LookUp, Stored
  <1>2. /\ SessionOK(work[w], put[w], objects, Kept, records) /\ DOMAIN work[w] = DOMAIN NoLanding
        /\ records \in Seq(Row)
    BY DEF LandInv, SessionsOK, SessionOK, RowsOK
  <1>3. PICK stage \in {"answered", "sourced", "sourceless"} :
          /\ stage # "answered" => work[w].artifact \notin VisibleKeys(w)
          /\ work[w].artifact \in Committed => stage = "answered"
          /\ work' = [work EXCEPT ![w].earlier = Len(records), ![w].stage = stage]
    BY DEF LookUp, VisibleKeys, Visible, Committed
  <1>4. /\ work' = [v \in Putters |-> work'[v]] /\ put' = [v \in Putters |-> put'[v]]
        /\ \A v \in Putters \ {w} : work'[v] = work[v] /\ put'[v] = put[v]
        /\ put'[w] = NoPut
    BY <1>1, <1>3 DEF LandInv
  <1>5. /\ DOMAIN work'[w] = DOMAIN NoLanding /\ work'[w].stage = stage
        /\ work'[w].earlier = Len(records) /\ work'[w].artifact = work[w].artifact
        /\ work'[w].rows = work[w].rows /\ work'[w].again = work[w].again
    BY <1>2, <1>3 DEF LandInv, NoLanding
  <1>6. Kept' = Kept
    BY <1>1 DEF Kept
  <1>7. work[w].artifact[2] \in Kept
    BY <1>1, <1>2 DEF SessionOK, PutOK
  <1>8. stage # "answered" => work[w].artifact \notin Keys(work[w].rows)
    BY <1>3 DEF VisibleKeys, Visible, Keys
  <1>9. stage # "answered" => LookedUpOK(work'[w], Kept, records)
    BY <1>2, <1>5, <1>7, <1>8 DEF LookedUpOK
  <1>10. work'[w].again => AgainOK(work'[w], put'[w], records)
    BY <1>1, <1>2, <1>3, <1>5 DEF SessionOK, AgainOK, Committed, Keys
  <1>11. SessionOK(work'[w], put'[w], objects, Kept, records)
    BY <1>1, <1>2, <1>4, <1>5, <1>9, <1>10 DEF SessionOK
  <1> QED BY <1>1, <1>4, <1>5, <1>6, <1>11, QuietStep

\* The source is made sure of, and the siblings are looked for: nothing is lost of what
\* was looked up, and a landing that found no sibling saw none among the records.
LEMMA JudgingStep ==
  ASSUME LandInv, NEW w \in Putters, EnsureManualSource(w) \/ FindSiblings(w)
  PROVE  LandInv'
  <1>1. /\ objects' = objects /\ sidecars' = sidecars /\ records' = records /\ put' = put
        /\ work[w].stage \in {"sourceless", "sourced"}
    BY DEF EnsureManualSource, FindSiblings, vaultVars
  <1>2. /\ SessionOK(work[w], put[w], objects, Kept, records) /\ DOMAIN work[w] = DOMAIN NoLanding
        /\ records \in Seq(Row) /\ LookedUpOK(work[w], Kept, records)
    BY <1>1 DEF LandInv, SessionsOK, SessionOK, RowsOK
  <1>3. /\ work' = [v \in Putters |-> work'[v]] /\ put' = [v \in Putters |-> put'[v]]
        /\ \A v \in Putters \ {w} : work'[v] = work[v] /\ put'[v] = put[v]
    BY <1>1 DEF LandInv, EnsureManualSource, FindSiblings
  <1>4. /\ DOMAIN work'[w] = DOMAIN NoLanding /\ work'[w].stage \in {"sourced", "judged"}
        /\ work'[w].earlier = work[w].earlier /\ work'[w].artifact = work[w].artifact
        /\ work'[w].rows = work[w].rows /\ work'[w].again = work[w].again
        /\ work'[w].stage = "judged" => work'[w].siblings = {KeyOf(x) : x \in Siblings(w)}
    <2>1. CASE EnsureManualSource(w)
      BY <1>2, <2>1 DEF LandInv, NoLanding, EnsureManualSource
    <2>2. CASE FindSiblings(w)
      <3> DEFINE found == {KeyOf(x) : x \in Siblings(w)}
      <3>1. work' = [work EXCEPT ![w].stage = "judged", ![w].siblings = found]
        BY <2>2 DEF FindSiblings
      <3> HIDE DEF found
      <3>2. /\ DOMAIN work'[w] = DOMAIN NoLanding /\ work'[w].stage = "judged"
            /\ work'[w].earlier = work[w].earlier /\ work'[w].artifact = work[w].artifact
            /\ work'[w].rows = work[w].rows /\ work'[w].again = work[w].again
            /\ work'[w].siblings = found
        BY <1>2, <3>1 DEF LandInv, NoLanding
      <3> QED BY <3>2 DEF found
    <2> QED BY <2>1, <2>2
  <1>5. Kept' = Kept
    BY <1>1 DEF Kept
  <1>6. ASSUME work'[w].stage = "judged", work'[w].siblings = {}
        PROVE  OneVersion(records, work[w].earlier, work[w].artifact[1], work[w].artifact[2])
    <2>1. Siblings(w) = {}
      BY <1>4, <1>6
    <2>2. \A j \in 1..work[w].earlier : records[j] \in Visible(w)
      BY <1>2 DEF LookedUpOK, Visible, Elements
    <2> QED BY <2>1, <2>2 DEF Siblings, OneVersion
  <1>7. LookedUpOK(work'[w], Kept, records)
    BY <1>2, <1>4, <1>6 DEF LookedUpOK
  <1>8. work'[w].again => AgainOK(work'[w], put'[w], records)
    BY <1>1, <1>2, <1>4 DEF SessionOK, AgainOK
  <1>9. SessionOK(work'[w], put'[w], objects, Kept, records)
    BY <1>1, <1>2, <1>4, <1>7, <1>8 DEF SessionOK
  <1> QED BY <1>1, <1>3, <1>4, <1>5, <1>9, QuietStep

\* The row that is inserted has its bytes in the vault, an artifact nobody else has a
\* row of, and a status that says what the landing saw.
LEMMA InsertStep ==
  ASSUME LandInv, NEW w \in Putters, InsertRecord(w)
  PROVE  LandInv'
  <1> DEFINE a == work[w].artifact
             row == SourceRecord(a, work[w].earlier,
                      IF work[w].siblings # {} \/ a[2] \in Oversize THEN "quarantined" ELSE "landed")
  <1>1. /\ objects' = objects /\ sidecars' = sidecars /\ records' = records /\ put' = put
        /\ work[w].stage = "judged" /\ KeyIsFree(w, a)
        /\ work' = [work EXCEPT ![w].stage = "flushed", ![w].rows = Append(@, row)]
    BY DEF InsertRecord, vaultVars
  <1>2. /\ SessionOK(work[w], put[w], objects, Kept, records) /\ DOMAIN work[w] = DOMAIN NoLanding
        /\ records \in Seq(Row) /\ LookedUpOK(work[w], Kept, records)
        /\ RowsOK(work[w].rows, Kept, records) /\ a \in Names \X Contents
    BY <1>1 DEF LandInv, SessionsOK, SessionOK, RowsOK
  <1>3. /\ KeyOf(row) = a /\ row \in Row /\ row.content \in Kept /\ WellJudged(row, records)
    <2>1. /\ row.name = a[1] /\ row.content = a[2] /\ row.earlier = work[w].earlier
          /\ row.status \in {"landed", "quarantined"} /\ row.released = FALSE
          /\ row.status = "landed" => work[w].siblings = {} /\ a[2] \notin Oversize
          /\ DOMAIN row = {"name", "content", "earlier", "status", "released"}
      BY DEF SourceRecord
    <2>2. /\ a[2] \in Kept /\ work[w].earlier \in 0..Len(records) /\ Len(records) \in Nat
          /\ work[w].siblings = {} => OneVersion(records, work[w].earlier, a[1], a[2])
      BY <1>1, <1>2 DEF LookedUpOK
    <2>3. row \in Row
      BY <1>2, <2>2 DEF SourceRecord, Row
    <2>4. WellJudged(row, records)
      BY <2>1, <2>2 DEF WellJudged
    <2>5. KeyOf(row) = a
      BY <1>2, <2>1 DEF KeyOf
    <2> QED BY <2>1, <2>2, <2>3, <2>4, <2>5
  <1> HIDE DEF row
  <1>4. /\ work' = [v \in Putters |-> work'[v]] /\ put' = [v \in Putters |-> put'[v]]
        /\ \A v \in Putters \ {w} : work'[v] = work[v] /\ put'[v] = put[v]
    BY <1>1 DEF LandInv
  <1>5. /\ DOMAIN work'[w] = DOMAIN NoLanding /\ work'[w].stage = "flushed"
        /\ work'[w].artifact = a /\ work'[w].rows = Append(work[w].rows, row)
        /\ work'[w].again = work[w].again
    BY <1>1, <1>2 DEF LandInv, NoLanding
  <1>6. Kept' = Kept /\ Extends(records, records') /\ RowsOK(records', Kept', records')
    BY <1>1, <1>2, SameRecords DEF Kept, LandInv
  <1>7. a \notin Keys(work[w].rows) /\ a \notin Committed /\ ~Contested(w, a)
    BY <1>1, <1>2 DEF LookedUpOK, KeyIsFree
  <1>8. /\ work[w].rows \in Seq(Row) /\ Append(work[w].rows, row) \in Seq(Row)
        /\ Elements(Append(work[w].rows, row)) = Elements(work[w].rows) \cup {row}
        /\ \A i \in DOMAIN work[w].rows : Append(work[w].rows, row)[i] = work[w].rows[i]
        /\ DOMAIN Append(work[w].rows, row) = DOMAIN work[w].rows \cup {Len(work[w].rows) + 1}
        /\ Append(work[w].rows, row)[Len(work[w].rows) + 1] = row
    BY <1>2, <1>3, AppendedElements DEF RowsOK
  <1>9. \A i \in DOMAIN work[w].rows : KeyOf(work[w].rows[i]) # a
    BY <1>7 DEF Keys, Elements
  <1>10. RowsOK(work'[w].rows, Kept, records)
    BY <1>2, <1>3, <1>5, <1>8, <1>9 DEF RowsOK
  <1>11. ~work[w].again
    BY <1>1, <1>2 DEF SessionOK, AgainOK
  <1>12. SessionOK(work'[w], put'[w], objects', Kept', records')
    BY <1>1, <1>2, <1>5, <1>6, <1>10, <1>11 DEF SessionOK
  <1>13. /\ Uncommitted(w)' = Uncommitted(w) \cup {a} /\ Committed' = Committed
         /\ \A v \in Putters \ {w} : Uncommitted(v)' = Uncommitted(v)
    <2>1. Keys(work'[w].rows) = Keys(work[w].rows) \cup {a}
      BY <1>3, <1>5, <1>8 DEF Keys
    <2> QED BY <1>1, <1>4, <2>1, KeySets
  <1>14. KeysApart'
    BY <1>7, <1>13 DEF LandInv, KeysApart, Contested
  <1> QED BY <1>1, <1>4, <1>6, <1>12, <1>14, SessionStep

\* A landing's own transaction commits its rows at the end of the table; a command's
\* keeps them.
LEMMA AuditStep ==
  ASSUME LandInv, NEW w \in Putters, AuditLanding(w)
  PROVE  LandInv'
  <1>1. /\ objects' = objects /\ sidecars' = sidecars /\ put' = put /\ work[w].stage = "flushed"
    BY DEF AuditLanding, vaultVars
  <1>2. /\ SessionOK(work[w], put[w], objects, Kept, records) /\ DOMAIN work[w] = DOMAIN NoLanding
        /\ records \in Seq(Row) /\ RowsOK(work[w].rows, Kept, records) /\ ~work[w].again
        /\ RowsOK(records, Kept, records)
    BY <1>1 DEF LandInv, SessionsOK, SessionOK, RowsOK, AgainOK
  <1>3. /\ work' = [v \in Putters |-> work'[v]] /\ put' = [v \in Putters |-> put'[v]]
        /\ \A v \in Putters \ {w} : work'[v] = work[v] /\ put'[v] = put[v]
    BY <1>1 DEF LandInv, AuditLanding
  <1>4. /\ DOMAIN work'[w] = DOMAIN NoLanding /\ work'[w].stage = "answered"
        /\ work'[w].artifact = work[w].artifact /\ work'[w].again = work[w].again
        /\ work'[w].rows = IF work[w].inTx THEN work[w].rows ELSE <<>>
    BY <1>2 DEF LandInv, NoLanding, AuditLanding
  <1>5. Kept' = Kept
    BY <1>1 DEF Kept
  <1>6. CASE work[w].inTx
    <2>1. records' = records /\ work'[w].rows = work[w].rows
      BY <1>4, <1>6 DEF AuditLanding
    <2>2. SessionOK(work'[w], put'[w], objects, Kept, records)
      BY <1>1, <1>2, <1>4, <2>1 DEF SessionOK
    <2> QED BY <1>1, <1>3, <1>5, <2>1, <2>2, QuietStep
  <1>7. CASE ~work[w].inTx
    <2>1. records' = records \o work[w].rows /\ work'[w].rows = <<>>
      BY <1>4, <1>7 DEF AuditLanding
    <2> DEFINE rows == work[w].rows
    <2>2. /\ rows \in Seq(Row) /\ records' \in Seq(Row) /\ Len(records') = Len(records) + Len(rows)
          /\ Elements(records') = Elements(records) \cup Elements(rows)
          /\ \A i \in 1..Len(records) : records'[i] = records[i]
          /\ \A i \in 1..Len(rows) : records'[Len(records) + i] = rows[i]
      BY <1>2, <2>1, JoinedElements DEF RowsOK
    <2>3. /\ Len(records) \in Nat /\ Len(rows) \in Nat /\ DOMAIN records = 1..Len(records)
          /\ DOMAIN rows = 1..Len(rows) /\ DOMAIN records' = 1..Len(records')
      BY <1>2, <2>2
    <2>4. Extends(records, records')
      BY <1>2, <2>2, <2>3 DEF Extends
    <2>5. RowsOK(records, Kept, records') /\ RowsOK(rows, Kept, records')
      BY <1>2, <2>4, RowsStay
    <2>6. Uncommitted(w) \cap Committed = {}
      BY DEF LandInv, KeysApart
    <2>7. \A i \in DOMAIN records, j \in DOMAIN rows : KeyOf(records[i]) # KeyOf(rows[j])
      BY <2>6 DEF Uncommitted, Committed, Elements
    <2>8. \A i \in DOMAIN records' :
            \/ i \in DOMAIN records /\ records'[i] = records[i]
            \/ /\ i \notin DOMAIN records
               /\ i - Len(records) \in DOMAIN rows /\ records'[i] = rows[i - Len(records)]
      <3> SUFFICES ASSUME NEW i \in 1..(Len(records) + Len(rows)), i \notin 1..Len(records)
                   PROVE  /\ i - Len(records) \in 1..Len(rows)
                          /\ records'[i] = rows[i - Len(records)]
        BY <2>2, <2>3
      <3>1. i - Len(records) \in 1..Len(rows) /\ Len(records) + (i - Len(records)) = i
        BY <2>3
      <3> QED BY <2>2, <3>1
    <2>9. \A i, j \in DOMAIN records' : KeyOf(records'[i]) = KeyOf(records'[j]) => i = j
      <3> SUFFICES ASSUME NEW i \in DOMAIN records', NEW j \in DOMAIN records',
                          KeyOf(records'[i]) = KeyOf(records'[j])
                   PROVE  i = j
        OBVIOUS
      <3>1. i \in Nat /\ j \in Nat
        BY <2>3
      <3>2. CASE i \in DOMAIN records /\ j \in DOMAIN records
        BY <1>2, <2>8, <3>2 DEF RowsOK
      <3>3. CASE i \notin DOMAIN records /\ j \notin DOMAIN records
        <4>2. /\ i - Len(records) \in DOMAIN rows /\ j - Len(records) \in DOMAIN rows
              /\ KeyOf(rows[i - Len(records)]) = KeyOf(rows[j - Len(records)])
          BY <2>8, <3>3
        <4>1. i - Len(records) = j - Len(records)
          BY <1>2, <4>2 DEF RowsOK
        <4> QED BY <2>3, <3>1, <4>1
      <3>4. CASE i \in DOMAIN records /\ j \notin DOMAIN records
        BY <2>7, <2>8, <3>4
      <3>5. CASE i \notin DOMAIN records /\ j \in DOMAIN records
        BY <2>7, <2>8, <3>5
      <3> QED BY <3>2, <3>3, <3>4, <3>5
    <2>10. RowsOK(records', Kept', records')
      BY <1>5, <2>2, <2>5, <2>9 DEF RowsOK
    <2>11. SessionOK(work'[w], put'[w], objects', Kept', records')
      <3>1. RowsOK(<<>>, Kept', records')
        BY NoLandingOK DEF SessionOK
      <3> QED BY <1>1, <1>2, <1>4, <2>1, <3>1 DEF SessionOK
    <2>12. /\ Committed' = Committed \cup Uncommitted(w) /\ Uncommitted(w)' = {}
           /\ \A v \in Putters \ {w} : Uncommitted(v)' = Uncommitted(v)
      <3>1. Keys(records') = Keys(records) \cup Keys(rows)
        BY <2>2, KeysOfUnion
      <3> QED BY <1>3, <2>1, <3>1, KeySets, NoKeys
    <2>13. KeysApart'
      BY <2>12 DEF LandInv, KeysApart
    <2> QED BY <1>1, <1>3, <1>5, <2>4, <2>10, <2>11, <2>13, SessionStep
  <1> QED BY <1>6, <1>7

\* What is reported has been looked up or inserted; a route's session ends with it.
LEMMA ReportStep ==
  ASSUME LandInv, NEW w \in Putters, Report(w)
  PROVE  LandInv'
  <1>1. /\ objects' = objects /\ sidecars' = sidecars /\ records' = records /\ put' = put
        /\ work[w].stage = "answered"
    BY DEF Report, vaultVars
  <1>2. /\ SessionOK(work[w], put[w], objects, Kept, records) /\ DOMAIN work[w] = DOMAIN NoLanding
        /\ put[w] = NoPut
    BY <1>1 DEF LandInv, SessionsOK, SessionOK
  <1>3. /\ work' = [v \in Putters |-> work'[v]] /\ put' = [v \in Putters |-> put'[v]]
        /\ \A v \in Putters \ {w} : work'[v] = work[v] /\ put'[v] = put[v]
    BY <1>1 DEF LandInv, Report
  <1>4. Kept' = Kept
    BY <1>1 DEF Kept
  <1>5. CASE work'[w] = NoLanding
    BY <1>1, <1>2, <1>3, <1>4, <1>5, NoLandingOK, QuietStep
  <1>6. CASE work' = [work EXCEPT ![w].stage = "reported", ![w].inTx = TRUE]
    <2>1. /\ DOMAIN work'[w] = DOMAIN NoLanding /\ work'[w].stage = "reported"
          /\ work'[w].artifact = work[w].artifact /\ work'[w].again = work[w].again
          /\ work'[w].rows = work[w].rows
      BY <1>2, <1>6 DEF LandInv, NoLanding
    <2>2. SessionOK(work'[w], put'[w], objects, Kept, records)
      BY <1>1, <1>2, <2>1 DEF SessionOK, AgainOK
    <2> QED BY <1>1, <1>3, <1>4, <2>1, <2>2, QuietStep
  <1> QED BY <1>3, <1>5, <1>6 DEF Report, LandInv

LEMMA CloseStep ==
  ASSUME LandInv, NEW w \in Putters, Close(w)
  PROVE  LandInv'
  <1>1. /\ objects' = objects /\ sidecars' = sidecars /\ records' = records
        /\ work' = [v \in Putters |-> work'[v]] /\ put' = [v \in Putters |-> put'[v]]
        /\ \A v \in Putters \ {w} : work'[v] = work[v] /\ put'[v] = put[v]
        /\ work'[w] = NoLanding /\ put'[w] = NoPut
    BY DEF Close, LandInv
  <1>2. Kept' = Kept
    BY <1>1 DEF Kept
  <1> QED BY <1>1, <1>2, NoLandingOK, QuietStep

\* A release changes the status of a record, and marks it as a human's decision.
LEMMA ReleaseStep ==
  ASSUME LandInv, NEW i \in DOMAIN records, ReleaseQuarantine(i)
  PROVE  LandInv' /\ Extends(records, records')
  <1>1. /\ records' = [records EXCEPT ![i].status = "landed", ![i].released = TRUE]
        /\ objects' = objects /\ sidecars' = sidecars /\ work' = work /\ put' = put
    BY DEF ReleaseQuarantine, vaultVars
  <1>2. records \in Seq(Row) /\ RowsOK(records, Kept, records)
    BY DEF LandInv, RowsOK
  <1>3. /\ records' \in Seq(Row) /\ Len(records') = Len(records) /\ DOMAIN records' = DOMAIN records
        /\ \A j \in DOMAIN records : j # i => records'[j] = records[j]
        /\ records'[i] = [records[i] EXCEPT !.status = "landed", !.released = TRUE]
    <2>1. records[i] \in Row
      BY <1>2
    <2>2. [records[i] EXCEPT !.status = "landed", !.released = TRUE] \in Row
      BY <2>1 DEF Row
    <2>3. records' = [records EXCEPT ![i] = [records[i] EXCEPT !.status = "landed", !.released = TRUE]]
      BY <1>1, <1>2
    <2> QED BY <1>2, <2>2, <2>3
  <1>4. /\ records'[i].name = records[i].name /\ records'[i].content = records[i].content
        /\ records'[i].earlier = records[i].earlier /\ records'[i].released = TRUE
    BY <1>2, <1>3 DEF Row
  <1>5. \A j \in DOMAIN records : KeyOf(records'[j]) = KeyOf(records[j])
    BY <1>3, <1>4 DEF KeyOf
  <1>6. Extends(records, records')
    <2>1. DOMAIN records = 1..Len(records) /\ Len(records) \in Nat
      BY <1>2
    <2> QED BY <1>2, <1>3, <1>5, <2>1 DEF Extends
  <1>7. \A j \in DOMAIN records : records'[j].content \in Kept /\ WellJudged(records'[j], records')
    <2> SUFFICES ASSUME NEW j \in DOMAIN records
                 PROVE  records'[j].content \in Kept /\ WellJudged(records'[j], records')
      OBVIOUS
    <2>1. records[j].content \in Kept /\ WellJudged(records[j], records)
      BY <1>2 DEF RowsOK, Elements
    <2>2. WellJudged(records[j], records')
      BY <1>6, <2>1, WellJudgedStays
    <2>3. CASE j = i
      BY <1>4, <2>1, <2>2, <2>3 DEF WellJudged
    <2>4. CASE j # i
      BY <1>3, <2>1, <2>2, <2>4
    <2> QED BY <2>3, <2>4
  <1>8. RowsOK(records', Kept, records')
    BY <1>2, <1>3, <1>5, <1>7 DEF RowsOK, Elements
  <1>9. Kept' = Kept
    BY <1>1 DEF Kept
  <1>10. RowsOK(records, Kept, records)'
    BY <1>8, <1>9 DEF RowsOK
  <1>11. SessionsOK'
    <2>1. \A w \in Putters : SessionOK(work[w], put[w], objects, Kept, records')
      BY <1>6, SessionStays DEF LandInv, SessionsOK
    <2> QED BY <1>1, <1>9, <2>1 DEF SessionsOK
  <1>12. Keys(records') = Keys(records)
    BY <1>3, <1>5 DEF Keys, Elements
  <1>13. KeysApart'
    BY <1>1, <1>12, KeySets DEF LandInv, KeysApart
  <1> QED BY <1>1, <1>6, <1>10, <1>11, <1>13 DEF LandInv

\* Nothing is ever taken out of the vault or of source_record.
Grows ==
  /\ objects \subseteq objects' /\ DOMAIN sidecars \subseteq DOMAIN sidecars'
  /\ Extends(records, records')

\* A process whose artifact was landed when it began leaves everything as it is.
LeavesAll(w) ==
  work[w].again /\ <<work[w], put[w]>>' # <<work[w], put[w]>> =>
    UNCHANGED <<objects, sidecars, records, manualSource>>

LEMMA LandingOf ==
  ASSUME LandInv, NEW w \in Putters,
         \/ \E a \in Names \X Contents : LandUpload(w, a) \/ LandFile(w, a)
         \/ PutOn(w) \/ LookUp(w) \/ EnsureManualSource(w) \/ FindSiblings(w)
         \/ InsertRecord(w) \/ AuditLanding(w) \/ Report(w) \/ EndCommand(w)
         \/ RefusedInsert(w) \/ Die(w) \/ BreakDeadlock(w)
  PROVE  LandInv' /\ Grows /\ LeavesAll(w)
  <1>1. SessionOK(work[w], put[w], objects, Kept, records) /\ records \in Seq(Row)
    BY DEF LandInv, SessionsOK, RowsOK
  <1>2. Extends(records, records)
    BY <1>1, SameRecords
  <1>3. ASSUME NEW a \in Names \X Contents, LandUpload(w, a) \/ LandFile(w, a)
        PROVE  LandInv' /\ Grows /\ UNCHANGED <<objects, sidecars, records, manualSource>>
    <2>1. PICK kind : Receive(w, kind, a)
      BY <1>3 DEF LandUpload, LandFile
    <2>2. work[w].stage \in {"closed", "reported"}
      BY <1>3 DEF LandUpload, LandFile
    <2>3. LandInv'
      BY <2>1, <2>2, ReceiveStep
    <2>4. UNCHANGED <<objects, sidecars, records, manualSource>>
      BY <2>1 DEF Receive, BeginPut
    <2> QED BY <1>2, <2>3, <2>4 DEF Grows
  <1>4. CASE PutOn(w)
    <2>1. records' = records /\ manualSource' = manualSource
      BY <1>4 DEF PutOn, landVars
    <2> QED BY <1>2, <1>4, <2>1, PutStep DEF PutOn, Grows, LeavesAll
  <1>5. CASE LookUp(w)
    BY <1>2, <1>5, LookUpStep DEF LookUp, Grows, LeavesAll
  <1>6. CASE EnsureManualSource(w) \/ FindSiblings(w)
    <2>1. ~work[w].again
      BY <1>1, <1>6 DEF EnsureManualSource, FindSiblings, SessionOK, AgainOK
    <2> QED BY <1>2, <1>6, <2>1, JudgingStep
            DEF EnsureManualSource, FindSiblings, vaultVars, Grows, LeavesAll
  <1>7. CASE InsertRecord(w)
    BY <1>2, <1>7, InsertStep DEF InsertRecord, vaultVars, Grows, LeavesAll
  <1>8. CASE AuditLanding(w)
    <2>1. ~work[w].again /\ work[w].rows \in Seq(Row)
      BY <1>1, <1>8 DEF AuditLanding, SessionOK, AgainOK, RowsOK
    <2>2. Extends(records, records \o work[w].rows)
      <3>1. /\ records \o work[w].rows \in Seq(Row)
            /\ Len(records \o work[w].rows) = Len(records) + Len(work[w].rows)
            /\ \A i \in 1..Len(records) : (records \o work[w].rows)[i] = records[i]
        BY <1>1, <2>1, JoinedElements
      <3> QED BY <1>1, <2>1, <3>1 DEF Extends
    <2>3. records' \in {records, records \o work[w].rows}
      BY <1>8 DEF AuditLanding
    <2> QED BY <1>2, <1>8, <2>1, <2>2, <2>3, AuditStep
            DEF AuditLanding, vaultVars, Grows, LeavesAll
  <1>9. CASE Report(w)
    BY <1>2, <1>9, ReportStep DEF Report, vaultVars, Grows, LeavesAll
  <1>10. CASE EndCommand(w) \/ RefusedInsert(w) \/ Die(w) \/ BreakDeadlock(w)
    <2>1. Close(w)
      BY <1>10 DEF EndCommand, RefusedInsert, Die, BreakDeadlock
    <2> QED BY <1>2, <2>1, CloseStep DEF Close, Grows, LeavesAll
  <1> QED BY <1>3, <1>4, <1>5, <1>6, <1>7, <1>8, <1>9, <1>10 DEF LeavesAll

\* The others' sessions stand still, so a re-landing is only its own business.
LEMMA OthersStand ==
  ASSUME LandInv, NEW v \in Putters, NEW w \in Putters \ {v},
         \/ \E a \in Names \X Contents : LandUpload(v, a) \/ LandFile(v, a)
         \/ PutOn(v) \/ LookUp(v) \/ EnsureManualSource(v) \/ FindSiblings(v)
         \/ InsertRecord(v) \/ AuditLanding(v) \/ Report(v) \/ EndCommand(v)
         \/ RefusedInsert(v) \/ Die(v) \/ BreakDeadlock(v)
  PROVE  work'[w] = work[w] /\ put'[w] = put[w]
  <1> USE DEF LandInv
  <1>1. CASE \E a \in Names \X Contents : LandUpload(v, a) \/ LandFile(v, a)
    <2>1. PICK a \in Names \X Contents : LandUpload(v, a) \/ LandFile(v, a)
      BY <1>1
    <2>2. \E kind : Receive(v, kind, a)
      BY <2>1 DEF LandUpload, LandFile
    <2> QED BY <2>2 DEF Receive, BeginPut
  <1>2. CASE PutOn(v)
    <2>1. work' = work
      BY <1>2 DEF PutOn, landVars
    <2>2. put'[w] = put[w]
      BY <1>2 DEF PutOn, Putting, LinkObject, LinkSidecar, StatObject, PutObject, StatSidecar,
                  PutSidecar, Moved
    <2> QED BY <2>1, <2>2
  <1>3. CASE LookUp(v)
    BY <1>3 DEF LookUp
  <1>4. CASE EnsureManualSource(v) \/ FindSiblings(v) \/ InsertRecord(v)
    BY <1>4 DEF EnsureManualSource, FindSiblings, InsertRecord, vaultVars
  <1>5. CASE AuditLanding(v) \/ Report(v)
    BY <1>5 DEF AuditLanding, Report, vaultVars
  <1>6. CASE EndCommand(v) \/ RefusedInsert(v) \/ Die(v) \/ BreakDeadlock(v)
    BY <1>6 DEF EndCommand, RefusedInsert, Die, BreakDeadlock, Close
  <1> QED BY <1>1, <1>2, <1>3, <1>4, <1>5, <1>6

LEMMA LandStep ==
  ASSUME LandInv, LandNext
  PROVE  LandInv' /\ Grows /\ \A w \in Putters : LeavesAll(w)
  <1>1. CASE \E i \in DOMAIN records : ReleaseQuarantine(i)
    <2>1. PICK i \in DOMAIN records : ReleaseQuarantine(i)
      BY <1>1
    <2>2. UNCHANGED <<objects, sidecars, work, put>>
      BY <2>1 DEF ReleaseQuarantine, vaultVars
    <2> QED BY <2>1, <2>2, ReleaseStep DEF Grows, LeavesAll
  <1>2. ASSUME NEW v \in Putters,
               \/ \E a \in Names \X Contents : LandUpload(v, a) \/ LandFile(v, a)
               \/ PutOn(v) \/ LookUp(v) \/ EnsureManualSource(v) \/ FindSiblings(v)
               \/ InsertRecord(v) \/ AuditLanding(v) \/ Report(v) \/ EndCommand(v)
               \/ RefusedInsert(v) \/ Die(v) \/ BreakDeadlock(v)
        PROVE  LandInv' /\ Grows /\ \A w \in Putters : LeavesAll(w)
    <2>1. LandInv' /\ Grows /\ LeavesAll(v)
      BY <1>2, LandingOf
    <2>2. \A w \in Putters \ {v} : work'[w] = work[w] /\ put'[w] = put[w]
      BY <1>2, OthersStand
    <2> QED BY <2>1, <2>2 DEF LeavesAll
  <1> QED BY <1>1, <1>2 DEF LandNext

\* A put of the extraction only adds to the vault.
LEMMA VaultGrows ==
  ASSUME LandInv, UNCHANGED landVars, NEW c, PutWhole(c) \/ UNCHANGED vaultVars
  PROVE  LandInv' /\ Grows /\ (PutWhole(c) => c \in Kept') /\ work' = work /\ put' = put
  <1>1. /\ records' = records /\ work' = work /\ put' = put
        /\ records \in Seq(Row) /\ RowsOK(records, Kept, records)
    BY DEF landVars, vaultVars, PutWhole, LandInv, RowsOK
  <1>2. /\ objects \subseteq objects' /\ DOMAIN sidecars \subseteq DOMAIN sidecars'
        /\ PutWhole(c) => c \in objects' /\ c \in DOMAIN sidecars'
    BY DEF PutWhole, FirstSidecar, WithSidecar, vaultVars
  <1>3. Kept \subseteq Kept' /\ (PutWhole(c) => c \in Kept')
    BY <1>2 DEF Kept
  <1>4. Extends(records, records)
    BY <1>1, SameRecords
  <1>5. RowsOK(records, Kept', records)
    BY <1>1, <1>3, <1>4, RowsStay
  <1>6. \A w \in Putters : SessionOK(work[w], put[w], objects', Kept', records)
    BY <1>2, <1>3, <1>4, SessionStays DEF LandInv, SessionsOK
  <1>7. SessionsOK'
    BY <1>1, <1>6 DEF SessionsOK
  <1>8. RowsOK(records, Kept, records)'
    BY <1>1, <1>5 DEF RowsOK
  <1>9. KeysApart'
    BY <1>1, KeySets DEF LandInv, KeysApart
  <1> QED BY <1>1, <1>2, <1>3, <1>4, <1>7, <1>8, <1>9 DEF LandInv, Grows

LEMMA LandStart ==
  ASSUME LandInit
  PROVE  LandInv
  <1>1. /\ records = <<>> /\ work = [w \in Putters |-> NoLanding] /\ put = [w \in Putters |-> NoPut]
    BY DEF LandInit, VaultInit
  <1>2. RowsOK(records, Kept, records)
    BY <1>1 DEF RowsOK, Elements
  <1>3. SessionsOK
    BY <1>1, NoLandingOK DEF SessionsOK
  <1>4. KeysApart
    BY <1>1, KeySets, NoKeys, NoLandingOK DEF KeysApart
  <1> QED BY <1>1, <1>2, <1>3, <1>4 DEF LandInv

LEMMA KeptApart == LandInv => ArtifactsAreKeptApart /\ BytesBeforeRecord
  <1> SUFFICES ASSUME LandInv PROVE ArtifactsAreKeptApart /\ BytesBeforeRecord
    OBVIOUS
  <1>1. RowsOK(records, Kept, records)
    BY DEF LandInv
  <1>2. OneRecordPerArtifact
    BY <1>1 DEF RowsOK, OneRecordPerArtifact
  <1>3. NewVersionsWaitForAHuman
    BY <1>1 DEF RowsOK, NewVersionsWaitForAHuman, WellJudged, OneVersion, Elements
  <1>4. BytesBeforeRecord
    BY <1>1 DEF RowsOK, BytesBeforeRecord, Has, Kept
  <1> QED BY <1>2, <1>3, <1>4 DEF ArtifactsAreKeptApart
-----------------------------------------------------------------------------
(***************************************************************************)
(* Extraction.  What a pass has read stays true, for the tables only grow: *)
(* the record has a derivative, its names have mentions, a key is queued.  *)
(* So a pass that began after another was through finds what it left.      *)
(***************************************************************************)

\* resolve_norm_key, as a function of the memberships it reads.
NameIn(own, ref) ==
  LET known == {m \in DOMAIN own : m.ref = ref}
  IN  IF known = {} THEN Nobody ELSE own[CHOOSE m \in known : TRUE]
NamesIn(own) == [ref \in Refs |-> NameIn(own, ref)]

DraftKeys == {DraftKey(d) : d \in Elements(drafts)}

RowFor(q) == [producer |-> q.producer, record |-> q.record, anchors |-> q.anchors,
              ids |-> q.ids, status |-> "suggested"]

\* A PDF's text is there or will be, and a replay does not make it again.
TextOK(q) ==
  /\ \A d \in q.derivative : d.record = q.record
  /\ q.stage = "text" => q.derivative = {}
  /\ q.stage # "text" =>
       /\ records[q.record].content \in Pdf => q.derivative # {} \/ DerivativesOf(q.record) # {}
       /\ \A x \in q.seen : x.record = q.record => q.derivative = {}

\* Each name has its mention, which a replay has found and not made.
AnchorsOK(q) ==
  /\ q.stage \in {"text", "response", "mentions"} => q.mentions = {}
  /\ \A m \in q.mentions : m.record = q.record /\ m.ref \in Refs
  /\ q.stage \in {"resolve", "draft", "ending"} =>
       /\ q.anchors \in [Refs -> mentions \cup q.mentions]
       /\ \A ref \in Refs : q.anchors[ref].record = q.record /\ q.anchors[ref].ref = ref
       /\ \A x \in q.seen : x.record = q.record => q.mentions = {}

\* The draft is queued or will be; that of a replay is.
DraftingOK(q) ==
  q.stage = "ending" =>
    /\ \/ q.draft = <<>> /\ DraftKey(RowFor(q)) \in DraftKeys
       \/ q.draft = <<RowFor(q)>>
    /\ Unambiguous(q.record) =>
         \A x \in q.seen :
           x.record = q.record /\ x.producer = q.producer /\ x.found = q.found => q.draft = <<>>

PassOK(q) ==
  /\ DOMAIN q = {"stage", "record", "producer", "number", "seen", "derivative", "mentions",
                 "anchors", "ids", "found", "draft"}
  /\ q.stage \in {"text", "response", "mentions", "resolve", "draft", "ending"}
  /\ q.record \in DOMAIN records
  /\ q.seen \subseteq finished
  /\ TextOK(q) /\ AnchorsOK(q) /\ DraftingOK(q)
  /\ q.stage \in {"draft", "ending"} => q.ids = NamesIn(q.found)

PassKept(q, kept, recs) ==
  /\ \A d \in q.derivative : Text[recs[q.record].content] \in kept
  /\ q.stage \notin {"text", "response"} /\ q.producer = "semantic" => Response \in kept

\* What a pass that is through has left behind.
FinishedOK(x) ==
  /\ x.record \in DOMAIN records
  /\ records[x.record].content \in Pdf => DerivativesOf(x.record) # {}
  /\ \A ref \in Refs : MentionsFor(x.record, ref) # {}
  /\ \E k \in DraftKeys :
       /\ k[1] = x.producer /\ k[2] = x.record /\ k[4] = NamesIn(x.found)
       /\ \A ref \in Refs : k[3][ref] \in MentionsFor(x.record, ref)

DraftOK(d) ==
  /\ DOMAIN d = {"producer", "record", "anchors", "ids", "status"}
  /\ d.anchors \in [Refs -> mentions]
  /\ d.producer = "semantic" => Response \in Kept

TablesOK ==
  /\ \A d \in derivatives : d.record \in DOMAIN records /\ Text[records[d.record].content] \in Kept
  /\ \A m \in mentions : m.record \in DOMAIN records /\ m.ref \in Refs
  /\ DOMAIN owner \subseteq mentions
  /\ drafts \in Seq(Elements(drafts))
  /\ \A d \in Elements(drafts) : DraftOK(d)

\* A draft is decided once there is a review of it, and each review knew of all the
\* earlier ones of its draft that it does not overlap.
ReviewsOK ==
  /\ reviews \in Seq(Elements(reviews))
  /\ \A x \in Elements(reviews) : x.draft \in DOMAIN drafts
  /\ \A i \in DOMAIN drafts :
       drafts[i].status = "suggested" <=> \A x \in Elements(reviews) : x.draft # i
  /\ DecidedOnceUnlessOverlapping

\* A review in flight read a draft nobody had decided.
ReviewOK(r) ==
  /\ DOMAIN r = {"stage", "draft", "readAt", "opens"}
  /\ r.stage \in {"read", "dispatched"}
  /\ r.draft \in DOMAIN drafts
  /\ r.readAt \in 0..Len(reviews)
  /\ \A k \in 1..r.readAt : reviews[k].draft # r.draft
  /\ r.stage = "dispatched" => DOMAIN r.opens \subseteq mentions

PassesOK == \A p \in Passes : pass[p] = NoPass \/ (PassOK(pass[p]) /\ PassKept(pass[p], Kept, records))
AllReviewsOK == \A v \in Reviewers : review[v] = NoReview \/ ReviewOK(review[v])

IngestInv ==
  /\ LandInv
  /\ pass = [p \in Passes |-> pass[p]] /\ review = [v \in Reviewers |-> review[v]]
  /\ TablesOK /\ ReviewsOK
  /\ \A x \in finished : FinishedOK(x)
  /\ PassesOK /\ AllReviewsOK

TablesGrow ==
  /\ Grows
  /\ derivatives \subseteq derivatives' /\ mentions \subseteq mentions'
  /\ finished \subseteq finished' /\ DraftKeys \subseteq DraftKeys'

\* A record keeps its content.
LEMMA ContentStays ==
  ASSUME Grows, NEW r \in DOMAIN records
  PROVE  r \in DOMAIN records' /\ records'[r].content = records[r].content
  BY DEF Grows, Extends, KeyOf

LEMMA KeptGrows == Grows => Kept \subseteq Kept'
  BY DEF Grows, Kept

LEMMA FinishedStays ==
  ASSUME TablesGrow, NEW x, FinishedOK(x)
  PROVE  FinishedOK(x)'
  <1>1. /\ x.record \in DOMAIN records' /\ records'[x.record].content = records[x.record].content
    BY ContentStays DEF TablesGrow, FinishedOK
  <1>2. DerivativesOf(x.record) \subseteq DerivativesOf(x.record)'
    BY DEF TablesGrow, DerivativesOf
  <1>3. \A ref \in Refs : MentionsFor(x.record, ref) \subseteq MentionsFor(x.record, ref)'
    BY DEF TablesGrow, MentionsFor
  <1> QED BY <1>1, <1>2, <1>3 DEF TablesGrow, FinishedOK

\* What a pass relies on while others go on.
LEMMA PassStays ==
  ASSUME TablesGrow, NEW p \in Passes, pass'[p] = pass[p], PassOK(pass[p]),
         PassKept(pass[p], Kept, records)
  PROVE  PassOK(pass[p])' /\ PassKept(pass[p], Kept, records)'
  <1> DEFINE q == pass[p]
  <1>1. q.record \in DOMAIN records' /\ records'[q.record].content = records[q.record].content
    BY ContentStays DEF TablesGrow, PassOK
  <1>2. DerivativesOf(q.record) \subseteq DerivativesOf(q.record)'
    BY DEF TablesGrow, DerivativesOf
  <1>3. TextOK(q)'
    BY <1>1, <1>2 DEF PassOK, TextOK
  <1>4. AnchorsOK(q)'
    BY DEF TablesGrow, PassOK, AnchorsOK
  <1>5. Unambiguous(q.record)' => Unambiguous(q.record)
    BY DEF TablesGrow, Unambiguous, MentionsFor
  <1>6. DraftKey(RowFor(q))' = DraftKey(RowFor(q)) /\ RowFor(q)' = RowFor(q)
    BY DEF DraftKey, RowFor
  <1>7. DraftingOK(q)'
    BY <1>5, <1>6 DEF TablesGrow, PassOK, DraftingOK
  <1>8. PassOK(q)'
    BY <1>1, <1>3, <1>4, <1>7 DEF TablesGrow, PassOK
  <1>9. PassKept(q, Kept, records)'
    BY <1>1, KeptGrows DEF TablesGrow, PassKept
  <1> QED BY <1>8, <1>9

\* While no pass and no review commits, the tables keep their invariants.
LEMMA TablesStand ==
  ASSUME IngestInv, LandInv', Grows,
         UNCHANGED <<derivatives, mentions, owner, drafts, reviews, finished>>
  PROVE  /\ TablesGrow /\ TablesOK' /\ ReviewsOK' /\ \A x \in finished' : FinishedOK(x)'
  <1>1. DraftKeys' = DraftKeys
    BY DEF DraftKeys, DraftKey, Elements
  <1>2. TablesGrow
    BY <1>1 DEF TablesGrow
  <1>3. Kept \subseteq Kept'
    BY KeptGrows
  <1>4. \A d \in derivatives : d.record \in DOMAIN records' /\ Text[records'[d.record].content] \in Kept'
    BY <1>3, ContentStays DEF IngestInv, TablesOK
  <1>5. \A m \in mentions : m.record \in DOMAIN records' /\ m.ref \in Refs
    BY ContentStays DEF IngestInv, TablesOK
  <1>6. \A d \in Elements(drafts) : DraftOK(d)'
    BY <1>3 DEF IngestInv, TablesOK, DraftOK
  <1>7. TablesOK'
    BY <1>4, <1>5, <1>6 DEF IngestInv, TablesOK, Elements, DraftOK
  <1>8. ReviewsOK'
    BY DEF IngestInv, ReviewsOK, Elements, DecidedOnceUnlessOverlapping
  <1>9. \A x \in finished' : FinishedOK(x)'
    BY <1>2, FinishedStays DEF IngestInv
  <1> QED BY <1>2, <1>7, <1>8, <1>9

\* A pass that is still at work changes its own memory and at most the vault.
LEMMA OwnPass ==
  ASSUME IngestInv, NEW p \in Passes, LandInv', Grows, UNCHANGED landVars,
         UNCHANGED <<derivatives, mentions, owner, drafts, reviews, review, finished>>,
         pass' = [u \in Passes |-> pass'[u]],
         \A u \in Passes \ {p} : pass'[u] = pass[u],
         pass'[p] = NoPass \/ (PassOK(pass'[p]) /\ PassKept(pass'[p], Kept', records))
  PROVE  IngestInv'
  <1>1. /\ TablesGrow /\ TablesOK' /\ ReviewsOK' /\ \A x \in finished' : FinishedOK(x)'
    BY TablesStand
  <1>2. records' = records
    BY DEF landVars
  <1>3. ASSUME NEW u \in Passes
        PROVE  (pass[u] = NoPass \/ (PassOK(pass[u]) /\ PassKept(pass[u], Kept, records)))'
    <2>1. CASE u = p
      <3>1. CASE pass'[p] = NoPass
        BY <2>1, <3>1 DEF NoPass
      <3>2. CASE PassOK(pass'[p]) /\ PassKept(pass'[p], Kept', records)
        <4>1. PassOK(pass[p])'
          <5>1. /\ TextOK(pass[p])' <=> TextOK(pass'[p])
                /\ AnchorsOK(pass[p])' <=> AnchorsOK(pass'[p])
            BY <1>2 DEF TextOK, AnchorsOK, DerivativesOf
          <5>2. DraftKeys' = DraftKeys /\ \A r : Unambiguous(r)' <=> Unambiguous(r)
            BY DEF DraftKeys, DraftKey, Elements, Unambiguous, MentionsFor
          <5>3. DraftingOK(pass[p])' <=> DraftingOK(pass'[p])
            BY <5>2 DEF DraftingOK, DraftKey, RowFor
          <5> QED BY <1>2, <3>2, <5>1, <5>3 DEF PassOK
        <4>2. PassKept(pass[p], Kept, records)'
          BY <1>2, <3>2 DEF PassKept
        <4> QED BY <2>1, <4>1, <4>2
      <3> QED BY <3>1, <3>2
    <2>2. CASE u # p
      <3>1. pass'[u] = pass[u]
        BY <2>2
      <3>2. CASE pass[u] = NoPass
        BY <3>1, <3>2 DEF NoPass
      <3>3. CASE PassOK(pass[u]) /\ PassKept(pass[u], Kept, records)
        BY <1>1, <3>1, <3>3, PassStays
      <3> QED BY <3>2, <3>3 DEF IngestInv, PassesOK
    <2> QED BY <2>1, <2>2
  <1>4. PassesOK'
    BY <1>3 DEF PassesOK
  <1>5. AllReviewsOK'
    BY DEF IngestInv, AllReviewsOK, ReviewOK, NoReview
  <1> QED BY <1>1, <1>4, <1>5 DEF IngestInv

LEMMA StartStep ==
  ASSUME IngestInv, NEW p \in Passes, NEW r \in DOMAIN records, NEW producer,
         StartPass(p, r, producer)
  PROVE  IngestInv'
  <1>1. /\ UNCHANGED vaultVars /\ UNCHANGED landVars
        /\ UNCHANGED <<derivatives, mentions, owner, drafts, reviews, review, finished>>
    BY DEF StartPass
  <1>2. LandInv' /\ Grows
    BY <1>1, VaultGrows DEF IngestInv
  <1>3. /\ pass' = [u \in Passes |-> pass'[u]] /\ \A u \in Passes \ {p} : pass'[u] = pass[u]
        /\ pass'[p] = [stage |-> "text", record |-> r, producer |-> producer, number |-> begun + 1,
                       seen |-> finished, derivative |-> {}, mentions |-> {}, anchors |-> <<>>,
                       ids |-> <<>>, found |-> owner, draft |-> <<>>]
    BY DEF StartPass, IngestInv
  <1>4. PassOK(pass'[p])
    BY <1>3 DEF PassOK, TextOK, AnchorsOK, DraftingOK
  <1>5. PassKept(pass'[p], Kept', records)
    BY <1>3 DEF PassKept
  <1> QED BY <1>1, <1>2, <1>3, <1>4, <1>5, OwnPass

LEMMA TextStep ==
  ASSUME IngestInv, NEW p \in Passes, EnsureText(p)
  PROVE  IngestInv'
  <1> DEFINE q == pass[p]
             c == records[q.record].content
             missing == c \in Pdf /\ DerivativesOf(q.record) = {}
  <1>1. /\ PassOK(q) /\ PassKept(q, Kept, records) /\ q.stage = "text"
    BY DEF EnsureText, IngestInv, PassesOK, NoPass
  <1>2. /\ UNCHANGED landVars /\ records' = records
        /\ UNCHANGED <<derivatives, mentions, owner, drafts, reviews, review, finished>>
        /\ missing => PutWhole(Text[c])
        /\ ~missing => UNCHANGED vaultVars
    BY DEF EnsureText, landVars
  <1>3. LandInv' /\ Grows /\ (missing => Text[c] \in Kept')
    BY <1>2, VaultGrows DEF IngestInv
  <1>4. /\ pass' = [u \in Passes |-> pass'[u]] /\ \A u \in Passes \ {p} : pass'[u] = pass[u]
        /\ DOMAIN pass'[p] = DOMAIN q /\ pass'[p].stage = "response"
        /\ pass'[p].record = q.record /\ pass'[p].producer = q.producer
        /\ pass'[p].seen = q.seen /\ pass'[p].mentions = q.mentions
        /\ missing => pass'[p].derivative = {Derivative(p)}
        /\ ~missing => pass'[p].derivative = q.derivative
    <2>1. CASE missing
      <3>1. pass' = [pass EXCEPT ![p].stage = "response", ![p].derivative = {Derivative(p)}]
        BY <2>1 DEF EnsureText
      <3> HIDE DEF missing
      <3> QED BY <1>1, <2>1, <3>1 DEF IngestInv, PassOK
    <2>2. CASE ~missing
      <3>1. pass' = [pass EXCEPT ![p].stage = "response"]
        BY <2>2 DEF EnsureText
      <3> HIDE DEF missing
      <3> QED BY <1>1, <2>2, <3>1 DEF IngestInv, PassOK
    <2> QED BY <2>1, <2>2
  <1>5. Derivative(p).record = q.record
    BY DEF Derivative
  <1>6. TextOK(pass'[p])
    <2>1. \A x \in finished : x.record = q.record => ~missing
      BY DEF IngestInv, FinishedOK
    <2>2. q.seen \subseteq finished
      BY <1>1 DEF PassOK
    <2> QED BY <1>1, <1>4, <1>5, <2>1, <2>2 DEF PassOK, TextOK
  <1>7. PassOK(pass'[p])
    BY <1>1, <1>4, <1>6 DEF PassOK, AnchorsOK, DraftingOK
  <1>8. PassKept(pass'[p], Kept', records)
    BY <1>1, <1>3, <1>4 DEF PassOK, TextOK, PassKept
  <1> QED BY <1>2, <1>3, <1>4, <1>7, <1>8, OwnPass

LEMMA ResponseStep ==
  ASSUME IngestInv, NEW p \in Passes, VaultResponse(p)
  PROVE  IngestInv'
  <1> DEFINE q == pass[p]
  <1>1. /\ PassOK(q) /\ PassKept(q, Kept, records) /\ q.stage = "response"
    BY DEF VaultResponse, IngestInv, PassesOK, NoPass
  <1>2. /\ UNCHANGED landVars /\ records' = records
        /\ UNCHANGED <<derivatives, mentions, owner, drafts, reviews, review, finished>>
        /\ q.producer = "semantic" => PutWhole(Response)
        /\ q.producer # "semantic" => UNCHANGED vaultVars
    BY DEF VaultResponse, landVars
  <1>3. LandInv' /\ Grows /\ (q.producer = "semantic" => Response \in Kept')
    BY <1>2, VaultGrows DEF IngestInv
  <1>4. /\ pass' = [u \in Passes |-> pass'[u]] /\ \A u \in Passes \ {p} : pass'[u] = pass[u]
        /\ DOMAIN pass'[p] = DOMAIN q /\ pass'[p].stage = "mentions"
        /\ pass'[p].record = q.record /\ pass'[p].producer = q.producer
        /\ pass'[p].seen = q.seen /\ pass'[p].mentions = q.mentions
        /\ pass'[p].derivative = q.derivative
    BY <1>1 DEF VaultResponse, IngestInv, PassOK
  <1>5. PassOK(pass'[p])
    BY <1>1, <1>4 DEF PassOK, TextOK, AnchorsOK, DraftingOK
  <1>6. PassKept(pass'[p], Kept', records)
    <2>1. Kept \subseteq Kept'
      BY <1>3, KeptGrows
    <2> QED BY <1>1, <1>3, <1>4, <2>1 DEF PassKept
  <1> QED BY <1>2, <1>3, <1>4, <1>5, <1>6, OwnPass

\* A pass over a record another has been through finds a mention of every name.
LEMMA AnchorStep ==
  ASSUME IngestInv, NEW p \in Passes, ReadMentions(p)
  PROVE  IngestInv'
  <1> DEFINE q == pass[p]
  <1>1. /\ PassOK(q) /\ PassKept(q, Kept, records) /\ q.stage = "mentions"
    BY DEF ReadMentions, IngestInv, PassesOK, NoPass
  <1>2. /\ UNCHANGED landVars /\ records' = records /\ UNCHANGED vaultVars
        /\ UNCHANGED <<derivatives, mentions, owner, drafts, reviews, review, finished>>
    BY DEF ReadMentions, landVars
  <1>3. LandInv' /\ Grows
    BY <1>2, VaultGrows DEF IngestInv
  <1>4. PICK anchors \in [Refs -> UNION {Anchor(p, ref) : ref \in Refs}] :
          /\ \A ref \in Refs : anchors[ref] \in Anchor(p, ref)
          /\ pass' = [pass EXCEPT ![p].stage = "resolve", ![p].anchors = anchors,
                                  ![p].mentions = {anchors[ref] : ref \in Refs} \ mentions]
    BY DEF ReadMentions
  <1> DEFINE made == {anchors[ref] : ref \in Refs} \ mentions
  <1>5. /\ pass' = [u \in Passes |-> pass'[u]] /\ \A u \in Passes \ {p} : pass'[u] = pass[u]
        /\ DOMAIN pass'[p] = DOMAIN q /\ pass'[p].stage = "resolve"
        /\ pass'[p].record = q.record /\ pass'[p].producer = q.producer
        /\ pass'[p].seen = q.seen /\ pass'[p].mentions = made /\ pass'[p].anchors = anchors
        /\ pass'[p].derivative = q.derivative
    <2> HIDE DEF made
    <2>1. pass' = [pass EXCEPT ![p].stage = "resolve", ![p].anchors = anchors, ![p].mentions = made]
      BY <1>4 DEF made
    <2> QED BY <1>1, <2>1 DEF IngestInv, PassOK
  <1>6. \A ref \in Refs :
          /\ anchors[ref].record = q.record /\ anchors[ref].ref = ref
          /\ anchors[ref] \in mentions \cup made
          /\ MentionsFor(q.record, ref) # {} => anchors[ref] \in mentions
    BY <1>4 DEF Anchor, MentionsFor, Mention
  <1>7. \A x \in q.seen : x.record = q.record => made = {}
    <2>1. \A x \in q.seen : x.record = q.record =>
            \A ref \in Refs : MentionsFor(q.record, ref) # {}
      BY <1>1 DEF PassOK, IngestInv, FinishedOK
    <2> QED BY <1>6, <2>1
  <1>8. \A m \in made : m.record = q.record /\ m.ref \in Refs
    BY <1>6
  <1>9. anchors \in [Refs -> mentions \cup made]
    BY <1>4, <1>6
  <1> HIDE DEF made
  <1>10. AnchorsOK(pass'[p])
    BY <1>5, <1>6, <1>7, <1>8, <1>9 DEF AnchorsOK
  <1>11. PassOK(pass'[p])
    BY <1>1, <1>5, <1>10 DEF PassOK, TextOK, DraftingOK
  <1>12. PassKept(pass'[p], Kept', records)
    <2>1. Kept \subseteq Kept'
      BY <1>3, KeptGrows
    <2> QED BY <1>1, <1>5, <2>1 DEF PassKept
  <1> QED BY <1>2, <1>3, <1>5, <1>11, <1>12, OwnPass

LEMMA NameStep ==
  ASSUME IngestInv, NEW p \in Passes, ResolveNames(p)
  PROVE  IngestInv'
  <1> DEFINE q == pass[p]
  <1>1. /\ PassOK(q) /\ PassKept(q, Kept, records) /\ q.stage = "resolve"
    BY DEF ResolveNames, IngestInv, PassesOK, NoPass
  <1>2. /\ UNCHANGED landVars /\ records' = records /\ UNCHANGED vaultVars
        /\ UNCHANGED <<derivatives, mentions, owner, drafts, reviews, review, finished>>
    BY DEF ResolveNames, landVars
  <1>3. LandInv' /\ Grows
    BY <1>2, VaultGrows DEF IngestInv
  <1>4. \A ref \in Refs : ResolveNormKey(ref) = NameIn(owner, ref)
    BY DEF ResolveNormKey, NameIn
  <1>5. [ref \in Refs |-> ResolveNormKey(ref)] = NamesIn(owner)
    BY <1>4 DEF NamesIn
  <1>6. pass' = [pass EXCEPT ![p].stage = "draft", ![p].found = owner, ![p].ids = NamesIn(owner)]
    BY <1>5 DEF ResolveNames
  <1>7. /\ pass' = [u \in Passes |-> pass'[u]] /\ \A u \in Passes \ {p} : pass'[u] = pass[u]
        /\ DOMAIN pass'[p] = DOMAIN q /\ pass'[p].stage = "draft"
        /\ pass'[p].record = q.record /\ pass'[p].producer = q.producer
        /\ pass'[p].seen = q.seen /\ pass'[p].mentions = q.mentions
        /\ pass'[p].anchors = q.anchors /\ pass'[p].derivative = q.derivative
        /\ pass'[p].found = owner /\ pass'[p].ids = NamesIn(owner)
    BY <1>1, <1>6 DEF IngestInv, PassOK
  <1>8. PassOK(pass'[p])
    BY <1>1, <1>7 DEF PassOK, TextOK, AnchorsOK, DraftingOK
  <1>9. PassKept(pass'[p], Kept', records)
    <2>1. Kept \subseteq Kept'
      BY <1>3, KeptGrows
    <2> QED BY <1>1, <1>7, <2>1 DEF PassKept
  <1> QED BY <1>2, <1>3, <1>7, <1>8, <1>9, OwnPass

\* A replay that finds the names resolved as before has the key of what was queued.
LEMMA DraftStep ==
  ASSUME IngestInv, NEW p \in Passes, SubmitDraft(p)
  PROVE  IngestInv'
  <1> DEFINE q == pass[p]
             row == RowFor(q)
             queued == DraftKey(row) \in DraftKeys
  <1>1. /\ PassOK(q) /\ PassKept(q, Kept, records) /\ q.stage = "draft"
    BY DEF SubmitDraft, IngestInv, PassesOK, NoPass
  <1>2. /\ UNCHANGED landVars /\ records' = records /\ UNCHANGED vaultVars
        /\ UNCHANGED <<derivatives, mentions, owner, drafts, reviews, review, finished>>
    BY DEF SubmitDraft, landVars
  <1>3. LandInv' /\ Grows
    BY <1>2, VaultGrows DEF IngestInv
  <1>4. DraftOf(p) = row /\ (Queued(row) <=> queued)
    BY DEF DraftOf, RowFor, Queued, DraftKeys
  <1>5. pass' = [pass EXCEPT ![p].stage = "ending", ![p].draft = IF queued THEN <<>> ELSE <<row>>]
    BY <1>4 DEF SubmitDraft
  <1> HIDE DEF queued, row
  <1>6. /\ pass' = [u \in Passes |-> pass'[u]] /\ \A u \in Passes \ {p} : pass'[u] = pass[u]
        /\ DOMAIN pass'[p] = DOMAIN q /\ pass'[p].stage = "ending"
        /\ pass'[p].record = q.record /\ pass'[p].producer = q.producer
        /\ pass'[p].seen = q.seen /\ pass'[p].mentions = q.mentions
        /\ pass'[p].anchors = q.anchors /\ pass'[p].derivative = q.derivative
        /\ pass'[p].found = q.found /\ pass'[p].ids = q.ids
        /\ pass'[p].draft = IF queued THEN <<>> ELSE <<row>>
    BY <1>1, <1>5 DEF IngestInv, PassOK
  <1>7. RowFor(pass'[p]) = row
    BY <1>6 DEF RowFor, row
  <1>8. ASSUME Unambiguous(q.record), NEW x \in q.seen,
               x.record = q.record, x.producer = q.producer, x.found = q.found
        PROVE  queued
    <2>1. FinishedOK(x) /\ q.mentions = {} /\ q.ids = NamesIn(q.found)
          /\ q.anchors \in [Refs -> mentions]
          /\ \A ref \in Refs : q.anchors[ref].record = q.record /\ q.anchors[ref].ref = ref
      BY <1>1, <1>8 DEF PassOK, AnchorsOK, IngestInv
    <2>2. PICK k \in DraftKeys :
            /\ k[1] = x.producer /\ k[2] = x.record /\ k[4] = NamesIn(x.found)
            /\ \A ref \in Refs : k[3][ref] \in MentionsFor(x.record, ref)
      BY <2>1 DEF FinishedOK
    <2>3. PICK d \in Elements(drafts) : k = DraftKey(d)
      BY DEF DraftKeys
    <2>4. d.anchors \in [Refs -> mentions]
      BY DEF IngestInv, TablesOK, DraftOK
    <2>5. \A ref \in Refs : d.anchors[ref] = q.anchors[ref]
      <3> SUFFICES ASSUME NEW ref \in Refs PROVE d.anchors[ref] = q.anchors[ref]
        OBVIOUS
      <3>1. d.anchors[ref] \in MentionsFor(q.record, ref)
        BY <1>8, <2>2, <2>3 DEF DraftKey
      <3>2. q.anchors[ref] \in MentionsFor(q.record, ref)
        BY <2>1 DEF MentionsFor
      <3> QED BY <1>8, <3>1, <3>2 DEF Unambiguous
    <2>6. d.anchors = q.anchors
      BY <2>1, <2>4, <2>5
    <2>7. DraftKey(d) = DraftKey(row)
      BY <1>8, <2>1, <2>2, <2>3, <2>6 DEF DraftKey, RowFor, row
    <2> QED BY <2>7 DEF DraftKeys, queued
  <1>9. DraftingOK(pass'[p])
    BY <1>6, <1>7, <1>8 DEF DraftingOK, queued
  <1>10. PassOK(pass'[p])
    BY <1>1, <1>6, <1>9 DEF PassOK, TextOK, AnchorsOK
  <1>11. PassKept(pass'[p], Kept', records)
    <2>1. Kept \subseteq Kept'
      BY <1>3, KeptGrows
    <2> QED BY <1>1, <1>6, <2>1 DEF PassKept
  <1> QED BY <1>2, <1>3, <1>6, <1>10, <1>11, OwnPass

LEMMA AbortPassStep ==
  ASSUME IngestInv, NEW p \in Passes, AbortPass(p)
  PROVE  IngestInv'
  <1>1. /\ UNCHANGED landVars /\ UNCHANGED vaultVars
        /\ UNCHANGED <<derivatives, mentions, owner, drafts, reviews, review, finished>>
        /\ pass' = [u \in Passes |-> pass'[u]] /\ \A u \in Passes \ {p} : pass'[u] = pass[u]
        /\ pass'[p] = NoPass
    BY DEF AbortPass, IngestInv
  <1> QED BY <1>1, VaultGrows, OwnPass DEF IngestInv

\* The passes of whom nothing is heard, when the tables grow.
LEMMA PassesStand ==
  ASSUME IngestInv, TablesGrow, \A u \in Passes : pass'[u] = pass[u]
  PROVE  PassesOK'
  <1>1. ASSUME NEW u \in Passes
        PROVE  (pass[u] = NoPass \/ (PassOK(pass[u]) /\ PassKept(pass[u], Kept, records)))'
    <2>1. CASE pass[u] = NoPass
      BY <2>1 DEF NoPass
    <2>2. CASE PassOK(pass[u]) /\ PassKept(pass[u], Kept, records)
      BY <2>2, PassStays
    <2> QED BY <2>1, <2>2 DEF IngestInv, PassesOK
  <1> QED BY <1>1 DEF PassesOK

\* Those beside one that ends.
LEMMA OthersStay ==
  ASSUME IngestInv, TablesGrow, NEW p, pass' = [u \in Passes |-> pass'[u]],
         \A u \in Passes \ {p} : pass'[u] = pass[u], p \in Passes => pass'[p] = NoPass
  PROVE  PassesOK' /\ \A x \in finished : FinishedOK(x)'
  <1>1. ASSUME NEW u \in Passes
        PROVE  (pass[u] = NoPass \/ (PassOK(pass[u]) /\ PassKept(pass[u], Kept, records)))'
    <2>1. CASE u = p
      BY <2>1 DEF NoPass
    <2>2. CASE u # p
      <3>1. pass'[u] = pass[u]
        BY <2>2
      <3>2. CASE pass[u] = NoPass
        BY <3>1, <3>2 DEF NoPass
      <3>3. CASE PassOK(pass[u]) /\ PassKept(pass[u], Kept, records)
        BY <3>1, <3>3, PassStays
      <3> QED BY <3>2, <3>3 DEF IngestInv, PassesOK
    <2> QED BY <2>1, <2>2
  <1> QED BY <1>1, FinishedStays DEF PassesOK, IngestInv

LEMMA SeqOfElements ==
  ASSUME NEW S, NEW s \in Seq(S)
  PROVE  s \in Seq(Elements(s))
  BY DEF Elements

LEMMA WiderSeq ==
  ASSUME NEW S, NEW T, S \subseteq T, NEW s \in Seq(S)
  PROVE  s \in Seq(T)
  OBVIOUS

LEMMA CopiedDraft ==
  ASSUME NEW x, NEW s \in {<<>>, <<x>>}
  PROVE  [i \in DOMAIN s |-> x] = s
  <1>1. CASE s = <<>>
    BY <1>1
  <1>2. CASE s = <<x>>
    BY <1>2
  <1> QED BY <1>1, <1>2

LEMMA OneMore ==
  ASSUME NEW n \in Nat, NEW m \in 0..1, NEW i \in 1..(n + m), i \notin 1..n
  PROVE  i = n + 1 /\ m = 1
  OBVIOUS

LEMMA CommitPassStep ==
  ASSUME IngestInv, NEW p \in Passes, CommitPass(p)
  PROVE  IngestInv'
  <1>0. PICK q, row, left :
           /\ q = pass[p] /\ row = RowFor(q)
           /\ left = [record |-> q.record, producer |-> q.producer, found |-> q.found]
    OBVIOUS
  <1>1. /\ PassOK(q) /\ PassKept(q, Kept, records) /\ q.stage = "ending"
    BY <1>0 DEF CommitPass, IngestInv, PassesOK, NoPass
  <1>2. /\ UNCHANGED landVars /\ UNCHANGED vaultVars /\ records' = records /\ Kept' = Kept
        /\ owner' = owner /\ reviews' = reviews /\ review' = review
        /\ derivatives' = derivatives \cup q.derivative
        /\ mentions' = mentions \cup q.mentions
        /\ finished' = finished \cup {left}
    BY <1>0 DEF CommitPass, landVars, vaultVars, Kept
  <1>3. (q.draft = <<>> /\ DraftKey(row) \in DraftKeys) \/ q.draft = <<row>>
    BY <1>1, <1>0 DEF PassOK, DraftingOK
  <1>4. drafts' = drafts \o q.draft
    <2>1. DraftOf(p) = row
      BY <1>0 DEF DraftOf, RowFor
    <2>2. [i \in DOMAIN q.draft |-> row] = q.draft
      BY <1>3, CopiedDraft
    <2>3. drafts' = drafts \o [i \in DOMAIN q.draft |-> DraftOf(p)]
      BY <1>0 DEF CommitPass
    <2> QED BY <2>1, <2>2, <2>3
  <1>5. /\ pass' = [u \in Passes |-> pass'[u]] /\ \A u \in Passes \ {p} : pass'[u] = pass[u]
        /\ pass'[p] = NoPass
    BY DEF CommitPass, IngestInv
  <1>6. LandInv' /\ Grows
    BY <1>2, VaultGrows DEF IngestInv
  <1>7. /\ drafts' \in Seq(Elements(drafts')) /\ Elements(drafts') = Elements(drafts) \cup Elements(q.draft)
        /\ Elements(q.draft) \subseteq {row}
        /\ Len(drafts) <= Len(drafts') /\ Len(drafts) \in Nat /\ Len(drafts') \in Nat
        /\ \A i \in 1..Len(drafts) : drafts'[i] = drafts[i]
        /\ \A i \in DOMAIN drafts' : i \in DOMAIN drafts \/ drafts'[i] = row
        /\ DOMAIN drafts = 1..Len(drafts) /\ DOMAIN drafts' = 1..Len(drafts')
    <2> DEFINE S == Elements(drafts) \cup {row}
    <2>1. drafts \in Seq(Elements(drafts)) /\ Elements(drafts) \subseteq S
      BY DEF IngestInv, TablesOK
    <2>2. drafts \in Seq(S)
      BY <2>1, WiderSeq
    <2> HIDE DEF S
    <2>3. q.draft \in Seq(S) /\ Len(q.draft) \in 0..1 /\ \A i \in 1..Len(q.draft) : q.draft[i] = row
      <3>1. CASE q.draft = <<>>
        BY <3>1
      <3>2. CASE q.draft = <<row>>
        BY <3>2 DEF S
      <3> QED BY <1>3, <3>1, <3>2
    <2>4. /\ drafts' \in Seq(S) /\ Len(drafts') = Len(drafts) + Len(q.draft)
          /\ Elements(drafts') = Elements(drafts) \cup Elements(q.draft)
          /\ \A i \in 1..Len(drafts) : drafts'[i] = drafts[i]
          /\ \A i \in 1..Len(q.draft) : drafts'[Len(drafts) + i] = q.draft[i]
      BY <1>4, <2>2, <2>3, JoinedElements
    <2>5. Len(drafts) \in Nat /\ DOMAIN drafts = 1..Len(drafts) /\ DOMAIN drafts' = 1..Len(drafts')
      BY <2>2, <2>4
    <2>6. \A i \in DOMAIN drafts' : i \in DOMAIN drafts \/ drafts'[i] = row
      <3> SUFFICES ASSUME NEW i \in 1..Len(drafts'), i \notin 1..Len(drafts)
                   PROVE  drafts'[i] = row
        BY <2>5
      <3>1. i = Len(drafts) + 1 /\ Len(q.draft) = 1
        BY <2>3, <2>4, <2>5, OneMore
      <3>2. drafts'[Len(drafts) + 1] = q.draft[1]
        BY <2>4, <3>1
      <3> QED BY <2>3, <3>1, <3>2
    <2>7. Elements(q.draft) \subseteq {row}
      BY <2>3 DEF Elements
    <2> QED BY <2>3, <2>4, <2>5, <2>6, <2>7, SeqOfElements
  <1>8. DraftKeys' = DraftKeys \cup {DraftKey(row)}
    <2>1. DraftKeys' = DraftKeys \cup {DraftKey(d) : d \in Elements(q.draft)}
      BY <1>7 DEF DraftKeys
    <2>2. CASE q.draft = <<>>
      BY <1>3, <2>1, <2>2 DEF Elements
    <2>3. CASE q.draft = <<row>>
      BY <2>1, <2>3 DEF Elements
    <2> QED BY <1>3, <2>2, <2>3
  <1>9. TablesGrow
    BY <1>2, <1>6, <1>8 DEF TablesGrow
  <1>10. /\ q.record \in DOMAIN records
         /\ \A d \in q.derivative : d.record = q.record /\ Text[records[q.record].content] \in Kept
         /\ \A m \in q.mentions : m.record = q.record /\ m.ref \in Refs
         /\ q.anchors \in [Refs -> mentions']
         /\ \A ref \in Refs : q.anchors[ref].record = q.record /\ q.anchors[ref].ref = ref
         /\ q.ids = NamesIn(q.found)
    BY <1>1, <1>2 DEF PassOK, PassKept, TextOK, AnchorsOK
  <1>11. TablesOK'
    <2>1. \A d \in derivatives' : d.record \in DOMAIN records /\ Text[records[d.record].content] \in Kept
      BY <1>2, <1>10 DEF IngestInv, TablesOK
    <2>2. \A m \in mentions' : m.record \in DOMAIN records /\ m.ref \in Refs
      BY <1>2, <1>10 DEF IngestInv, TablesOK
    <2>3. \A d \in Elements(drafts) : DraftOK(d)'
      BY <1>2 DEF IngestInv, TablesOK, DraftOK
    <2>4. /\ DOMAIN row = {"producer", "record", "anchors", "ids", "status"}
          /\ row.anchors = q.anchors /\ row.producer = q.producer
      BY <1>0 DEF RowFor
    <2>5. DraftOK(row)'
      <3>1. row.producer = "semantic" => Response \in Kept'
        BY <1>1, <1>2, <2>4 DEF PassKept
      <3> QED BY <1>10, <2>4, <3>1 DEF DraftOK
    <2>6. \A d \in Elements(drafts') : DraftOK(d)'
      BY <1>7, <2>3, <2>5
    <2> QED BY <1>2, <1>7, <2>1, <2>2, <2>6 DEF IngestInv, TablesOK, Elements
  <1>12. ReviewsOK'
    <2>1. \A x \in Elements(reviews) : x.draft \in DOMAIN drafts /\ x.draft \in DOMAIN drafts'
      BY <1>7 DEF IngestInv, ReviewsOK
    <2>2. \A i \in DOMAIN drafts' :
            drafts'[i].status = "suggested" <=> \A x \in Elements(reviews) : x.draft # i
      <3> SUFFICES ASSUME NEW i \in DOMAIN drafts'
                   PROVE  drafts'[i].status = "suggested" <=> \A x \in Elements(reviews) : x.draft # i
        OBVIOUS
      <3>1. CASE i \in DOMAIN drafts
        BY <1>7, <3>1 DEF IngestInv, ReviewsOK
      <3>2. CASE i \notin DOMAIN drafts
        <4>1. drafts'[i].status = "suggested"
          BY <1>7, <1>0, <3>2 DEF RowFor
        <4> QED BY <2>1, <3>2, <4>1
      <3> QED BY <3>1, <3>2
    <2> QED BY <1>2, <2>1, <2>2 DEF IngestInv, ReviewsOK, Elements, DecidedOnceUnlessOverlapping
  <1>13. FinishedOK(left)'
    <2>1. records[q.record].content \in Pdf => DerivativesOf(q.record)' # {}
      BY <1>1, <1>2 DEF PassOK, TextOK, DerivativesOf
    <2>2. \A ref \in Refs : q.anchors[ref] \in MentionsFor(q.record, ref)'
      BY <1>10 DEF MentionsFor
    <2>3. /\ DraftKey(row)[1] = q.producer /\ DraftKey(row)[2] = q.record
          /\ DraftKey(row)[3] = q.anchors /\ DraftKey(row)[4] = NamesIn(q.found)
      BY <1>10, <1>0 DEF DraftKey, RowFor
    <2>4. DraftKey(row) \in DraftKeys'
      BY <1>8
    <2>5. left.record = q.record /\ left.producer = q.producer /\ left.found = q.found
      BY <1>0
    <2>6. \E k \in DraftKeys' :
            /\ k[1] = left.producer /\ k[2] = left.record /\ k[4] = NamesIn(left.found)
            /\ \A ref \in Refs : k[3][ref] \in MentionsFor(q.record, ref)'
      BY <2>2, <2>3, <2>4, <2>5
    <2> QED BY <1>2, <1>10, <2>1, <2>2, <2>5, <2>6 DEF FinishedOK
  <1>14. PassesOK' /\ \A x \in finished' : FinishedOK(x)'
    BY <1>2, <1>5, <1>9, <1>13, OthersStay
  <1>15. AllReviewsOK'
    BY <1>2, <1>7 DEF IngestInv, AllReviewsOK, ReviewOK, NoReview
  <1> QED BY <1>2, <1>5, <1>6, <1>11, <1>12, <1>14, <1>15 DEF IngestInv
-----------------------------------------------------------------------------
\* A review that has decided nothing yet changes its own memory only.
LEMMA OwnReview ==
  ASSUME IngestInv, NEW v \in Reviewers, UNCHANGED <<vaultVars, landVars>>,
         UNCHANGED <<derivatives, mentions, owner, drafts, reviews, pass, finished>>,
         review' = [u \in Reviewers |-> review'[u]],
         \A u \in Reviewers \ {v} : review'[u] = review[u],
         review'[v] = NoReview \/ ReviewOK(review'[v])
  PROVE  IngestInv'
  <1>1. UNCHANGED vaultVars /\ UNCHANGED landVars
    OBVIOUS
  <1>2. LandInv' /\ Grows
    BY <1>1, VaultGrows DEF IngestInv
  <1>3. /\ TablesGrow /\ TablesOK' /\ ReviewsOK' /\ \A x \in finished' : FinishedOK(x)'
    BY <1>2, TablesStand
  <1>4. PassesOK'
    BY <1>3, PassesStand
  <1>5. AllReviewsOK'
    BY DEF IngestInv, AllReviewsOK, ReviewOK, NoReview
  <1> QED BY <1>2, <1>3, <1>4, <1>5 DEF IngestInv

LEMMA ReadDraftStep ==
  ASSUME IngestInv, NEW v \in Reviewers, NEW i \in DOMAIN drafts, ReadDraft(v, i)
  PROVE  IngestInv'
  <1>1. /\ UNCHANGED <<vaultVars, landVars>>
        /\ UNCHANGED <<derivatives, mentions, owner, drafts, reviews, pass, finished>>
        /\ review' = [u \in Reviewers |-> review'[u]]
        /\ \A u \in Reviewers \ {v} : review'[u] = review[u]
        /\ review'[v] = [stage |-> "read", draft |-> i, readAt |-> Len(reviews), opens |-> <<>>]
    BY DEF ReadDraft, IngestInv
  <1>2. /\ reviews \in Seq(Elements(reviews))
        /\ \A x \in Elements(reviews) : x.draft # i
    BY DEF ReadDraft, IngestInv, ReviewsOK
  <1>3. \A k \in 1..Len(reviews) : reviews[k].draft # i
    BY <1>2 DEF Elements
  <1>4. ReviewOK(review'[v])
    BY <1>1, <1>2, <1>3 DEF ReviewOK
  <1> QED BY <1>1, <1>4, OwnReview

\* The mentions an acceptance attaches are those its draft is anchored to.
LEMMA DispatchStep ==
  ASSUME IngestInv, NEW v \in Reviewers, DispatchAcceptance(v)
  PROVE  IngestInv'
  <1>1. ReviewOK(review[v]) /\ review[v].stage = "read"
    BY DEF DispatchAcceptance, IngestInv, AllReviewsOK, NoReview
  <1> DEFINE d == drafts[review[v].draft]
             opens == Attached(d)
  <1>2. DOMAIN opens \subseteq mentions
    <2>1. d \in Elements(drafts)
      BY <1>1 DEF ReviewOK, Elements
    <2>2. d.anchors \in [Refs -> mentions]
      BY <2>1 DEF IngestInv, TablesOK, DraftOK
    <2>3. DOMAIN opens \subseteq {d.anchors[ref] : ref \in Refs}
      BY DEF Attached
    <2> QED BY <2>2, <2>3
  <1>3. review' = [review EXCEPT ![v].stage = "dispatched", ![v].opens = opens]
    BY DEF DispatchAcceptance
  <1> HIDE DEF opens
  <1>4. /\ UNCHANGED <<vaultVars, landVars>>
        /\ UNCHANGED <<derivatives, mentions, owner, drafts, reviews, pass, finished>>
    BY DEF DispatchAcceptance
  <1>5. /\ review' = [u \in Reviewers |-> review'[u]]
        /\ \A u \in Reviewers \ {v} : review'[u] = review[u]
        /\ DOMAIN review'[v] = DOMAIN review[v] /\ review'[v].stage = "dispatched"
        /\ review'[v].draft = review[v].draft /\ review'[v].readAt = review[v].readAt
        /\ review'[v].opens = opens
    BY <1>1, <1>3 DEF IngestInv, ReviewOK
  <1>6. ReviewOK(review'[v])
    BY <1>1, <1>2, <1>5 DEF ReviewOK
  <1> QED BY <1>4, <1>5, <1>6, OwnReview

LEMMA AbandonStep ==
  ASSUME IngestInv, NEW v \in Reviewers, AbandonReview(v)
  PROVE  IngestInv'
  <1>1. /\ UNCHANGED <<vaultVars, landVars>>
        /\ UNCHANGED <<derivatives, mentions, owner, drafts, reviews, pass, finished>>
        /\ review' = [u \in Reviewers |-> review'[u]]
        /\ \A u \in Reviewers \ {v} : review'[u] = review[u]
        /\ review'[v] = NoReview
    BY DEF AbandonReview, IngestInv
  <1> QED BY <1>1, OwnReview

\* A decision appends a review and takes its draft out of the queue.
LEMMA DecidedStep ==
  ASSUME IngestInv, NEW v \in Reviewers, NEW verdict \in {"accepted", "rejected"},
         review[v].stage \in {"read", "dispatched"}, Decided(v, verdict),
         UNCHANGED <<vaultVars, landVars>>,
         UNCHANGED <<derivatives, mentions, pass, finished>>,
         DOMAIN owner' \subseteq mentions
  PROVE  IngestInv'
  <1>0. PICK i, n, x : i = review[v].draft /\ n = Len(reviews) /\
           x = [draft |-> i, verdict |-> verdict, readAt |-> review[v].readAt]
    OBVIOUS
  <1>1. ReviewOK(review[v]) /\ i \in DOMAIN drafts /\ x.draft = i /\ x.readAt = review[v].readAt
    BY <1>0 DEF IngestInv, AllReviewsOK, NoReview, ReviewOK
  <1>2. /\ drafts' = [drafts EXCEPT ![i].status = verdict]
        /\ reviews' = Append(reviews, x)
        /\ review' = [review EXCEPT ![v] = NoReview]
    BY <1>0 DEF Decided
  <1>3. UNCHANGED vaultVars /\ UNCHANGED landVars
    OBVIOUS
  <1>4. LandInv' /\ Grows /\ records' = records /\ Kept' = Kept
    BY <1>3, VaultGrows DEF IngestInv, landVars, vaultVars, Kept
  <1>5. drafts \in Seq(Elements(drafts)) /\ reviews \in Seq(Elements(reviews)) /\ n \in Nat
    BY <1>0 DEF IngestInv, TablesOK, ReviewsOK
  <1>6. \A j \in DOMAIN drafts : /\ DOMAIN drafts[j] = {"producer", "record", "anchors", "ids", "status"}
                                 /\ DraftOK(drafts[j])
    BY DEF IngestInv, TablesOK, DraftOK, Elements
  <1>7. PICK new : /\ drafts' = [drafts EXCEPT ![i] = new]
                   /\ DOMAIN new = {"producer", "record", "anchors", "ids", "status"}
                   /\ new.status = verdict /\ new.anchors = drafts[i].anchors
                   /\ new.producer = drafts[i].producer /\ new.record = drafts[i].record
                   /\ new.ids = drafts[i].ids
    <2>1. /\ drafts' = [drafts EXCEPT ![i] = [drafts[i] EXCEPT !.status = verdict]]
          /\ DOMAIN drafts[i] = {"producer", "record", "anchors", "ids", "status"}
      BY <1>1, <1>2, <1>6
    <2> WITNESS [drafts[i] EXCEPT !.status = verdict]
    <2> QED BY <2>1
  <1>8. /\ drafts' \in Seq(Elements(drafts')) /\ DOMAIN drafts' = DOMAIN drafts
        /\ \A j \in DOMAIN drafts : j # i => drafts'[j] = drafts[j]
        /\ drafts'[i] = new
    <2>1. drafts \in Seq(Elements(drafts) \cup {new})
      BY <1>5, WiderSeq
    <2>2. /\ drafts' \in Seq(Elements(drafts) \cup {new}) /\ DOMAIN drafts' = DOMAIN drafts
          /\ \A j \in DOMAIN drafts : j # i => drafts'[j] = drafts[j]
          /\ drafts'[i] = new
      BY <1>1, <1>7, <2>1
    <2>3. drafts' \in Seq(Elements(drafts'))
      BY <2>2, SeqOfElements
    <2> QED BY <2>2, <2>3
  <1>9. \A j \in DOMAIN drafts : DraftKey(drafts'[j]) = DraftKey(drafts[j])
    BY <1>7, <1>8 DEF DraftKey
  <1>10. DraftKeys' = DraftKeys
    BY <1>8, <1>9 DEF DraftKeys, Elements
  <1>11. TablesGrow
    BY <1>4, <1>10 DEF TablesGrow
  <1>12. TablesOK'
    <2>1. \A j \in DOMAIN drafts : DraftOK(drafts'[j])
      BY <1>6, <1>7, <1>8 DEF DraftOK
    <2>2. \A d \in Elements(drafts') : DraftOK(d)
      BY <1>8, <2>1 DEF Elements
    <2>3. \A d \in Elements(drafts') : DraftOK(d)'
      BY <1>4, <2>2 DEF DraftOK
    <2> QED BY <1>4, <1>8, <2>3 DEF IngestInv, TablesOK, Elements
  <1>13. /\ reviews' \in Seq(Elements(reviews')) /\ Elements(reviews') = Elements(reviews) \cup {x}
         /\ \A k \in DOMAIN reviews : reviews'[k] = reviews[k]
         /\ DOMAIN reviews' = DOMAIN reviews \cup {n + 1} /\ reviews'[n + 1] = x
         /\ DOMAIN reviews = 1..n
    <2> DEFINE S == Elements(reviews) \cup {x}
    <2>1. reviews \in Seq(S)
      BY <1>5, WiderSeq
    <2>2. x \in S
      OBVIOUS
    <2> HIDE DEF S
    <2>3. /\ Append(reviews, x) \in Seq(S)
          /\ Elements(Append(reviews, x)) = Elements(reviews) \cup {x}
          /\ \A k \in DOMAIN reviews : Append(reviews, x)[k] = reviews[k]
          /\ DOMAIN Append(reviews, x) = DOMAIN reviews \cup {Len(reviews) + 1}
          /\ Append(reviews, x)[Len(reviews) + 1] = x
      BY <2>1, <2>2, AppendedElements
    <2>4. DOMAIN reviews = 1..Len(reviews)
      BY <2>1
    <2> QED BY <1>0, <1>2, <2>3, <2>4, SeqOfElements
  <1>14. ReviewsOK'
    <2>1. \A y \in Elements(reviews') : y.draft \in DOMAIN drafts'
      BY <1>1, <1>8, <1>13 DEF IngestInv, ReviewsOK
    <2>2. \A j \in DOMAIN drafts' :
            drafts'[j].status = "suggested" <=> \A y \in Elements(reviews') : y.draft # j
      BY <1>1, <1>7, <1>8, <1>13 DEF IngestInv, ReviewsOK
    <2>3. \A k, m \in DOMAIN reviews' :
            k < m /\ reviews'[k].draft = reviews'[m].draft => reviews'[m].readAt < k
      <3> SUFFICES ASSUME NEW k \in DOMAIN reviews', NEW m \in DOMAIN reviews', k < m,
                          reviews'[k].draft = reviews'[m].draft
                   PROVE  reviews'[m].readAt < k
        OBVIOUS
      <3>1. k \in 1..n /\ (m \in 1..n \/ m = n + 1)
        BY <1>5, <1>13
      <3>2. CASE m \in 1..n
        BY <1>13, <3>1, <3>2 DEF IngestInv, ReviewsOK, DecidedOnceUnlessOverlapping
      <3>3. CASE m = n + 1
        <4>1. reviews[k].draft = i /\ reviews'[m].readAt = review[v].readAt
          BY <1>1, <1>13, <3>1, <3>3
        <4>2. review[v].readAt \in 0..n /\ k \notin 1..review[v].readAt
          BY <1>0, <1>1, <4>1 DEF ReviewOK
        <4> QED BY <1>5, <3>1, <4>1, <4>2
      <3> QED BY <3>1, <3>2, <3>3
    <2> QED BY <1>13, <2>1, <2>2, <2>3 DEF ReviewsOK, DecidedOnceUnlessOverlapping
  <1>15. pass' = [u \in Passes |-> pass'[u]] /\ review' = [u \in Reviewers |-> review'[u]]
    BY <1>2 DEF IngestInv
  <1>16. PassesOK' /\ \A y \in finished' : FinishedOK(y)'
    <2>3. PassesOK'
      BY <1>11, PassesStand
    <2> QED BY <1>11, <2>3, FinishedStays DEF IngestInv
  <1>17. AllReviewsOK'
    <2>1. ASSUME NEW u \in Reviewers
          PROVE  (review[u] = NoReview \/ ReviewOK(review[u]))'
      <3>1. CASE review'[u] = NoReview
        BY <3>1 DEF NoReview
      <3>2. CASE review'[u] # NoReview
        <4>1. review'[u] = review[u] /\ ReviewOK(review[u])
          BY <1>2, <3>2 DEF IngestInv, AllReviewsOK
        <4>2. /\ review[u].readAt \in 0..Len(reviews')
              /\ \A k \in 1..review[u].readAt : reviews'[k].draft # review[u].draft
          <5>1. review[u].readAt \in 0..n /\ \A k \in 1..review[u].readAt : k \in DOMAIN reviews
            BY <1>0, <1>5, <1>13, <4>1 DEF ReviewOK
          <5>2. Len(reviews') = n + 1 /\ n \in Nat
            BY <1>0, <1>2, <1>5
          <5>3. review[u].readAt \in 0..Len(reviews')
            BY <5>1, <5>2
          <5>4. ASSUME NEW k \in 1..review[u].readAt
                PROVE  reviews'[k].draft # review[u].draft
            <6>1. k \in DOMAIN reviews /\ reviews[k].draft # review[u].draft
              BY <4>1, <5>1, <5>4 DEF ReviewOK
            <6>2. reviews'[k] = reviews[k]
              BY <1>5, <1>13, <6>1
            <6> QED BY <6>1, <6>2
          <5> QED BY <5>3, <5>4
        <4> QED BY <1>8, <4>1, <4>2 DEF ReviewOK
      <3> QED BY <3>1, <3>2
    <2> QED BY <2>1 DEF AllReviewsOK
  <1> QED BY <1>4, <1>12, <1>14, <1>15, <1>16, <1>17 DEF IngestInv

LEMMA AcceptStep ==
  ASSUME IngestInv, NEW v \in Reviewers, Accept(v)
  PROVE  IngestInv'
  <1>1. ReviewOK(review[v]) /\ review[v].stage = "dispatched"
    BY DEF Accept, IngestInv, AllReviewsOK, NoReview
  <1>2. DOMAIN owner' \subseteq mentions
    BY <1>1 DEF Accept, ReviewOK, IngestInv, TablesOK
  <1>3. /\ Decided(v, "accepted") /\ UNCHANGED <<vaultVars, landVars>>
        /\ UNCHANGED <<derivatives, mentions, pass, finished>>
    BY DEF Accept
  <1> QED BY <1>1, <1>2, <1>3, DecidedStep

LEMMA RejectStep ==
  ASSUME IngestInv, NEW v \in Reviewers, Reject(v)
  PROVE  IngestInv'
  <1>1. /\ Decided(v, "rejected") /\ UNCHANGED <<vaultVars, landVars>> /\ owner' = owner
        /\ UNCHANGED <<derivatives, mentions, pass, finished>> /\ review[v].stage = "read"
    BY DEF Reject
  <1>2. DOMAIN owner' \subseteq mentions
    BY <1>1 DEF IngestInv, TablesOK
  <1> QED BY <1>1, <1>2, DecidedStep

\* Landings go on beside the passes.
LEMMA LandingBeside ==
  ASSUME IngestInv, LandNext, UNCHANGED extractVars
  PROVE  IngestInv'
  <1>1. LandInv' /\ Grows
    BY LandStep DEF IngestInv
  <1>2. /\ UNCHANGED <<derivatives, mentions, owner, drafts, reviews, finished>>
        /\ pass' = pass /\ review' = review
    BY DEF extractVars
  <1>3. /\ TablesGrow /\ TablesOK' /\ ReviewsOK' /\ \A x \in finished' : FinishedOK(x)'
    BY <1>1, <1>2, TablesStand
  <1>4. PassesOK'
    BY <1>2, <1>3, PassesStand
  <1>5. AllReviewsOK'
    BY <1>2 DEF IngestInv, AllReviewsOK, ReviewOK, NoReview
  <1> QED BY <1>1, <1>2, <1>3, <1>4, <1>5 DEF IngestInv

LEMMA IngestStart ==
  ASSUME IngestInit
  PROVE  IngestInv
  <1>1. LandInv
    BY LandStart DEF IngestInit
  <1>2. /\ derivatives = {} /\ mentions = {} /\ owner = [m \in {} |-> Nobody] /\ drafts = <<>>
        /\ reviews = <<>> /\ finished = {}
        /\ pass = [p \in Passes |-> NoPass] /\ review = [v \in Reviewers |-> NoReview]
    BY DEF IngestInit
  <1>3. TablesOK /\ ReviewsOK
    BY <1>2 DEF TablesOK, ReviewsOK, Elements, DecidedOnceUnlessOverlapping
  <1>4. PassesOK /\ AllReviewsOK
    BY <1>2 DEF PassesOK, AllReviewsOK
  <1> QED BY <1>1, <1>2, <1>3, <1>4 DEF IngestInv

LEMMA IngestStep ==
  ASSUME IngestInv, [IngestNext]_ingestVars
  PROVE  IngestInv'
  <1>1. CASE UNCHANGED ingestVars
    <2>1. UNCHANGED vaultVars /\ UNCHANGED landVars /\ UNCHANGED extractVars
      BY <1>1 DEF ingestVars
    <2>2. LandInv' /\ Grows
      BY <2>1, VaultGrows DEF IngestInv
    <2>4. /\ UNCHANGED <<derivatives, mentions, owner, drafts, reviews, finished>>
          /\ pass' = pass /\ review' = review
      BY <2>1 DEF extractVars
    <2>5. /\ TablesGrow /\ TablesOK' /\ ReviewsOK' /\ \A x \in finished' : FinishedOK(x)'
      BY <2>2, <2>4, TablesStand
    <2>6. PassesOK'
      BY <2>4, <2>5, PassesStand
    <2>7. AllReviewsOK'
      BY <2>4 DEF IngestInv, AllReviewsOK, ReviewOK, NoReview
    <2> QED BY <2>2, <2>4, <2>5, <2>6, <2>7 DEF IngestInv
  <1>2. CASE LandNext /\ UNCHANGED extractVars
    BY <1>2, LandingBeside
  <1>3. ASSUME NEW p \in Passes, Pass(p) PROVE IngestInv'
    <2>1. CASE \E r \in DOMAIN records, producer \in {"structural", "semantic"} :
                 StartPass(p, r, producer)
      BY <2>1, StartStep
    <2>2. CASE EnsureText(p) \/ VaultResponse(p) \/ ReadMentions(p) \/ ResolveNames(p)
      BY <2>2, TextStep, ResponseStep, AnchorStep, NameStep
    <2>3. CASE SubmitDraft(p) \/ CommitPass(p) \/ AbortPass(p)
      BY <2>3, DraftStep, CommitPassStep, AbortPassStep
    <2> QED BY <1>3, <2>1, <2>2, <2>3 DEF Pass
  <1>4. ASSUME NEW v \in Reviewers, Review(v) PROVE IngestInv'
    BY <1>4, ReadDraftStep, RejectStep, DispatchStep, AcceptStep, AbandonStep DEF Review
  <1> QED BY <1>1, <1>2, <1>3, <1>4 DEF IngestNext
-----------------------------------------------------------------------------
\* The invariant of everything below, for any number of processes, passes and reviews.
THEOREM IngestInvariant == IngestSpec => []IngestInv
  BY IngestStart, IngestStep, PTL DEF IngestSpec

\* However requests and commands overlap, die and are retried, an artifact has one
\* record, and a version that a landing saw another version of waits for a human
\* (land_bytes, the unique ingest_key, find_siblings).
THEOREM KeptApartAlways == IngestSpec => []ArtifactsAreKeptApart
  <1>1. IngestInv => ArtifactsAreKeptApart
    BY KeptApart DEF IngestInv
  <1> QED BY <1>1, IngestInvariant, PTL

\* Every row that points into the vault or at another row points at something, whoever
\* dies between the two stores.
THEOREM NothingDanglesAlways == IngestSpec => []NothingDangles
  <1>1. ASSUME IngestInv PROVE NothingDangles
    <2>1. BytesBeforeRecord
      BY <1>1, KeptApart DEF IngestInv
    <2>2. RefsResolve
      BY <1>1, <2>1 DEF IngestInv, TablesOK, DraftOK, RefsResolve, Has, Kept
    <2>3. IngestTypeOK
      BY <1>1 DEF IngestInv, TablesOK, ReviewsOK, DraftOK, IngestTypeOK
    <2> QED BY <2>2, <2>3 DEF NothingDangles
  <1> QED BY <1>1, IngestInvariant, PTL

\* A second decision about a draft overlapped the first.
THEOREM DecidedOnce == IngestSpec => []DecidedOnceUnlessOverlapping
  <1>1. IngestInv => DecidedOnceUnlessOverlapping
    BY DEF IngestInv, ReviewsOK
  <1> QED BY <1>1, IngestInvariant, PTL

\* A pass that began after one of its producer over its record was through, and finds the
\* names resolved as that one did, adds nothing.
THEOREM ReplaysAddNothing == IngestSpec => []ReplayAddsNothing
  <1>1. ASSUME IngestInv PROVE ReplayAddsNothing
    <2> SUFFICES ASSUME NEW p \in Passes, pass[p].stage = "ending", Unambiguous(pass[p].record),
                        NEW x \in pass[p].seen, x.record = pass[p].record,
                        x.producer = pass[p].producer, x.found = pass[p].found
                 PROVE  pass[p].derivative = {} /\ pass[p].mentions = {} /\ pass[p].draft = <<>>
      BY DEF ReplayAddsNothing
    <2>1. PassOK(pass[p])
      BY <1>1 DEF IngestInv, PassesOK, NoPass
    <2> QED BY <2>1 DEF PassOK, TextOK, AnchorsOK, DraftingOK
  <1> QED BY <1>1, IngestInvariant, PTL

\* Re-landing what is landed changes nothing, in the vault or in the database, on either
\* backend and whatever else is landing.
THEOREM RelandingIsQuiet == IngestSpec => RelandingChangesNothing
  <1>1. ASSUME IngestInv, [IngestNext]_ingestVars
        PROVE  [\A w \in Putters : LeavesAll(w)]_<<vaultVars, landVars>>
    <2>1. CASE LandNext
      BY <1>1, <2>1, LandStep DEF IngestInv
    <2>2. CASE UNCHANGED ingestVars
      BY <2>2 DEF ingestVars
    <2>3. ASSUME NEW p \in Passes, Pass(p) PROVE \A w \in Putters : LeavesAll(w)
      <3>1. work' = work /\ put' = put
        BY <2>3 DEF Pass, StartPass, EnsureText, VaultResponse, ReadMentions, ResolveNames,
                    SubmitDraft, CommitPass, AbortPass, vaultVars, landVars, PutWhole
      <3> QED BY <3>1 DEF LeavesAll
    <2>4. ASSUME NEW v \in Reviewers, Review(v) PROVE UNCHANGED <<vaultVars, landVars>>
      BY <2>4 DEF Review, ReadDraft, Reject, DispatchAcceptance, Accept, AbandonReview
    <2> QED BY <1>1, <2>1, <2>2, <2>3, <2>4 DEF IngestNext
  <1>2. IngestSpec => [][\A w \in Putters : LeavesAll(w)]_<<vaultVars, landVars>>
    BY <1>1, IngestInvariant, PTL DEF IngestSpec
  <1> QED BY <1>2 DEF LeavesAll, RelandingChangesNothing
=============================================================================
