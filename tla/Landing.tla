------------------------------ MODULE Landing -------------------------------
(***************************************************************************)
(* Raw landing (aegis/ingestion/service.py, land_bytes): the bytes go to   *)
(* the vault, then one transaction looks the artifact up, makes sure of    *)
(* the manual source, looks for earlier versions, inserts the record and   *)
(* audits.  A request of the API lands one artifact in a session of its    *)
(* own; `aegis ingest land` lands file after file in one session, and what *)
(* it prints about a file reads the record again after its commit, which   *)
(* opens the transaction the next file finds.                              *)
(***************************************************************************)
EXTENDS EvidenceVault, Sequences

CONSTANTS
  Names,       \* file names, all of one source system
  Oversize,    \* contents past settings.ingest_oversize_bytes
  BatchSize    \* bound: files of one command

VARIABLES
  records,      \* source_record, in the order of the commits
  manualSource, \* the row of the manual-upload source exists
  work,         \* the requests and commands at work
  auditLock,    \* who holds the advisory lock of the audit chain
  told          \* artifacts an operator was told are landed

landVars == <<records, manualSource, work, auditLock, told>>

NoLanding ==
  [kind |-> "none", stage |-> "closed", files |-> 0, inTx |-> FALSE, rows |-> <<>>,
   addsSource |-> FALSE, artifact |-> <<>>, earlier |-> 0, siblings |-> {}, again |-> FALSE]
NoHolder == "nobody"

LandInit ==
  /\ VaultInit
  /\ records = <<>>
  /\ manualSource = FALSE
  /\ work = [w \in Putters |-> NoLanding]
  /\ auditLock = NoHolder
  /\ told = {}

\* make_ingest_key digests the artifact: a name and a content.
KeyOf(row) == <<row.name, row.content>>
Elements(s) == {s[i] : i \in DOMAIN s}
Committed == {KeyOf(row) : row \in Elements(records)}
Uncommitted(w) == {KeyOf(row) : row \in Elements(work[w].rows)}

\* What the session of w sees: what is committed and its own rows.
Visible(w) == Elements(records) \cup Elements(work[w].rows)
VisibleKeys(w) == {KeyOf(row) : row \in Visible(w)}

\* Some other session has not yet decided about this artifact.
Contested(w, a) == \E v \in Putters \ {w} : a \in Uncommitted(v)

Unchanged == UNCHANGED <<vaultVars, records, manualSource, auditLock, told>>
-----------------------------------------------------------------------------
\* vault.put comes first, whatever follows.
Receive(w, kind, a) ==
  /\ BeginPut(w, a[2])
  /\ work' = [work EXCEPT ![w].kind = kind, ![w].stage = "putting", ![w].artifact = a,
                          ![w].files = @ + 1, ![w].again = a \in Committed]
  /\ UNCHANGED <<records, manualSource, auditLock, told>>

\* land_upload, land_text: a session of its own.
LandUpload(w, a) == work[w].stage = "closed" /\ Receive(w, "route", a)

\* land_file, for the first file of a command or the next.
LandFile(w, a) ==
  /\ \/ work[w].stage = "closed"
     \/ work[w].kind = "command" /\ work[w].stage = "reported" /\ work[w].files < BatchSize
  /\ Receive(w, "command", a)

PutOn(w) == Putting(w) /\ UNCHANGED landVars

\* Slip: the transaction begins while the sidecar is still to be written.
StoredHalf(w) == put[w].stage \in {"sidecar", "stored"}

Stored(w) == put[w].stage = "stored"

\* The lookup by ingest_key, and the one of the manual source.
LookUp(w) ==
  /\ work[w].stage = "putting" /\ Stored(w)
  /\ put' = [put EXCEPT ![w] = NoPut]
  /\ work' = [work EXCEPT ![w].earlier = Len(records), ![w].stage =
       IF work[w].artifact \in VisibleKeys(w) THEN "answered"
       ELSE IF manualSource \/ work[w].addsSource THEN "sourced" ELSE "sourceless"]
  /\ UNCHANGED <<backend, objects, sidecars, puts, records, manualSource, auditLock, told>>

\* ensure_manual_source inserts the row, and waits for another who is inserting it.
EnsureManualSource(w) ==
  /\ work[w].stage = "sourceless" /\ ~manualSource
  /\ \A v \in Putters \ {w} : ~work[v].addsSource
  /\ work' = [work EXCEPT ![w].stage = "sourced", ![w].addsSource = TRUE]
  /\ UNCHANGED <<vaultVars, records, manualSource, auditLock, told>>

\* The records of the same name with different content.
Siblings(w) ==
  {row \in Visible(w) : row.name = work[w].artifact[1] /\ row.content # work[w].artifact[2]}

FindSiblings(w) ==
  /\ work[w].stage = "sourced"
  /\ work' = [work EXCEPT ![w].stage = "judged", ![w].siblings = {KeyOf(x) : x \in Siblings(w)}]
  /\ UNCHANGED <<vaultVars, records, manualSource, auditLock, told>>

\* Slip: nothing keeps two sessions from inserting the same artifact.
KeyIsNotChecked(w, a) == a = work[w].artifact

\* ingest_key is UNIQUE: a flush waits for whoever has the key uncommitted.
KeyIsFree(w, a) == ~Contested(w, a) /\ a \notin Committed

SourceRecord(a, earlier, status) ==
  [name |-> a[1], content |-> a[2], earlier |-> earlier, status |-> status, released |-> FALSE]

\* The record is inserted, quarantined if a reason was found.
InsertRecord(w) ==
  /\ work[w].stage = "judged"
  /\ LET a == work[w].artifact
     IN  /\ KeyIsFree(w, a)
         /\ work' = [work EXCEPT ![w].stage = "flushed", ![w].rows = Append(@,
              SourceRecord(a, work[w].earlier,
                IF work[w].siblings # {} \/ a[2] \in Oversize THEN "quarantined" ELSE "landed"))]
  /\ UNCHANGED <<vaultVars, records, manualSource, auditLock, told>>

\* append_audit, which waits for the chain's lock.  A landing that found no
\* transaction open ends its own here; one that found one leaves it open.
AuditLanding(w) ==
  /\ work[w].stage = "flushed"
  /\ auditLock \in {NoHolder, w}
  /\ work' = [work EXCEPT ![w].stage = "answered", ![w].rows = IF work[w].inTx THEN @ ELSE <<>>,
                          ![w].addsSource = work[w].inTx /\ @]
  /\ IF work[w].inTx
     THEN auditLock' = w /\ UNCHANGED <<records, manualSource>>
     ELSE /\ records' = records \o work[w].rows
          /\ manualSource' = (manualSource \/ work[w].addsSource)
          /\ UNCHANGED auditLock
  /\ UNCHANGED <<vaultVars, told>>

\* The response, or the line that is printed: it reads the record, so a command's
\* session is in a transaction from then on.
Report(w) ==
  /\ work[w].stage = "answered"
  /\ told' = told \cup {work[w].artifact}
  /\ work' = IF work[w].kind = "route" THEN [work EXCEPT ![w] = NoLanding]
             ELSE [work EXCEPT ![w].stage = "reported", ![w].inTx = TRUE]
  /\ UNCHANGED <<vaultVars, records, manualSource, auditLock>>

\* The session is closed, which rolls back what it has not committed: the command
\* is through, a constraint refused an insert, the process died, or the database
\* broke a deadlock.
Close(w) ==
  /\ work' = [work EXCEPT ![w] = NoLanding]
  /\ put' = [put EXCEPT ![w] = NoPut]
  /\ auditLock' = IF auditLock = w THEN NoHolder ELSE auditLock
  /\ UNCHANGED <<backend, objects, sidecars, puts, records, manualSource, told>>

EndCommand(w) == work[w].stage = "reported" /\ Close(w)

RefusedInsert(w) ==
  /\ \/ work[w].stage = "sourceless" /\ manualSource
     \/ work[w].stage = "judged" /\ work[w].artifact \in Committed
  /\ Close(w)

Die(w) == work[w].stage # "closed" /\ Close(w)

\* v, at its audit, waits for the lock of w, and w, at its insert, for v's row.
Deadlocked(w, v) ==
  /\ auditLock = w /\ work[v].stage = "flushed"
  /\ work[w].stage = "judged" /\ work[w].artifact \in Uncommitted(v)

BreakDeadlock(w) ==
  /\ \E v \in Putters : Deadlocked(w, v) \/ Deadlocked(v, w)
  /\ Close(w)

\* release_quarantine, an audited action.
ReleaseQuarantine(i) ==
  /\ auditLock = NoHolder
  /\ records[i].status = "quarantined"
  /\ records' = [records EXCEPT ![i].status = "landed", ![i].released = TRUE]
  /\ UNCHANGED <<vaultVars, manualSource, work, auditLock, told>>

LandNext ==
  \/ \E w \in Putters :
       \/ \E a \in Names \X Contents : LandUpload(w, a) \/ LandFile(w, a)
       \/ PutOn(w) \/ LookUp(w) \/ EnsureManualSource(w) \/ FindSiblings(w)
       \/ InsertRecord(w) \/ AuditLanding(w) \/ Report(w) \/ EndCommand(w)
       \/ RefusedInsert(w) \/ Die(w) \/ BreakDeadlock(w)
  \/ \E i \in DOMAIN records : ReleaseQuarantine(i)

LandSpec == LandInit /\ [][LandNext]_<<vaultVars, landVars>>
-----------------------------------------------------------------------------
\* The bytes and their envelope are in the vault before a record says so, whatever
\* process died between the two stores (docs/INGESTION.md section 2).
BytesBeforeRecord == \A row \in Elements(records) : Has(row.content)

\* Landing is idempotent: however requests and commands overlap, die and are
\* retried, an artifact has one record (ingest_key).
OneRecordPerArtifact ==
  \A i, j \in DOMAIN records : KeyOf(records[i]) = KeyOf(records[j]) => i = j

\* Same name, different bytes (spec 04 section 3): a version whose landing looked
\* after another was committed is kept from extraction until a human releases it,
\* and so is an artifact past the size bound.
NewVersionsWaitForAHuman ==
  \A i \in DOMAIN records : records[i].status = "landed" /\ ~records[i].released =>
    /\ records[i].content \notin Oversize
    /\ \A j \in 1..records[i].earlier :
         records[j].name = records[i].name => records[j].content = records[i].content

\* What is one artifact stays one, and what is another version is not taken for it.
ArtifactsAreKeptApart == OneRecordPerArtifact /\ NewVersionsWaitForAHuman

\* Re-landing what is landed changes nothing, in the vault or in the database, also
\* on the store that can overwrite, and whatever else is landing.
RelandingChangesNothing ==
  [][\A w \in Putters : work[w].again /\ <<work[w], put[w]>>' # <<work[w], put[w]>> =>
       UNCHANGED <<objects, sidecars, records, manualSource>>]_<<vaultVars, landVars>>

\* What an operator was told is landed has its record, or will when the session that
\* holds it commits.
ToldMeansRecorded ==
  \A a \in told : a \in Committed \/ \E w \in Putters : a \in Uncommitted(w)
=============================================================================
