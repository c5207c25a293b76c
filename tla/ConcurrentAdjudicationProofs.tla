--------------------- MODULE ConcurrentAdjudicationProofs ---------------------
(***************************************************************************)
(* Proofs about ConcurrentAdjudication, for any number of transactions     *)
(* whose statements interleave in any order.  OneEntityPerMention is not   *)
(* inductive: what a transaction will write stands in its record, so the   *)
(* invariant says what those rows are, that the ones behind a flush are    *)
(* still in the table and in nobody else's flush (FlushesApart), and that  *)
(* an attachment that was inserted is still the only one of its mention    *)
(* (AttachmentsApart).                                                     *)
(***************************************************************************)
EXTENDS ConcurrentAdjudication, TLAPS

MovedStages == {"moved", "settled", "replayed", "cleared", "mapped"}

\* What a transaction remembers: where it moves mentions to and with which number,
\* and, once it has selected them, the active rows it closes.
RecordOK(r) ==
  /\ DOMAIN r = DOMAIN NoTx
  /\ r.stage \in {"survivor", "sides", "listed", "selected", "moved", "replayed", "cleared",
                  "mapped", "unowned", "attached"} => r.target \in Entities
  /\ r.stage # "idle" /\ r.kind = "split" => r.target \in Entities
  /\ r.stage \in {"opened", "settled"} /\ r.kind = "confirm" => r.target \in Entities
  /\ r.stage = "constrained" => r.kind = "reject"
  /\ r.stage \in {"opened", "listed", "selected", "constrained"} \cup MovedStages =>
       r.revision \in 1..MaxRevision
  /\ r.stage \in {"unowned", "attached"} => r.a \in Mentions
  /\ r.stage = "attached" => r.revision \in 0..MaxRevision
  /\ r.rows # {} => r.stage \in {"selected"} \cup MovedStages
  /\ r.rows \subseteq Membership
  /\ \A row \in r.rows : row.closed = Open

\* The rows behind a flush are in the table until it commits, and in no other flush.
FlushesApart ==
  \A t \in Requests : HasMoved(t) =>
    /\ tx[t].rows \subseteq memberships
    /\ \A u \in Others(t) : HasMoved(u) => tx[u].rows \cap tx[t].rows = {}

\* A mention that is being attached belongs to nobody, and nobody else attaches it.
AttachmentsApart ==
  \A t \in Requests : At(t, "attached") =>
    /\ ~Resolved(tx[t].a)
    /\ \A u \in Others(t) : At(u, "attached") => tx[u].a # tx[t].a

Typed ==
  /\ memberships \subseteq Membership
  /\ head \in 0..MaxRevision /\ sequence \in 0..MaxRevision
  /\ tx = [t \in Requests |-> tx[t]]
  /\ \A t \in Requests : RecordOK(tx[t])

RaceInv == Typed /\ FlushesApart /\ AttachmentsApart /\ OneEntityPerMention
-----------------------------------------------------------------------------
\* A transaction that has just begun, or was rolled back.
LEMMA NoTxOK ==
  /\ RecordOK(NoTx)
  /\ NoTx.stage = "idle"
  BY DEF RecordOK, NoTx, MovedStages

\* A statement that commits nothing changes the record of its own transaction.  What
\* it leaves there has to be what the others rely on.
LEMMA OwnStep ==
  ASSUME RaceInv, NEW t \in Requests, UNCHANGED vars, sequence' \in 0..MaxRevision,
         tx' = [u \in Requests |-> tx'[u]],
         \A u \in Others(t) : tx'[u] = tx[u],
         RecordOK(tx'[t]),
         tx'[t].stage \in MovedStages =>
           /\ tx'[t].rows \subseteq memberships
           /\ \A u \in Others(t) : HasMoved(u) => tx[u].rows \cap tx'[t].rows = {},
         tx'[t].stage = "attached" =>
           /\ ~Resolved(tx'[t].a)
           /\ \A u \in Others(t) : At(u, "attached") => tx[u].a # tx'[t].a
  PROVE  RaceInv'
  <1>1. \A u \in Requests : u = t \/ u \in Others(t)
    BY DEF Others
  <1>2. Typed'
    <2>1. \A u \in Requests : RecordOK(tx'[u])
      BY <1>1 DEF RaceInv, Typed
    <2>2. \A u \in Requests : RecordOK(tx[u])'
      BY <2>1 DEF RecordOK
    <2> QED BY <2>2 DEF RaceInv, Typed, vars
  <1>3. FlushesApart'
    BY <1>1 DEF RaceInv, FlushesApart, HasMoved, MovedStages, Others, vars
  <1>4. AttachmentsApart'
    BY <1>1 DEF RaceInv, AttachmentsApart, At, Resolved, Active, Others, vars
  <1>5. OneEntityPerMention'
    BY DEF RaceInv, OneEntityPerMention, Active, vars
  <1> QED BY <1>2, <1>3, <1>4, <1>5 DEF RaceInv

\* A rollback forgets everything.
LEMMA AbortStep ==
  ASSUME RaceInv, NEW t \in Requests, Abort(t)
  PROVE  RaceInv'
  <1>1. /\ tx' = [u \in Requests |-> tx'[u]] /\ tx'[t] = NoTx
        /\ \A u \in Others(t) : tx'[u] = tx[u]
    BY DEF Abort, RaceInv, Typed, Others
  <1>2. sequence' \in 0..MaxRevision
    BY DEF Abort, RaceInv, Typed
  <1> QED BY <1>1, <1>2, NoTxOK, OwnStep DEF Abort, MovedStages

\* What a request is about, before its transaction has read anything.
LEMMA NewPair ==
  ASSUME NEW kind, NEW pair, NEW r \in Pairs(kind, pair)
  PROVE  r.kind = kind /\ r.rows = {} /\ DOMAIN r = DOMAIN NoTx
  <1>1. PICK parent \in Revisions, c \in Candidates \cup {None} : r = Asked(kind, pair, parent, c)
    BY DEF Pairs
  <1> QED BY <1>1 DEF Asked, NoTx

\* The reads of a confirm and of a split find entities that exist.
LEMMA ReadStep ==
  ASSUME RaceInv, NEW t \in Requests, Read(t)
  PROVE  RaceInv'
  <1>1. /\ UNCHANGED vars /\ sequence' = sequence
        /\ sequence' \in 0..MaxRevision
    BY DEF Read, BeginConfirm, BeginSplit, ReadSurvivor, ReadAbsorbed, ReadHeld, RaceInv, Typed
  <1>2. RecordOK(tx[t]) /\ tx = [u \in Requests |-> tx[u]]
    BY DEF RaceInv, Typed
  <1>3. CASE BeginConfirm(t)
    <2>1. PICK pair \in Mentions \X Mentions : \E r \in Pairs("confirm", pair) :
            tx' = [tx EXCEPT ![t] = [r EXCEPT !.stage = "checked"]]
      BY <1>3 DEF BeginConfirm
    <2>2. PICK r \in Pairs("confirm", pair) :
            tx' = [tx EXCEPT ![t] = [r EXCEPT !.stage = "checked"]]
      BY <2>1
    <2>3. /\ tx' = [u \in Requests |-> tx'[u]] /\ tx'[t] = [r EXCEPT !.stage = "checked"]
          /\ \A u \in Others(t) : tx'[u] = tx[u]
      BY <2>2, <1>2 DEF Others
    <2>4. /\ tx'[t].stage = "checked" /\ tx'[t].kind = "confirm" /\ tx'[t].rows = {}
          /\ DOMAIN tx'[t] = DOMAIN NoTx
      BY <2>3, NewPair DEF NoTx
    <2>5. RecordOK(tx'[t])
      BY <2>4 DEF RecordOK, MovedStages
    <2> QED BY <1>1, <2>3, <2>4, <2>5, OwnStep DEF MovedStages
  <1>4. CASE BeginSplit(t)
    <2>1. PICK parent \in Revisions, e \in entities, target \in Entities :
            \E ms \in SUBSET MentionsOf(e) : tx' = [tx EXCEPT ![t] =
              [NoTx EXCEPT !.stage = "checked", !.kind = "split", !.parent = parent,
                           !.entity = e, !.mentions = ms, !.target = target]]
      BY <1>4 DEF BeginSplit
    <2>2. /\ tx' = [u \in Requests |-> tx'[u]] /\ \A u \in Others(t) : tx'[u] = tx[u]
          /\ DOMAIN tx'[t] = DOMAIN NoTx /\ tx'[t].stage = "checked"
          /\ tx'[t].target \in Entities /\ tx'[t].rows = {}
      BY ZenonT(60), <2>1, <1>2 DEF NoTx, Others
    <2>3. RecordOK(tx'[t])
      BY <2>2 DEF RecordOK, MovedStages
    <2> QED BY <1>1, <2>2, <2>3, OwnStep DEF MovedStages
  <1>5. CASE ReadSurvivor(t)
    <2>1. PICK e \in Entities : tx' = [tx EXCEPT ![t].stage = "survivor", ![t].target = e]
      BY <1>5 DEF ReadSurvivor
    <2>2. DOMAIN tx[t] = DOMAIN NoTx /\ tx[t].stage = "checked"
      BY <1>2, <1>5 DEF ReadSurvivor, At, RecordOK
    <2>3. /\ tx' = [u \in Requests |-> tx'[u]] /\ \A u \in Others(t) : tx'[u] = tx[u]
          /\ DOMAIN tx'[t] = DOMAIN NoTx /\ tx'[t].stage = "survivor"
          /\ tx'[t].rows = tx[t].rows /\ tx'[t].target \in Entities
      BY <1>2, <2>1, <2>2 DEF NoTx, Others, RecordOK
    <2>4. RecordOK(tx'[t])
      BY <1>2, <2>2, <2>3 DEF RecordOK, MovedStages
    <2> QED BY <1>1, <2>3, <2>4, OwnStep DEF MovedStages
  <1>7. CASE ReadAbsorbed(t)
    <2>1. PICK e \in Entities : tx' = [tx EXCEPT ![t].stage = "sides", ![t].entity = e]
      BY <1>7 DEF ReadAbsorbed
    <2>2. DOMAIN tx[t] = DOMAIN NoTx /\ tx[t].stage = "survivor"
      BY <1>2, <1>7 DEF ReadAbsorbed, At, RecordOK
    <2>3. /\ tx' = [u \in Requests |-> tx'[u]] /\ \A u \in Others(t) : tx'[u] = tx[u]
          /\ DOMAIN tx'[t] = DOMAIN NoTx /\ tx'[t].stage = "sides"
          /\ tx'[t].rows = tx[t].rows /\ tx'[t].target \in Entities
      BY <1>2, <2>1, <2>2 DEF NoTx, Others, RecordOK
    <2>4. RecordOK(tx'[t])
      BY <1>2, <2>2, <2>3 DEF RecordOK, MovedStages
    <2> QED BY <1>1, <2>3, <2>4, OwnStep DEF MovedStages
  <1>6. CASE ReadHeld(t)
    <2>1. /\ tx' = [u \in Requests |-> tx'[u]] /\ \A u \in Others(t) : tx'[u] = tx[u]
          /\ DOMAIN tx'[t] = DOMAIN NoTx /\ tx'[t].stage = "sides"
          /\ tx'[t].rows = tx[t].rows /\ tx'[t].target = tx[t].target
          /\ tx[t].stage = "checked" /\ tx[t].kind = "split"
      BY <1>2, <1>6 DEF ReadHeld, At, Is, Goes, NoTx, Others, RecordOK
    <2>2. RecordOK(tx'[t])
      BY <1>2, <2>1 DEF RecordOK, MovedStages
    <2> QED BY <1>1, <2>1, <2>2, OwnStep DEF MovedStages
  <1> QED BY <1>3, <1>4, <1>5, <1>6, <1>7 DEF Read

\* A decision takes its number, lists the mentions to move and selects their active
\* rows; the flush goes through only if nobody else's flush holds one of them.
LEMMA MoveStep ==
  ASSUME RaceInv, NEW t \in Requests, Move(t)
  PROVE  RaceInv'
  <1>1. UNCHANGED vars
    BY DEF Move, OpenRevision, ListMentions, SelectRows, MoveRows
  <1>2. RecordOK(tx[t]) /\ tx = [u \in Requests |-> tx[u]] /\ DOMAIN tx[t] = DOMAIN NoTx
        /\ sequence \in 0..MaxRevision
    BY DEF RaceInv, Typed, RecordOK
  <1>3. CASE OpenRevision(t)
    <2>5. sequence < MaxRevision /\ sequence' = sequence + 1
      BY <1>3 DEF OpenRevision
    <2>6. MaxRevision \in Nat
      BY LedgerAssumption DEF LedgerAssumption
    <2>1. sequence' \in 0..MaxRevision /\ sequence + 1 \in 1..MaxRevision
      BY <1>2, <2>5, <2>6
    <2>2. CASE At(t, "sides") /\ tx' = [tx EXCEPT
                 ![t].stage = IF Is(t, {"split"}) THEN "listed" ELSE "opened",
                 ![t].revision = sequence + 1]
      <3>1. /\ tx' = [u \in Requests |-> tx'[u]] /\ \A u \in Others(t) : tx'[u] = tx[u]
            /\ DOMAIN tx'[t] = DOMAIN NoTx /\ tx'[t].stage \in {"listed", "opened"}
            /\ tx'[t].rows = tx[t].rows /\ tx'[t].target = tx[t].target
            /\ tx'[t].revision = sequence + 1
        BY <1>2, <2>2 DEF NoTx, Others
      <3>2. tx[t].stage = "sides"
        BY <2>2 DEF At
      <3>3. RecordOK(tx'[t])
        BY <1>2, <2>1, <3>1, <3>2 DEF RecordOK, MovedStages
      <3> QED BY <1>1, <2>1, <3>1, <3>3, OwnStep DEF MovedStages
    <2>3. CASE \E pair \in Mentions \X Mentions, kind \in {"reject", "unresolved"} :
               \E r \in Pairs(kind, pair) :
                 tx' = [tx EXCEPT ![t] = [r EXCEPT !.stage = "opened", !.revision = sequence + 1]]
      <3>1. PICK pair \in Mentions \X Mentions, kind \in {"reject", "unresolved"} :
              \E r \in Pairs(kind, pair) :
                tx' = [tx EXCEPT ![t] = [r EXCEPT !.stage = "opened", !.revision = sequence + 1]]
        BY <2>3
      <3>2. PICK r \in Pairs(kind, pair) :
              tx' = [tx EXCEPT ![t] = [r EXCEPT !.stage = "opened", !.revision = sequence + 1]]
        BY <3>1
      <3>3. r.kind = kind /\ r.rows = {} /\ DOMAIN r = DOMAIN NoTx
        BY NewPair
      <3>4. /\ tx' = [u \in Requests |-> tx'[u]] /\ \A u \in Others(t) : tx'[u] = tx[u]
            /\ tx'[t] = [r EXCEPT !.stage = "opened", !.revision = sequence + 1]
        BY <1>2, <3>2 DEF Others
      <3>5. /\ DOMAIN tx'[t] = DOMAIN NoTx /\ tx'[t].stage = "opened"
            /\ tx'[t].rows = {} /\ tx'[t].kind = kind /\ tx'[t].revision = sequence + 1
        BY <3>3, <3>4 DEF NoTx
      <3>6. RecordOK(tx'[t])
        BY <2>1, <3>5 DEF RecordOK, MovedStages
      <3> QED BY <1>1, <2>1, <3>4, <3>5, <3>6, OwnStep DEF MovedStages
    <2> QED BY <1>3, <2>2, <2>3 DEF OpenRevision
  <1>4. CASE ListMentions(t)
    <2>1. /\ tx' = [u \in Requests |-> tx'[u]] /\ \A u \in Others(t) : tx'[u] = tx[u]
          /\ DOMAIN tx'[t] = DOMAIN NoTx /\ tx'[t].stage = "listed"
          /\ tx'[t].rows = tx[t].rows /\ tx'[t].target = tx[t].target
          /\ tx'[t].revision = tx[t].revision
          /\ tx[t].stage = "opened" /\ tx[t].kind = "confirm"
      BY <1>2, <1>4 DEF ListMentions, At, Is, NoTx, Others
    <2>2. RecordOK(tx'[t])
      BY <1>2, <2>1 DEF RecordOK, MovedStages
    <2>3. sequence' \in 0..MaxRevision
      BY <1>2, <1>4 DEF ListMentions
    <2> QED BY <1>1, <2>1, <2>2, <2>3, OwnStep DEF MovedStages
  <1>5. CASE SelectRows(t)
    <2>1. /\ tx' = [u \in Requests |-> tx'[u]] /\ \A u \in Others(t) : tx'[u] = tx[u]
          /\ DOMAIN tx'[t] = DOMAIN NoTx /\ tx'[t].stage = "selected"
          /\ tx'[t].rows = Leaving(tx[t].mentions, tx[t].target)
          /\ tx'[t].target = tx[t].target /\ tx'[t].revision = tx[t].revision
          /\ tx[t].stage = "listed"
      BY <1>2, <1>5 DEF SelectRows, At, NoTx, Others
    <2>2. tx'[t].rows \subseteq Membership /\ \A row \in tx'[t].rows : row.closed = Open
      BY <2>1 DEF Leaving, Active, RaceInv, Typed
    <2>3. RecordOK(tx'[t])
      BY <1>2, <2>1, <2>2 DEF RecordOK, MovedStages
    <2>4. sequence' \in 0..MaxRevision
      BY <1>2, <1>5 DEF SelectRows
    <2> QED BY <1>1, <2>1, <2>3, <2>4, OwnStep DEF MovedStages
  <1>6. CASE MoveRows(t)
    <2>1. /\ tx' = [u \in Requests |-> tx'[u]] /\ \A u \in Others(t) : tx'[u] = tx[u]
          /\ DOMAIN tx'[t] = DOMAIN NoTx /\ tx'[t].stage = "moved"
          /\ tx'[t].rows = tx[t].rows /\ tx'[t].target = tx[t].target
          /\ tx'[t].revision = tx[t].revision /\ tx[t].stage = "selected"
      BY <1>2, <1>6 DEF MoveRows, Goes, At, NoTx, Others
    <2>2. RecordOK(tx'[t])
      BY <1>2, <2>1 DEF RecordOK, MovedStages
    <2>3. /\ tx'[t].rows \subseteq memberships
          /\ \A u \in Others(t) : HasMoved(u) => tx[u].rows \cap tx'[t].rows = {}
      BY <1>6, <2>1 DEF MoveRows
    <2>4. sequence' \in 0..MaxRevision
      BY <1>2, <1>6 DEF MoveRows
    <2> QED BY <1>1, <2>1, <2>2, <2>3, <2>4, OwnStep
  <1> QED BY <1>3, <1>4, <1>5, <1>6 DEF Move

\* From the flush on, a transaction keeps its rows; a reject and a mark_unresolved
\* have none.
LEMMA KeepingStep ==
  ASSUME RaceInv, NEW t \in Requests, UNCHANGED vars, UNCHANGED sequence,
         tx' = [u \in Requests |-> tx'[u]],
         \A u \in Others(t) : tx'[u] = tx[u],
         DOMAIN tx'[t] = DOMAIN NoTx,
         tx[t].stage \in {"opened", "constrained"} \cup MovedStages,
         tx[t].stage = "opened" => tx[t].kind \in {"reject", "unresolved"},
         tx'[t].stage = "constrained" => tx[t].stage = "opened" /\ tx[t].kind = "reject",
         tx'[t].stage \in {"constrained"} \cup MovedStages,
         tx'[t].stage \in {"moved", "replayed", "cleared", "mapped"} => tx[t].target \in Entities,
         tx'[t].rows = tx[t].rows, tx'[t].target = tx[t].target,
         tx'[t].revision = tx[t].revision, tx'[t].kind = tx[t].kind
  PROVE  RaceInv'
  <1>1. RecordOK(tx[t]) /\ sequence \in 0..MaxRevision
    BY DEF RaceInv, Typed
  <1>2. tx'[t].stage = "settled" /\ tx[t].kind = "confirm" => tx[t].target \in Entities
    BY <1>1 DEF RecordOK, MovedStages
  <1>3. RecordOK(tx'[t])
    <2>1. tx[t].stage # "idle" /\ tx[t].revision \in 1..MaxRevision
      BY <1>1 DEF RecordOK, MovedStages
    <2>2. tx'[t].rows # {} => tx'[t].stage \in MovedStages
      BY <1>1 DEF RecordOK, MovedStages
    <2> QED BY <1>1, <1>2, <2>1, <2>2 DEF RecordOK, MovedStages
  <1>4. CASE tx[t].stage \in MovedStages
    <2>1. HasMoved(t)
      BY <1>4 DEF HasMoved, MovedStages
    <2>2. /\ tx'[t].rows \subseteq memberships
          /\ \A u \in Others(t) : HasMoved(u) => tx[u].rows \cap tx'[t].rows = {}
      BY <2>1 DEF RaceInv, FlushesApart
    <2> QED BY <1>1, <1>3, <2>2, OwnStep DEF MovedStages
  <1>5. CASE tx[t].stage \notin MovedStages
    <2>1. tx'[t].rows = {}
      BY <1>1, <1>5 DEF RecordOK, MovedStages
    <2> QED BY <1>1, <1>3, <2>1, OwnStep DEF MovedStages
  <1> QED BY <1>4, <1>5

\* A reject reads the constraint it supersedes; a candidate is settled.
LEMMA JudgeStep ==
  ASSUME RaceInv, NEW t \in Requests, Judge(t)
  PROVE  RaceInv'
  <1>1. UNCHANGED vars /\ UNCHANGED sequence
    BY DEF Judge, ReadConstraint, Settle
  <1>2. RecordOK(tx[t]) /\ tx = [u \in Requests |-> tx[u]] /\ DOMAIN tx[t] = DOMAIN NoTx
    BY DEF RaceInv, Typed, RecordOK
  <1>3. CASE ReadConstraint(t)
    <2>1. /\ tx' = [u \in Requests |-> tx'[u]] /\ \A u \in Others(t) : tx'[u] = tx[u]
          /\ DOMAIN tx'[t] = DOMAIN NoTx /\ tx'[t].stage = "constrained"
          /\ tx'[t].rows = tx[t].rows /\ tx'[t].target = tx[t].target
          /\ tx'[t].revision = tx[t].revision /\ tx'[t].kind = tx[t].kind
          /\ tx[t].stage = "opened" /\ tx[t].kind = "reject"
      BY <1>2, <1>3 DEF ReadConstraint, At, Is, NoTx, Others
    <2> QED BY <1>1, <2>1, KeepingStep
  <1>4. CASE Settle(t)
    <2>1. /\ tx' = [u \in Requests |-> tx'[u]] /\ \A u \in Others(t) : tx'[u] = tx[u]
          /\ DOMAIN tx'[t] = DOMAIN NoTx /\ tx'[t].stage = "settled"
          /\ tx'[t].rows = tx[t].rows /\ tx'[t].target = tx[t].target
          /\ tx'[t].revision = tx[t].revision /\ tx'[t].kind = tx[t].kind
      BY <1>2, <1>4 DEF Settle, Goes, NoTx, Others
    <2>2. \/ tx[t].stage \in {"moved", "constrained"}
          \/ tx[t].stage = "opened" /\ tx[t].kind = "unresolved"
      BY <1>4 DEF Settle, At, Is
    <2> QED BY <1>1, <2>1, <2>2, KeepingStep DEF MovedStages
  <1> QED BY <1>3, <1>4 DEF Judge

\* The rebuild of the map changes no membership and no row of its transaction.
LEMMA RemapStep ==
  ASSUME RaceInv, NEW t \in Requests, Remap(t)
  PROVE  RaceInv'
  <1>1. UNCHANGED vars /\ UNCHANGED sequence
    BY DEF Remap, Replay, ClearMap, WriteMap
  <1>2. RecordOK(tx[t]) /\ tx = [u \in Requests |-> tx[u]] /\ DOMAIN tx[t] = DOMAIN NoTx
    BY DEF RaceInv, Typed, RecordOK
  <1>3. CASE Replay(t)
    <2>1. PICK l, s : tx' = [tx EXCEPT ![t].stage = "replayed", ![t].lineage = l, ![t].living = s]
      BY <1>3 DEF Replay
    <2>2. /\ tx' = [u \in Requests |-> tx'[u]] /\ \A u \in Others(t) : tx'[u] = tx[u]
          /\ DOMAIN tx'[t] = DOMAIN NoTx /\ tx'[t].stage = "replayed"
          /\ tx'[t].rows = tx[t].rows /\ tx'[t].target = tx[t].target
          /\ tx'[t].revision = tx[t].revision /\ tx'[t].kind = tx[t].kind
      BY <1>2, <2>1 DEF NoTx, Others
    <2>3. tx[t].stage \in {"settled", "moved"} /\ tx[t].target \in Entities
      BY <1>2, <1>3 DEF Replay, At, Is, RecordOK
    <2> QED BY <1>1, <2>2, <2>3, KeepingStep DEF MovedStages
  <1>4. CASE ClearMap(t)
    <2>1. /\ tx' = [u \in Requests |-> tx'[u]] /\ \A u \in Others(t) : tx'[u] = tx[u]
          /\ DOMAIN tx'[t] = DOMAIN NoTx /\ tx'[t].stage = "cleared"
          /\ tx'[t].rows = tx[t].rows /\ tx'[t].target = tx[t].target
          /\ tx'[t].revision = tx[t].revision /\ tx'[t].kind = tx[t].kind
      BY <1>2, <1>4 DEF ClearMap, NoTx, Others
    <2>2. tx[t].stage = "replayed" /\ tx[t].target \in Entities
      BY <1>2, <1>4 DEF ClearMap, At, RecordOK
    <2> QED BY <1>1, <2>1, <2>2, KeepingStep DEF MovedStages
  <1>5. CASE WriteMap(t)
    <2>1. PICK m, o : tx' = [tx EXCEPT ![t].stage = "mapped", ![t].map = m, ![t].orphans = o]
      BY <1>5 DEF WriteMap
    <2>2. /\ tx' = [u \in Requests |-> tx'[u]] /\ \A u \in Others(t) : tx'[u] = tx[u]
          /\ DOMAIN tx'[t] = DOMAIN NoTx /\ tx'[t].stage = "mapped"
          /\ tx'[t].rows = tx[t].rows /\ tx'[t].target = tx[t].target
          /\ tx'[t].revision = tx[t].revision /\ tx'[t].kind = tx[t].kind
      BY <1>2, <2>1 DEF NoTx, Others
    <2>3. tx[t].stage = "cleared" /\ tx[t].target \in Entities
      BY <1>2, <1>5 DEF WriteMap, At, RecordOK
    <2> QED BY <1>1, <2>2, <2>3, KeepingStep DEF MovedStages
  <1> QED BY <1>3, <1>4, <1>5 DEF Remap

\* An attachment starts from a mention that belongs to nobody and goes on only while
\* it does, and while nobody else has inserted one.
LEMMA AttachStep ==
  ASSUME RaceInv, NEW t \in Requests, Attach(t)
  PROVE  RaceInv'
  <1>1. UNCHANGED vars /\ UNCHANGED sequence
    BY DEF Attach, FindNoOwner, OpenMembership
  <1>2. /\ RecordOK(tx[t]) /\ tx = [u \in Requests |-> tx[u]] /\ DOMAIN tx[t] = DOMAIN NoTx
        /\ head \in 0..MaxRevision /\ sequence \in 0..MaxRevision
    BY DEF RaceInv, Typed, RecordOK
  <1>3. CASE FindNoOwner(t)
    <2>1. PICK k \in Claims, m \in Mentions, e \in Entities :
            tx' = [tx EXCEPT ![t] = [NoTx EXCEPT !.stage = "unowned", !.kind = "attach",
                                                 !.claim = k, !.a = m, !.target = e]]
      BY <1>3 DEF FindNoOwner
    <2>2. /\ tx' = [u \in Requests |-> tx'[u]] /\ \A u \in Others(t) : tx'[u] = tx[u]
          /\ DOMAIN tx'[t] = DOMAIN NoTx /\ tx'[t].stage = "unowned" /\ tx'[t].kind = "attach"
          /\ tx'[t].target \in Entities /\ tx'[t].a \in Mentions /\ tx'[t].rows = {}
      BY <1>2, <2>1 DEF NoTx, Others
    <2>3. RecordOK(tx'[t])
      BY <2>2 DEF RecordOK, MovedStages
    <2> QED BY <1>1, <1>2, <2>2, <2>3, OwnStep DEF MovedStages
  <1>4. CASE OpenMembership(t)
    <2>1. /\ tx' = [u \in Requests |-> tx'[u]] /\ \A u \in Others(t) : tx'[u] = tx[u]
          /\ DOMAIN tx'[t] = DOMAIN NoTx /\ tx'[t].stage = "attached"
          /\ tx'[t].rows = tx[t].rows /\ tx'[t].target = tx[t].target /\ tx'[t].a = tx[t].a
          /\ tx'[t].revision = head /\ tx'[t].kind = tx[t].kind /\ tx[t].stage = "unowned"
      BY <1>2, <1>4 DEF OpenMembership, At, NoTx, Others
    <2>2. RecordOK(tx'[t])
      BY <1>2, <2>1 DEF RecordOK, MovedStages
    <2>3. ~Resolved(tx'[t].a) /\ \A u \in Others(t) : At(u, "attached") => tx[u].a # tx'[t].a
      BY ZenonT(60), <1>4, <2>1 DEF OpenMembership
    <2> QED BY <1>1, <1>2, <2>1, <2>2, <2>3, OwnStep DEF MovedStages
  <1> QED BY <1>3, <1>4 DEF Attach
-----------------------------------------------------------------------------
\* After a commit the other transactions are where they were; they have missed it.
LEMMA AfterCommitKeeps ==
  ASSUME Typed, NEW t \in Requests, NEW wroteMap, tx' = AfterCommit(t, wroteMap)
  PROVE  /\ tx' = [u \in Requests |-> tx'[u]]
         /\ \A u \in Requests : RecordOK(tx'[u])
         /\ tx'[t].stage = "idle"
         /\ \A u \in Others(t) : /\ tx'[u].stage = tx[u].stage /\ tx'[u].rows = tx[u].rows
                                 /\ tx'[u].a = tx[u].a
  <1>1. \A u \in Requests : u # t /\ tx[u].stage # "idle" =>
          tx'[u] = [tx[u] EXCEPT !.missed = TRUE, !.overtaken = @ \/ wroteMap]
    BY DEF AfterCommit, At
  <1>2. \A u \in Requests : u # t /\ tx[u].stage = "idle" => tx'[u] = tx[u]
    BY DEF AfterCommit, At
  <1>3. tx'[t] = NoTx
    BY DEF AfterCommit
  <1>4. \A u \in Requests : u # t /\ tx[u].stage # "idle" =>
          /\ DOMAIN tx'[u] = DOMAIN NoTx
          /\ tx'[u].stage = tx[u].stage /\ tx'[u].kind = tx[u].kind /\ tx'[u].a = tx[u].a
          /\ tx'[u].target = tx[u].target /\ tx'[u].rows = tx[u].rows
          /\ tx'[u].revision = tx[u].revision
    <2> SUFFICES ASSUME NEW u \in Requests, u # t, tx[u].stage # "idle"
                 PROVE  /\ DOMAIN tx'[u] = DOMAIN NoTx
                        /\ tx'[u].stage = tx[u].stage /\ tx'[u].kind = tx[u].kind
                        /\ tx'[u].a = tx[u].a
                        /\ tx'[u].target = tx[u].target /\ tx'[u].rows = tx[u].rows
                        /\ tx'[u].revision = tx[u].revision
      OBVIOUS
    <2>1. DOMAIN tx[u] = DOMAIN NoTx
      BY DEF Typed, RecordOK
    <2> QED BY ZenonT(60), <1>1, <2>1 DEF NoTx
  <1>5. \A u \in Requests : RecordOK(tx'[u])
    <2> SUFFICES ASSUME NEW u \in Requests, u # t, tx[u].stage # "idle" PROVE RecordOK(tx'[u])
      BY <1>2, <1>3, NoTxOK DEF Typed
    <2>1. RecordOK(tx[u])
      BY DEF Typed
    <2> QED BY <1>4, <2>1 DEF RecordOK
  <1> QED BY <1>2, <1>3, <1>4, <1>5, NoTxOK DEF AfterCommit, Others

\* The flush closes the rows it selected and opens one for each, for the same mention.
ClosedBy(t, row) == [row EXCEPT !.closed = tx[t].revision]
OpenedBy(t, row) == [mention |-> row.mention, entity |-> tx[t].target,
                     opened |-> tx[t].revision, closed |-> Open]

LEMMA FlushedRow ==
  ASSUME RaceInv, NEW t \in Requests, HasMoved(t), tx[t].target \in Entities,
         tx[t].revision \in 1..MaxRevision, NEW row \in tx[t].rows
  PROVE  /\ row \in memberships /\ row \in Active
         /\ ClosedBy(t, row) \in Membership /\ OpenedBy(t, row) \in Membership
         /\ ClosedBy(t, row).closed # Open /\ ClosedBy(t, row).mention = row.mention
         /\ OpenedBy(t, row).closed = Open /\ OpenedBy(t, row).mention = row.mention
  <1>1. row \in memberships /\ row.closed = Open /\ row \in Membership
    BY DEF RaceInv, FlushesApart, Typed, RecordOK
  <1>2. tx[t].revision # Open /\ tx[t].revision \in 0..MaxRevision /\ Open \in 0..MaxRevision
    BY LedgerAssumption DEF Open, LedgerAssumption
  <1> QED BY <1>1, <1>2 DEF Active, ClosedBy, OpenedBy, Membership

LEMMA FlushedRows ==
  ASSUME RaceInv, NEW t \in Requests, HasMoved(t), tx[t].target \in Entities,
         tx[t].revision \in 1..MaxRevision
  PROVE  /\ Flushed(t) \subseteq Membership
         /\ \A x \in Flushed(t) : \E row \in memberships : row.mention = x.mention
         /\ \A x \in Flushed(t) : x.closed = Open =>
              \/ x \in Active \ tx[t].rows
              \/ \E row \in tx[t].rows : x = OpenedBy(t, row)
         /\ \A row \in tx[t].rows : OpenedBy(t, row) \in Flushed(t)
         /\ memberships \ tx[t].rows \subseteq Flushed(t)
  <1>1. Flushed(t) = (memberships \ tx[t].rows) \cup {ClosedBy(t, row) : row \in tx[t].rows}
                       \cup {OpenedBy(t, row) : row \in tx[t].rows}
    BY DEF Flushed, ClosedBy, OpenedBy
  <1>2. memberships \subseteq Membership
    BY DEF RaceInv, Typed
  <1> QED BY <1>1, <1>2, FlushedRow DEF Active

\* A merge or a split that commits leaves each mention one active row, and takes no
\* row another flush has chosen and no mention another attachment has.
LEMMA CommitMoveStep ==
  ASSUME RaceInv, NEW t \in Requests, CommitMove(t)
  PROVE  RaceInv'
  <1>1. /\ tx[t].stage = "mapped" /\ HasMoved(t)
        /\ tx[t].target \in Entities /\ tx[t].revision \in 1..MaxRevision
    BY DEF CommitMove, At, HasMoved, RaceInv, Typed, RecordOK, MovedStages
  <1>2. memberships' = Flushed(t) /\ sequence' = sequence
    BY DEF CommitMove
  <1>3. head' \in 0..MaxRevision
    BY <1>1 DEF CommitMove, Decided, RaceInv, Typed
  <1>4. /\ tx' = [u \in Requests |-> tx'[u]] /\ \A u \in Requests : RecordOK(tx'[u])
        /\ tx'[t].stage = "idle"
        /\ \A u \in Others(t) : /\ tx'[u].stage = tx[u].stage /\ tx'[u].rows = tx[u].rows
                                /\ tx'[u].a = tx[u].a
    BY AfterCommitKeeps DEF CommitMove, RaceInv
  <1>5. \A u \in Requests : u = t \/ u \in Others(t)
    BY DEF Others
  <1>6. Typed'
    <2>1. \A u \in Requests : RecordOK(tx[u])'
      BY <1>4 DEF RecordOK
    <2> QED BY <1>1, <1>2, <1>3, <1>4, <2>1, FlushedRows DEF Typed, RaceInv
  <1>7. \A row \in memberships : row \in tx[t].rows \/ row \in memberships'
    BY <1>1, <1>2, FlushedRows
  <1>8. FlushesApart'
    <2>1. \A u \in Others(t) : HasMoved(u) =>
            /\ tx[u].rows \subseteq memberships' /\ tx[u].rows \cap tx[t].rows = {}
            /\ \A v \in Others(u) : HasMoved(v) => tx[v].rows \cap tx[u].rows = {}
      BY <1>1, <1>7 DEF RaceInv, FlushesApart, Others
    <2>2. \A u \in Requests : HasMoved(u)' => u \in Others(t) /\ HasMoved(u)
      BY <1>4, <1>5 DEF HasMoved
    <2> QED BY <1>4, <1>5, <2>1, <2>2 DEF FlushesApart, Others
  <1>9. \A m : Resolved(m)' => Resolved(m)
    <2> SUFFICES ASSUME NEW x \in Flushed(t), x.closed = Open
                 PROVE  Resolved(x.mention)
      BY <1>2 DEF Resolved, Active
    <2>1. CASE x \in Active \ tx[t].rows
      BY <2>1 DEF Resolved
    <2>2. CASE \E row \in tx[t].rows : x = OpenedBy(t, row)
      BY <1>1, <2>2, FlushedRow DEF Resolved
    <2> QED BY <1>1, <2>1, <2>2, FlushedRows
  <1>10. AttachmentsApart'
    BY <1>4, <1>5, <1>9 DEF RaceInv, AttachmentsApart, At, Others
  <1>11. OneEntityPerMention'
    <2> SUFFICES ASSUME NEW row \in Flushed(t)
                 PROVE  \E x \in Flushed(t) :
                          /\ x.closed = Open /\ x.mention = row.mention
                          /\ \A y \in Flushed(t) :
                               y.closed = Open /\ y.mention = row.mention => y = x
      BY <1>2 DEF OneEntityPerMention, Active
    <2>1. PICK x \in Active : /\ x.mention = row.mention
                              /\ \A y \in Active : y.mention = row.mention => y = x
      BY <1>1, FlushedRows DEF RaceInv, OneEntityPerMention
    <2>2. \A r \in tx[t].rows : r.mention = row.mention => r = x
      BY <1>1, <2>1, FlushedRow
    <2>3. \A y \in Flushed(t) : y.closed = Open /\ y.mention = row.mention =>
            (y = x /\ x \notin tx[t].rows) \/ (y = OpenedBy(t, x) /\ x \in tx[t].rows)
      <3> SUFFICES ASSUME NEW y \in Flushed(t), y.closed = Open, y.mention = row.mention
                   PROVE  (y = x /\ x \notin tx[t].rows) \/ (y = OpenedBy(t, x) /\ x \in tx[t].rows)
        OBVIOUS
      <3>1. CASE y \in Active \ tx[t].rows
        BY <2>1, <3>1
      <3>2. CASE \E r \in tx[t].rows : y = OpenedBy(t, r)
        BY <1>1, <2>2, <3>2, FlushedRow
      <3> QED BY <1>1, <3>1, <3>2, FlushedRows
    <2>4. CASE x \in tx[t].rows
      <3>1. /\ OpenedBy(t, x) \in Flushed(t) /\ OpenedBy(t, x).closed = Open
            /\ OpenedBy(t, x).mention = row.mention
        BY <1>1, <2>1, <2>4, FlushedRow, FlushedRows
      <3> QED BY <2>3, <2>4, <3>1
    <2>5. CASE x \notin tx[t].rows
      <3>1. x \in Flushed(t) /\ x.closed = Open
        BY <1>1, <2>5, FlushedRows DEF Active
      <3> QED BY <2>1, <2>3, <2>5, <3>1
    <2> QED BY <2>4, <2>5
  <1> QED BY <1>6, <1>8, <1>10, <1>11 DEF RaceInv

\* A claim that commits gives its mention the one row nobody else was inserting.
LEMMA CommitClaimStep ==
  ASSUME RaceInv, NEW t \in Requests, CommitClaim(t)
  PROVE  RaceInv'
  <1> DEFINE new == [mention |-> tx[t].a, entity |-> tx[t].target,
                     opened |-> tx[t].revision, closed |-> Open]
  <1>1. /\ tx[t].target \in Entities /\ tx[t].revision \in 0..MaxRevision /\ tx[t].a \in Mentions
        /\ ~Resolved(tx[t].a)
        /\ \A u \in Others(t) : At(u, "attached") => tx[u].a # tx[t].a
    BY DEF CommitClaim, At, RaceInv, Typed, RecordOK, AttachmentsApart
  <1>2. memberships' = memberships \cup {new} /\ sequence' = sequence /\ head' = head
    BY DEF CommitClaim
  <1>3. new \in Membership /\ new.closed = Open /\ new.mention = tx[t].a
    BY <1>1, LedgerAssumption DEF Membership, Open, LedgerAssumption
  <1> HIDE DEF new
  <1>4. /\ tx' = [u \in Requests |-> tx'[u]] /\ \A u \in Requests : RecordOK(tx'[u])
        /\ tx'[t].stage = "idle"
        /\ \A u \in Others(t) : /\ tx'[u].stage = tx[u].stage /\ tx'[u].rows = tx[u].rows
                                 /\ tx'[u].a = tx[u].a
    BY AfterCommitKeeps DEF CommitClaim, RaceInv
  <1>5. \A u \in Requests : u = t \/ u \in Others(t)
    BY DEF Others
  <1>6. Typed'
    <2>1. \A u \in Requests : RecordOK(tx[u])'
      BY <1>4 DEF RecordOK
    <2> QED BY <1>2, <1>3, <1>4, <2>1 DEF Typed, RaceInv
  <1>7. FlushesApart'
    <2>1. \A u \in Requests : HasMoved(u)' => u \in Others(t) /\ HasMoved(u)
      BY <1>4, <1>5 DEF HasMoved
    <2> QED BY <1>2, <1>4, <1>5, <2>1 DEF RaceInv, FlushesApart, Others
  <1>8. Active' = Active \cup {new}
    BY <1>2, <1>3 DEF Active
  <1>9. AttachmentsApart'
    BY <1>1, <1>3, <1>4, <1>5, <1>8 DEF RaceInv, AttachmentsApart, At, Resolved, Others
  <1>10. OneEntityPerMention'
    BY <1>1, <1>2, <1>3, <1>8 DEF RaceInv, OneEntityPerMention, Resolved
  <1> QED BY <1>6, <1>7, <1>9, <1>10 DEF RaceInv

\* A reject and a mark_unresolved commit without touching a membership.
LEMMA CommitRulingStep ==
  ASSUME RaceInv, NEW t \in Requests, CommitReject(t) \/ CommitUnresolved(t)
  PROVE  RaceInv'
  <1>1. memberships' = memberships /\ sequence' = sequence
    BY DEF CommitReject, CommitUnresolved
  <1>2. tx[t].stage = "settled" /\ tx' = AfterCommit(t, FALSE)
    BY DEF CommitReject, CommitUnresolved, At
  <1>3. tx[t].revision \in 1..MaxRevision
    BY <1>2 DEF RaceInv, Typed, RecordOK, MovedStages
  <1>4. head' \in 0..MaxRevision
    <2>1. head' = IF tx[t].revision > head THEN tx[t].revision ELSE head
      BY DEF CommitReject, CommitUnresolved, Decided
    <2> QED BY <1>3, <2>1 DEF RaceInv, Typed
  <1>5. /\ tx' = [u \in Requests |-> tx'[u]] /\ \A u \in Requests : RecordOK(tx'[u])
        /\ tx'[t].stage = "idle"
        /\ \A u \in Others(t) : /\ tx'[u].stage = tx[u].stage /\ tx'[u].rows = tx[u].rows
                                 /\ tx'[u].a = tx[u].a
    BY <1>2, AfterCommitKeeps DEF RaceInv
  <1>6. \A u \in Requests : u = t \/ u \in Others(t)
    BY DEF Others
  <1>7. Typed'
    <2>1. \A u \in Requests : RecordOK(tx[u])'
      BY <1>5 DEF RecordOK
    <2> QED BY <1>1, <1>4, <1>5, <2>1 DEF Typed, RaceInv
  <1>8. FlushesApart'
    <2>1. \A u \in Requests : HasMoved(u)' => u \in Others(t) /\ HasMoved(u)
      BY <1>5, <1>6 DEF HasMoved
    <2> QED BY <1>1, <1>5, <1>6, <2>1 DEF RaceInv, FlushesApart, Others
  <1>9. AttachmentsApart'
    BY <1>1, <1>5, <1>6 DEF RaceInv, AttachmentsApart, At, Resolved, Active, Others
  <1>10. OneEntityPerMention'
    BY <1>1 DEF RaceInv, OneEntityPerMention, Active
  <1> QED BY <1>7, <1>8, <1>9, <1>10 DEF RaceInv
-----------------------------------------------------------------------------
\* The baseline gives each mention one row, and no transaction is open.
LEMMA RaceStart ==
  ASSUME RaceInit
  PROVE  RaceInv
  <1>1. /\ memberships = {[mention |-> m, entity |-> Baseline[m], opened |-> 0, closed |-> Open]
                            : m \in DOMAIN Baseline}
        /\ head = 0 /\ sequence = 0 /\ tx = [t \in Requests |-> NoTx]
    BY DEF RaceInit, Init
  <1>2. \A m \in DOMAIN Baseline : Baseline[m] \in Entities /\ m \in Mentions
    BY LedgerAssumption DEF LedgerAssumption
  <1>3. MaxRevision \in Nat
    BY LedgerAssumption DEF LedgerAssumption
  <1>4. Typed
    <2>1. memberships \subseteq Membership
      BY <1>1, <1>2, <1>3 DEF Membership, Open
    <2> QED BY <1>1, <1>3, <2>1, NoTxOK DEF Typed
  <1>5. FlushesApart /\ AttachmentsApart
    BY <1>1, NoTxOK DEF FlushesApart, AttachmentsApart, HasMoved, At
  <1>6. OneEntityPerMention
    BY <1>1 DEF OneEntityPerMention, Active
  <1> QED BY <1>4, <1>5, <1>6 DEF RaceInv

\* Any number of transactions whose statements interleave as PostgreSQL lets them, some
\* of them rolled back at any point, leave every mention that was ever given to an
\* entity with exactly one: the flush that waits for the rows of another and the
\* unique index are enough, with no row read under a lock (_move_mentions,
\* ledger.py open_membership, ux_membership_one_active).
THEOREM OneEntityUnderRaces == RaceSpec => []OneEntityPerMention
  <1>1. RaceInit => RaceInv
    BY RaceStart
  <1>2. RaceInv /\ [RaceNext]_raceVars => RaceInv'
    <2> SUFFICES ASSUME RaceInv, [RaceNext]_raceVars PROVE RaceInv'
      OBVIOUS
    <2>1. CASE UNCHANGED raceVars
      <3>1. Typed'
        <4>1. \A u \in Requests : RecordOK(tx[u])'
          BY <2>1 DEF RaceInv, Typed, RecordOK, raceVars
        <4> QED BY <2>1, <4>1 DEF RaceInv, Typed, raceVars, vars
      <3>2. FlushesApart' /\ AttachmentsApart' /\ OneEntityPerMention'
        BY <2>1 DEF RaceInv, FlushesApart, AttachmentsApart, OneEntityPerMention, HasMoved, At,
                    Resolved, Active, raceVars, vars
      <3> QED BY <3>1, <3>2 DEF RaceInv
    <2>2. ASSUME NEW t \in Requests, Statement(t) PROVE RaceInv'
      BY <2>2, AbortStep, ReadStep, MoveStep, JudgeStep, RemapStep, AttachStep DEF Statement
    <2>3. ASSUME NEW t \in Requests, Commit(t) PROVE RaceInv'
      BY <2>3, CommitMoveStep, CommitRulingStep, CommitClaimStep DEF Commit
    <2> QED BY <2>1, <2>2, <2>3 DEF RaceNext
  <1>3. RaceInv => OneEntityPerMention
    BY DEF RaceInv
  <1> QED BY <1>1, <1>2, <1>3, PTL DEF RaceSpec
=============================================================================
