---------------------------- MODULE AuthzOutbox -----------------------------
(***************************************************************************)
(* Authorization as a projection of Postgres (ADR-014): the actions that   *)
(* change who holds what and queue the tuple change in the same            *)
(* transaction (aegis/actions/service.py), the routes that try the delete  *)
(* once more inline after the commit (aegis/api/routes/cases.py,           *)
(* evidence.py), the dispatcher that drains authz_outbox into OpenFGA and  *)
(* the full rebuild (aegis/authz/outbox.py).                               *)
(*                                                                         *)
(* A place is where one grant lives: the seat of a user in a case, held by *)
(* a role; an evidence item, held by its custodian; the link of an item,   *)
(* held by its case.  An FGA tuple is a pair <<place, holder>>.            *)
(***************************************************************************)
EXTENDS Naturals, FiniteSets

CONSTANTS
  Seats,        \* (case, user) pairs; case_member has at most one row for each
  Roles,        \* the roles a seat can have
  Items,        \* evidence items
  Officers,     \* users who take custody of items
  Links,        \* evidence items that belong to a case, as places for the link
  Cases,        \* cases an item can belong to
  None,         \* no row
  Clients,      \* requests that can be in flight at the same time
  BatchSize,    \* authz_outbox_batch_size
  Drift,        \* tuples a restore may have left in the store
  MaxRequests, MaxCrashes, MaxRebuilds   \* bounds

Places == Seats \cup Items \cup Links
Holders == Roles \cup Officers \cup Cases
Tuples == Places \X Holders

ASSUME OutboxAssumption ==
  /\ BatchSize \in Nat \ {0}
  /\ MaxRequests \in Nat /\ MaxCrashes \in Nat /\ MaxRebuilds \in Nat
  /\ None \notin Holders
  /\ Drift \subseteq Tuples
  /\ Seats \cap Items = {} /\ Seats \cap Links = {} /\ Items \cap Links = {}

VARIABLES
  holder,    \* case_member.role, the to_actor of the last custody_event, evidence_item.case_id
  outbox,    \* the rows of authz_outbox whose processed_at is NULL
  nextId,    \* authz_outbox_outbox_id_seq
  fga,       \* the tuples in the OpenFGA store
  client,    \* the requests in flight
  drain,     \* the dispatcher's sync: [stage, batch, marked]
  rebuild,   \* aegis authz rebuild: [stage, desired, writes, deletes, pending]
  requests, crashes, rebuilds            \* how often, against the bounds

vars == <<holder, outbox, nextId, fga, client, drain, rebuild, requests, crashes, rebuilds>>
-----------------------------------------------------------------------------
\* desired_tuples: what the Postgres rows imply.
Desired == {t \in Tuples : holder[t[1]] = t[2]}

\* One outbox row applied to the store; both are idempotent (FGAClient._mutate).
Applied(row, store) ==
  IF row.op = "write" THEN store \cup {row.tuple} ELSE store \ {row.tuple}

Grant(id, p, h) == [id |-> id, op |-> "write", tuple |-> <<p, h>>]
Revocation(id, p, h) == [id |-> id, op |-> "delete", tuple |-> <<p, h>>]

Idle == [stage |-> "idle"]
NoDrain == [stage |-> "idle", batch |-> {}, marked |-> {}]
NoRebuild == [stage |-> "idle", desired |-> {}, writes |-> {}, deletes |-> {}, pending |-> {}]

Init ==
  /\ holder = [p \in Places |-> None]
  /\ outbox = {}
  /\ nextId = 1
  /\ fga \in SUBSET Drift
  /\ client = [c \in Clients |-> Idle]
  /\ drain = NoDrain
  /\ rebuild = NoRebuild
  /\ requests = 0 /\ crashes = 0 /\ rebuilds = 0
-----------------------------------------------------------------------------
(***************************************************************************)
(* A member request.  The handler reads the row of the seat; when it has   *)
(* one, the action uses that same object (session.get returns it from the  *)
(* identity map), so what was read then is what old_role is.  new = None   *)
(* stands for remove_case_member.                                          *)
(***************************************************************************)
ReadMember(c, p, new) ==
  /\ client[c] = Idle
  /\ requests < MaxRequests
  /\ new # holder[p]
  /\ client' = [client EXCEPT ![c] =
       [stage |-> "read", place |-> p, old |-> holder[p], new |-> new]]
  /\ requests' = requests + 1
  /\ UNCHANGED <<holder, outbox, nextId, fga, drain, rebuild, crashes, rebuilds>>

\* The rows queued for a place whose holder changes from old to new.
QueuedFor(p, old, new) ==
  (IF old = None THEN {} ELSE {Revocation(nextId, p, old)})
    \cup (IF new = None THEN {} ELSE {Grant(nextId + 1, p, new)})

\* Slip: the inline delete is tried also when nothing was revoked.
AnswerAlways(p, old) == [stage |-> "answering", tuple |-> <<p, old>>]

\* After the commit the handler tries the delete once more, if there is one.
Answer(p, old) == IF old = None THEN Idle ELSE [stage |-> "answering", tuple |-> <<p, old>>]

\* Whether the statement finds the row as the request read it: an INSERT needs
\* that there is none (primary key), an UPDATE that there still is one
\* (StaleDataError); a DELETE that finds none only warns.
StatementSucceeds(r) ==
  IF r.old = None THEN holder[r.place] = None
  ELSE r.new # None => holder[r.place] # None

\* assign_case_member and remove_case_member, to their commit.
CommitMember(c) ==
  /\ client[c].stage = "read"
  /\ LET r == client[c]
     IN  /\ StatementSucceeds(r)
         /\ holder' = [holder EXCEPT ![r.place] = r.new]
         /\ outbox' = outbox \cup QueuedFor(r.place, r.old, r.new)
         /\ client' = [client EXCEPT ![c] = Answer(r.place, r.old)]
  /\ nextId' = nextId + 2
  /\ UNCHANGED <<fga, drain, rebuild, requests, crashes, rebuilds>>

\* The statement fails, or the process dies before the commit: rolled back.
RollBack(c) ==
  /\ client[c].stage = "read"
  /\ client' = [client EXCEPT ![c] = Idle]
  /\ UNCHANGED <<holder, outbox, nextId, fga, drain, rebuild, requests, crashes, rebuilds>>

\* add_custody_event: the item's row is locked (FOR UPDATE) before the last
\* event is read, so read and commit are one step.
TransferCustody(c, p, new) ==
  /\ client[c] = Idle
  /\ requests < MaxRequests
  /\ new # holder[p]
  /\ holder' = [holder EXCEPT ![p] = new]
  /\ outbox' = outbox \cup QueuedFor(p, holder[p], new)
  /\ nextId' = nextId + 2
  /\ client' = [client EXCEPT ![c] = Answer(p, holder[p])]
  /\ requests' = requests + 1
  /\ UNCHANGED <<fga, drain, rebuild, crashes, rebuilds>>

\* register_evidence of an item that belongs to a case.
RegisterEvidence(c, p, case) ==
  /\ client[c] = Idle
  /\ requests < MaxRequests
  /\ holder[p] = None
  /\ holder' = [holder EXCEPT ![p] = case]
  /\ outbox' = outbox \cup QueuedFor(p, None, case)
  /\ nextId' = nextId + 2
  /\ requests' = requests + 1
  /\ UNCHANGED <<fga, client, drain, rebuild, crashes, rebuilds>>

\* delete_inline_best_effort: the store answers, or an error is logged.
DeleteInline(c) ==
  /\ client[c].stage = "answering"
  /\ fga' \in {fga \ {client[c].tuple}, fga}
  /\ client' = [client EXCEPT ![c] = Idle]
  /\ UNCHANGED <<holder, outbox, nextId, drain, rebuild, requests, crashes, rebuilds>>

Request(c) ==
  \/ \E p \in Seats, new \in Roles \cup {None} : ReadMember(c, p, new)
  \/ CommitMember(c)
  \/ RollBack(c)
  \/ \E p \in Items, new \in Officers : TransferCustody(c, p, new)
  \/ \E p \in Links, case \in Cases : RegisterEvidence(c, p, case)
  \/ DeleteInline(c)
-----------------------------------------------------------------------------
(***************************************************************************)
(* sync, run by the dispatcher every few seconds: one transaction that     *)
(* locks the first BatchSize pending rows and applies them in order.       *)
(* FOR UPDATE makes a second sync wait for the first, so one is enough.    *)
(***************************************************************************)
Before(row, x) == row.id < x.id
IsFirst(rows, all) == \A x \in rows, y \in all \ rows : Before(x, y)

StartDrain ==
  /\ drain.stage = "idle"
  /\ outbox # {}
  /\ \E batch \in SUBSET outbox :
       /\ batch # {}
       /\ Cardinality(batch) <= BatchSize
       /\ IsFirst(batch, outbox)
       /\ batch # outbox => Cardinality(batch) = BatchSize
       /\ drain' = [stage |-> "draining", batch |-> batch, marked |-> {}]
  /\ UNCHANGED <<holder, outbox, nextId, fga, client, rebuild, requests, crashes, rebuilds>>

\* The row whose turn it is.
Due == {row \in drain.batch \ drain.marked :
          \A x \in drain.batch \ drain.marked : row.id <= x.id}

\* The store confirms: the row is marked, in the open transaction.
ApplyRow ==
  /\ drain.stage = "draining"
  /\ \E row \in Due :
       /\ fga' = Applied(row, fga)
       /\ drain' = [drain EXCEPT !.marked = @ \cup {row}]
  /\ UNCHANGED <<holder, outbox, nextId, client, rebuild, requests, crashes, rebuilds>>

\* Slip: the drain carries on with the next row.
FailRowAndGoOn ==
  /\ drain.stage = "draining"
  /\ \E row \in Due :
       /\ fga' \in {fga, Applied(row, fga)}
       /\ drain' = [drain EXCEPT !.batch = @ \ {row}]
  /\ UNCHANGED <<holder, outbox, nextId, client, rebuild, requests, crashes, rebuilds>>

\* FGAError stops the drain.  A request that timed out may have had its effect.
FailRow ==
  /\ drain.stage = "draining"
  /\ \E row \in Due :
       /\ fga' \in {fga, Applied(row, fga)}
       /\ drain' = [drain EXCEPT !.stage = "stopped"]
  /\ UNCHANGED <<holder, outbox, nextId, client, rebuild, requests, crashes, rebuilds>>

\* Slip: the whole batch is marked, however far the drain came.
CommitDrainWhole ==
  /\ drain.stage # "idle"
  /\ drain.stage = "draining" => Due = {}
  /\ outbox' = outbox \ drain.batch
  /\ drain' = NoDrain
  /\ UNCHANGED <<holder, nextId, fga, client, rebuild, requests, crashes, rebuilds>>

\* The transaction commits: the marked rows are no longer pending.
CommitDrain ==
  /\ drain.stage # "idle"
  /\ drain.stage = "draining" => Due = {}
  /\ outbox' = outbox \ drain.marked
  /\ drain' = NoDrain
  /\ UNCHANGED <<holder, nextId, fga, client, rebuild, requests, crashes, rebuilds>>

\* The process or its connection dies: the marks are rolled back, the store keeps
\* what it was told.
CrashDrain ==
  /\ drain.stage # "idle"
  /\ crashes < MaxCrashes
  /\ crashes' = crashes + 1
  /\ drain' = NoDrain
  /\ UNCHANGED <<holder, outbox, nextId, fga, client, rebuild, requests, rebuilds>>

Dispatcher == StartDrain \/ ApplyRow \/ FailRow \/ CommitDrain \/ CrashDrain
-----------------------------------------------------------------------------
(***************************************************************************)
(* rebuild: read the rows and commit, read the store, apply the            *)
(* difference, and only then mark as superseded whatever is pending.       *)
(***************************************************************************)
ReadDesired ==
  /\ rebuild.stage \in {"idle", "done"}
  /\ rebuilds < MaxRebuilds
  /\ rebuilds' = rebuilds + 1
  /\ rebuild' = [NoRebuild EXCEPT !.stage = "read", !.desired = Desired]
  /\ UNCHANGED <<holder, outbox, nextId, fga, client, drain, requests, crashes>>

ReadStore ==
  /\ rebuild.stage = "read"
  /\ rebuild' = [rebuild EXCEPT !.stage = "write", !.writes = rebuild.desired \ fga,
                                !.deletes = fga \ rebuild.desired]
  /\ UNCHANGED <<holder, outbox, nextId, fga, client, drain, requests, crashes, rebuilds>>

WriteMissing ==
  /\ rebuild.stage = "write"
  /\ \E t \in rebuild.writes :
       /\ fga' = fga \cup {t}
       /\ rebuild' = [rebuild EXCEPT !.writes = @ \ {t}]
  /\ UNCHANGED <<holder, outbox, nextId, client, drain, requests, crashes, rebuilds>>

DeleteStale ==
  /\ rebuild.stage = "write"
  /\ rebuild.writes = {}
  /\ \E t \in rebuild.deletes :
       /\ fga' = fga \ {t}
       /\ rebuild' = [rebuild EXCEPT !.deletes = @ \ {t}]
  /\ UNCHANGED <<holder, outbox, nextId, client, drain, requests, crashes, rebuilds>>

\* FGAError ends the command; nothing is marked.
FailRebuild ==
  /\ rebuild.stage \in {"read", "write"}
  /\ rebuild' = NoRebuild
  /\ UNCHANGED <<holder, outbox, nextId, fga, client, drain, requests, crashes, rebuilds>>

ReadPending ==
  /\ rebuild.stage = "write"
  /\ rebuild.writes = {} /\ rebuild.deletes = {}
  /\ rebuild' = [rebuild EXCEPT !.stage = "supersede", !.pending = outbox]
  /\ UNCHANGED <<holder, outbox, nextId, fga, client, drain, requests, crashes, rebuilds>>

\* Slip: whatever is queued by then is marked, not what was read.
SupersedeAll ==
  /\ rebuild.stage = "supersede"
  /\ outbox \cap drain.batch = {}
  /\ outbox' = {}
  /\ rebuild' = [NoRebuild EXCEPT !.stage = "done"]
  /\ UNCHANGED <<holder, nextId, fga, client, drain, requests, crashes, rebuilds>>

\* The updates wait for the rows a running drain has locked.
Supersede ==
  /\ rebuild.stage = "supersede"
  /\ rebuild.pending \cap drain.batch = {}
  /\ outbox' = outbox \ rebuild.pending
  /\ rebuild' = [NoRebuild EXCEPT !.stage = "done"]
  /\ UNCHANGED <<holder, nextId, fga, client, drain, requests, crashes, rebuilds>>

Rebuild ==
  \/ ReadDesired \/ ReadStore \/ WriteMissing \/ DeleteStale
  \/ FailRebuild \/ ReadPending \/ Supersede
-----------------------------------------------------------------------------
Next == Dispatcher \/ Rebuild \/ \E c \in Clients : Request(c)

\* The dispatcher is a loop with a timer that survives errors (dispatch_forever),
\* the store answers it again and again, and a rebuild that was started ends.
Fairness ==
  /\ WF_vars(StartDrain) /\ SF_vars(ApplyRow) /\ WF_vars(CommitDrain)
  /\ WF_vars(Rebuild /\ ~ReadDesired)

Spec == Init /\ [][Next]_vars /\ Fairness

-----------------------------------------------------------------------------
Row == [id : Nat, op : {"write", "delete"}, tuple : Tuples]
RequestRecord == [stage : {"idle"}]
            \cup [stage : {"read"}, place : Seats, old : Roles \cup {None}, new : Roles \cup {None}]
            \cup [stage : {"answering"}, tuple : (Seats \cup Items) \X Holders]

\* Every pending row, request and half-done batch is about existing places, ids
\* are handed out once, and what is marked was in the batch.
TypeOK ==
  /\ holder \in [Places -> Holders \cup {None}]
  /\ \A p \in Places :
       holder[p] # None => holder[p] \in (IF p \in Seats THEN Roles
                                          ELSE IF p \in Items THEN Officers ELSE Cases)
  /\ outbox \in SUBSET Row
  /\ \A row \in outbox : row.id < nextId /\ (\A x \in outbox : x.id = row.id => x = row)
  /\ nextId \in Nat
  /\ fga \in SUBSET Tuples
  /\ client \in [Clients -> RequestRecord]
  /\ drain \in [stage : {"idle", "draining", "stopped"}, batch : SUBSET Row, marked : SUBSET Row]
  /\ drain.marked \subseteq drain.batch
  /\ rebuild \in [stage : {"idle", "read", "write", "supersede", "done"},
                  desired : SUBSET Tuples, writes : SUBSET Tuples, deletes : SUBSET Tuples,
                  pending : SUBSET Row]

Pending(t) == {row \in outbox : row.tuple = t}
Last(rows) == {row \in rows : \A x \in rows : x.id <= row.id}

\* Postgres, the queue and the store agree on a tuple: what was last queued for it
\* is what the rows of Postgres imply, and when nothing is queued the store has it
\* exactly when they imply it.
Follows(t) ==
  IF Pending(t) = {}
  THEN t \in fga <=> t \in Desired
  ELSE \A row \in Last(Pending(t)) : row.op = "write" <=> t \in Desired

Drained ==
  /\ outbox = {} /\ rebuild.stage \in {"idle", "done"}
  /\ \A c \in Clients : client[c] = Idle

\* Once the queue is drained, a store that started right grants nothing Postgres does
\* not imply: "the outbox remains the guarantee" of a revocation (decisions.md:286).
NoStaleGrant == Drift = {} /\ Drained => fga \subseteq Desired
=============================================================================
