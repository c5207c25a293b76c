----------------------------- MODULE AuditChain -----------------------------
(***************************************************************************)
(* The audit hash chain (aegis/audit/chain.py) as its writers build it:    *)
(* each append runs inside the caller's transaction, which goes on, opens  *)
(* and undoes savepoints (ActionService._transaction), and commits or      *)
(* rolls back when the caller says so.  A transaction-scoped advisory lock *)
(* is all that keeps two writers apart.                                    *)
(*                                                                         *)
(* A row is [id, by, prev]; prev is the id of the row whose entry_hash it  *)
(* carries, 0 for GENESIS_HASH.  The hash covers the id and is taken to be *)
(* injective, so equal ids and equal hashes are the same thing.            *)
(***************************************************************************)
EXTENDS Naturals, Sequences

CONSTANTS
  Writers,   \* database sessions that append
  None,      \* nobody
  MaxId,     \* bound: the last value of audit_log_id_seq
  MaxDepth   \* bound: savepoints open in one transaction

ASSUME ChainAssumption ==
  /\ MaxId \in Nat
  /\ MaxDepth \in Nat
  /\ None \notin Writers

VARIABLES
  log,       \* audit_log, the committed rows
  sequence,  \* audit_log_id_seq
  holder,    \* who holds the advisory lock
  stage,     \* per writer: "open", or where its append stands
  rows,      \* per writer: the rows of its transaction
  previous,  \* per writer: the chain head its append has read
  marks      \* per writer: its savepoints, innermost last

chainVars == <<log, sequence, holder, stage, rows, previous, marks>>

Ids(rs) == {r.id : r \in rs}

\* ORDER BY id DESC LIMIT 1, 0 when there is no row.
IsHead(rs, id) ==
  \/ rs = {} /\ id = 0
  \/ id \in Ids(rs) /\ \A r \in rs : r.id <= id

Below(rs, id) == {r \in rs : r.id < id}

(***************************************************************************)
(* verify finds nothing: read in the order of the ids, every row carries   *)
(* the hash of the one before it.                                          *)
(***************************************************************************)
Verifies(rs) == \A r \in rs : IsHead(Below(rs, r.id), r.prev)

ChainInit ==
  /\ log = {}
  /\ sequence = 0
  /\ holder = None
  /\ stage = [w \in Writers |-> "open"]
  /\ rows = [w \in Writers |-> {}]
  /\ previous = [w \in Writers |-> 0]
  /\ marks = [w \in Writers |-> <<>>]
-----------------------------------------------------------------------------
\* Slip: every writer has a lock key of its own.
LockNobodyElse(w) ==
  /\ stage[w] = "open"
  /\ holder' = w
  /\ stage' = [stage EXCEPT ![w] = "locked"]
  /\ UNCHANGED <<log, sequence, rows, previous, marks>>

\* pg_advisory_xact_lock: waits, unless this transaction holds it already.
Lock(w) ==
  /\ stage[w] = "open"
  /\ holder \in {None, w}
  /\ holder' = w
  /\ stage' = [stage EXCEPT ![w] = "locked"]
  /\ UNCHANGED <<log, sequence, rows, previous, marks>>

\* Slip: the head is read on a connection of its own.
ReadPreviousElsewhere(w) ==
  /\ stage[w] = "locked"
  /\ \E id \in 0..MaxId : IsHead(log, id) /\ previous' = [previous EXCEPT ![w] = id]
  /\ stage' = [stage EXCEPT ![w] = "read"]
  /\ UNCHANGED <<log, sequence, holder, rows, marks>>

\* The statement sees what has committed and what its own transaction has written.
ReadPrevious(w) ==
  /\ stage[w] = "locked"
  /\ \E id \in 0..MaxId : /\ IsHead(log \cup rows[w], id)
                          /\ previous' = [previous EXCEPT ![w] = id]
  /\ stage' = [stage EXCEPT ![w] = "read"]
  /\ UNCHANGED <<log, sequence, holder, rows, marks>>

\* Slip: currval for nextval.
InsertLastId(w) ==
  /\ stage[w] = "read"
  /\ sequence < MaxId
  /\ sequence' = sequence + 1
  /\ rows' = [rows EXCEPT ![w] = @ \cup {[id |-> sequence, by |-> w, prev |-> previous[w]]}]
  /\ stage' = [stage EXCEPT ![w] = "open"]
  /\ UNCHANGED <<log, holder, previous, marks>>

\* nextval, which no rollback gives back, and the flush.
Insert(w) ==
  /\ stage[w] = "read"
  /\ sequence < MaxId
  /\ sequence' = sequence + 1
  /\ rows' = [rows EXCEPT ![w] =
                @ \cup {[id |-> sequence + 1, by |-> w, prev |-> previous[w]]}]
  /\ stage' = [stage EXCEPT ![w] = "open"]
  /\ UNCHANGED <<log, holder, previous, marks>>
-----------------------------------------------------------------------------
\* begin_nested.  append opens no savepoint itself, so none opens inside one.
Savepoint(w) ==
  /\ stage[w] = "open"
  /\ Len(marks[w]) < MaxDepth
  /\ marks' = [marks EXCEPT ![w] = Append(@, [last |-> sequence, held |-> holder = w])]
  /\ UNCHANGED <<log, sequence, holder, stage, rows, previous>>

Outer(w) == SubSeq(marks[w], 1, Len(marks[w]) - 1)

Release(w) ==
  /\ stage[w] = "open" /\ marks[w] # <<>>
  /\ marks' = [marks EXCEPT ![w] = Outer(w)]
  /\ UNCHANGED <<log, sequence, holder, stage, rows, previous>>

\* ROLLBACK TO SAVEPOINT also gives back a lock that was taken after it.
RollBackTo(w) ==
  /\ marks[w] # <<>>
  /\ LET mark == marks[w][Len(marks[w])]
     IN  /\ rows' = [rows EXCEPT ![w] = {r \in @ : r.id <= mark.last}]
         /\ holder' = IF holder = w /\ ~mark.held THEN None ELSE holder
  /\ marks' = [marks EXCEPT ![w] = Outer(w)]
  /\ stage' = [stage EXCEPT ![w] = "open"]
  /\ UNCHANGED <<log, sequence, previous>>

Unlocked(w) == IF holder = w THEN None ELSE holder

Commit(w) ==
  /\ stage[w] = "open" /\ marks[w] = <<>> /\ rows[w] # {}
  /\ log' = log \cup rows[w]
  /\ rows' = [rows EXCEPT ![w] = {}]
  /\ holder' = Unlocked(w)
  /\ UNCHANGED <<sequence, stage, previous, marks>>

\* The session closes, the connection breaks or the process dies.
RollBack(w) ==
  /\ holder = w \/ marks[w] # <<>>
  /\ rows' = [rows EXCEPT ![w] = {}]
  /\ holder' = Unlocked(w)
  /\ marks' = [marks EXCEPT ![w] = <<>>]
  /\ stage' = [stage EXCEPT ![w] = "open"]
  /\ UNCHANGED <<log, sequence, previous>>
-----------------------------------------------------------------------------
Step(w) ==
  \/ Lock(w) \/ ReadPrevious(w) \/ Insert(w)
  \/ Savepoint(w) \/ Release(w) \/ RollBackTo(w)
  \/ Commit(w) \/ RollBack(w)

ChainNext == \E w \in Writers : Step(w)
ChainSpec == ChainInit /\ [][ChainNext]_chainVars
-----------------------------------------------------------------------------
Row == [id : 1..MaxId, by : Writers, prev : 0..MaxId]
Mark == [last : 0..MaxId, held : BOOLEAN]

\* The rows, the lock and the writers' local state have their types.
ChainTypeOK ==
  /\ log \in SUBSET Row
  /\ sequence \in 0..MaxId
  /\ holder \in Writers \cup {None}
  /\ stage \in [Writers -> {"open", "locked", "read"}]
  /\ rows \in [Writers -> SUBSET Row]
  /\ previous \in [Writers -> 0..MaxId]
  /\ marks \in [Writers -> Seq(Mark)]

\* Whenever aegis audit verify runs, however many writers are in the middle of
\* appending, undoing and retrying, it finds one unbroken chain (Article X).
ChainVerifies == Verifies(log)

\* What a verifier has read stays as it was, and nothing is slotted in before it:
\* rows are committed in the order of their ids, gaps and all.
CommittedInOrder ==
  [][/\ log \subseteq log'
     /\ \A r \in log' \ log, old \in log : old.id < r.id]_chainVars
=============================================================================
