---------------------------- MODULE RequestGate ----------------------------
(***************************************************************************)
(* One API process and the audit lock.  The route gate (deps.authorize) is *)
(* a coroutine: it runs on the event loop, and when it has something to    *)
(* audit it does so there, in a session of its own, waiting for the        *)
(* advisory lock with the loop in its hands.  The handlers are plain       *)
(* functions: each runs in a worker thread and appends in the request's    *)
(* session.  Whatever it returns or raises, the event loop has to take     *)
(* the result and let the session be closed.                               *)
(*                                                                         *)
(* A request has at most one audit transaction open at a time, first the   *)
(* gate's, then the handler's, so the request stands for the writer.       *)
(***************************************************************************)
EXTENDS AuditChain

CONSTANTS
  Denied,     \* requests whose user lacks the role: the gate audits and refuses
  Sensitive,  \* requests with purpose_required: the gate audits and lets through
  MaxActions  \* bound: savepoints and appends of one handler

ASSUME GateAssumption ==
  /\ Denied \cup Sensitive \subseteq Writers
  /\ Denied \cap Sensitive = {}
  /\ MaxActions \in Nat

VARIABLES
  loop,   \* the request whose gate holds the event loop
  place,  \* where each request is
  left    \* savepoints and appends its handler may still come to

gateVars == <<chainVars, loop, place, left>>

GateInit ==
  /\ ChainInit
  /\ loop = None
  /\ place = [r \in Writers |-> "arrived"]
  /\ left = [r \in Writers |-> MaxActions]

Goes(r, from, to) == place[r] = from /\ place' = [place EXCEPT ![r] = to]
-----------------------------------------------------------------------------
Appending(r) == Lock(r) \/ ReadPrevious(r) \/ Insert(r)

\* authorize's gate: a request it has nothing to audit for goes on to its handler.
EnterGate(r) ==
  /\ loop = None
  /\ IF r \in Denied \cup Sensitive
     THEN Goes(r, "arrived", "gate") /\ loop' = r
     ELSE Goes(r, "arrived", "handler") /\ UNCHANGED loop
  /\ UNCHANGED <<chainVars, left>>

\* _audit_decision: one row, one transaction, nothing else runs on the loop.
GateAppends(r) ==
  /\ place[r] = "gate" /\ rows[r] = {}
  /\ Appending(r)
  /\ UNCHANGED <<loop, place, left>>

\* Slip: the gate appends in the request's own session.
LeaveGateUncommitted(r) ==
  /\ place[r] = "gate" /\ rows[r] # {}
  /\ loop' = None
  /\ Goes(r, "gate", IF r \in Denied THEN "raised" ELSE "handler")
  /\ UNCHANGED <<chainVars, left>>

LeaveGate(r) ==
  /\ place[r] = "gate"
  /\ Commit(r)
  /\ loop' = None
  /\ Goes(r, "gate", IF r \in Denied THEN "answered" ELSE "handler")
  /\ UNCHANGED left

(***************************************************************************)
(* The handler, in its thread: actions, each in a savepoint of the         *)
(* request's transaction; a refused one is rolled back and may be caught.  *)
(***************************************************************************)
Counts(r) == left[r] > 0 /\ left' = [left EXCEPT ![r] = @ - 1]

HandlerAppends(r) ==
  /\ place[r] = "handler"
  /\ \/ Lock(r) /\ Counts(r)
     \/ (ReadPrevious(r) \/ Insert(r)) /\ UNCHANGED left
  /\ UNCHANGED <<loop, place>>

HandlerNests(r) ==
  /\ place[r] = "handler"
  /\ \/ Savepoint(r) /\ Counts(r)
     \/ (Release(r) \/ RollBackTo(r)) /\ UNCHANGED left
  /\ UNCHANGED <<loop, place>>

\* session.commit() is the handler's last statement; a read has nothing to commit.
HandlerReturns(r) ==
  /\ stage[r] = "open" /\ marks[r] = <<>>
  /\ Commit(r) \/ (rows[r] = {} /\ UNCHANGED chainVars)
  /\ Goes(r, "handler", "returned")
  /\ UNCHANGED <<loop, left>>

\* An exception leaves the handler; its savepoints are unwound, its transaction stays.
HandlerRaises(r) ==
  /\ stage[r] = "open" /\ marks[r] = <<>>
  /\ Goes(r, "handler", "raised")
  /\ UNCHANGED <<chainVars, loop, left>>

\* Slip: the session is never closed.
AnswerUnclosed(r) ==
  /\ loop = None
  /\ place[r] \in {"returned", "raised"}
  /\ Goes(r, place[r], "answered")
  /\ UNCHANGED <<chainVars, loop, left>>

\* get_session's exit: the loop resumes the request and has its session closed.
Answer(r) ==
  /\ loop = None
  /\ place[r] \in {"returned", "raised"}
  /\ Goes(r, place[r], "answered")
  /\ RollBack(r) \/ (holder # r /\ UNCHANGED chainVars)
  /\ UNCHANGED <<loop, left>>
-----------------------------------------------------------------------------
Handler(r) ==
  HandlerAppends(r) \/ HandlerNests(r) \/ HandlerReturns(r) \/ HandlerRaises(r)
OnLoop(r) == EnterGate(r) \/ GateAppends(r) \/ LeaveGate(r) \/ Answer(r)

GateNext == \E r \in Writers : OnLoop(r) \/ Handler(r)

\* The event loop and the advisory lock serve those who wait in the order they came,
\* and a handler runs on to its end.
Fairness == \A r \in Writers : SF_gateVars(OnLoop(r)) /\ SF_gateVars(Handler(r))

GateSpec == GateInit /\ [][GateNext]_gateVars /\ Fairness

\* A gate has the loop and wants the lock; a handler that raised has the lock and
\* wants the loop.
Stuck ==
  /\ loop # None
  /\ \E r \in Writers : place[r] = "raised" /\ holder = r

\* The same, in an environment where that never comes about.
CalmNext == GateNext /\ ~Stuck'
CalmSpec == GateInit /\ [][CalmNext]_gateVars /\ Fairness
-----------------------------------------------------------------------------
Audited == Denied \cup Sensitive
Recorded(r) == \E row \in log : row.by = r

\* Nobody is refused, and nobody reads what needs a purpose, before the gate's row is
\* durable: whatever the handler does next, raising included, it stays.
AuditedBeforeHandled ==
  \A r \in Audited : place[r] \notin {"arrived", "gate"} => Recorded(r)

\* "Denials (and sensitive-read allows) persist even when the request fails": what
\* the gate sets out to audit is audited in the end (deps._audit_decision).
DenialsPersist == \A r \in Audited : place[r] = "gate" ~> Recorded(r)
=============================================================================
