---------------------------- MODULE ClaimHistory ----------------------------
(***************************************************************************)
(* When a claim was known.  recorded_at is now(), the moment its           *)
(* transaction began; retracted_at is the clock's when the handler, having *)
(* seen that the claim is not retracted, sets it; both are seen by others  *)
(* when the transaction commits.  A knowledge read asks with asOf what was *)
(* known at a moment (claim_filters, aegis/authz/filters.py), and whoever  *)
(* asks again should be told the same.                                     *)
(*                                                                         *)
(* The application's clock and the database's are taken to agree, to the   *)
(* tick.  Clearance and cases hide rows whole and are left out.            *)
(***************************************************************************)
EXTENDS IdentityLedger

CONSTANTS
  Clerks,   \* requests that record or retract
  MaxTime   \* bound: the last tick

ASSUME HistoryAssumption == MaxTime \in Nat

VARIABLES
  clock,
  stamps,   \* of each claim: recorded_at and retracted_at
  clerk,    \* what each clerk's transaction is about
  answer    \* what one reader was told

historyVars == <<vars, clock, stamps, clerk, answer>>

Away == [work |-> "none", claim |-> None, at |-> 0]
NoAnswer == [claim |-> None, asOf |-> 0, auditor |-> FALSE, seen |-> FALSE, settled |-> FALSE]

HistoryInit ==
  clock = 0 /\ stamps = NoLineage /\ clerk = [w \in Clerks |-> Away] /\ answer = NoAnswer

AtWorkOn(k) == \E w \in Clerks : clerk[w].claim = k

\* claim_filters: what a claim's row is to a reader who asks as of a moment.
Visible(k, asOf, auditor) ==
  /\ k \in DOMAIN stamps
  /\ stamps[k].recorded <= asOf
  /\ auditor \/ stamps[k].retracted = None \/ stamps[k].retracted > asOf
-----------------------------------------------------------------------------
Tick == clock < MaxTime /\ clock' = clock + 1 /\ UNCHANGED <<vars, stamps, clerk, answer>>

\* create_claim: a new id, in a transaction that begins now.
BeginRecord(w, k) ==
  /\ clerk[w] = Away /\ k \notin DOMAIN stamps /\ ~AtWorkOn(k)
  /\ clerk' = [clerk EXCEPT ![w] = [work |-> "record", claim |-> k, at |-> clock]]
  /\ UNCHANGED <<vars, clock, stamps, answer>>

CommitRecord(w) ==
  /\ clerk[w].work = "record"
  /\ \E s \in Entities, o \in Entities \cup {None}, sm, om \in Mentions \cup {None} :
       RecordClaim(clerk[w].claim, s, sm, o, om)
  /\ stamps' = [k \in DOMAIN stamps \cup {clerk[w].claim} |->
                  IF k = clerk[w].claim THEN [recorded |-> clerk[w].at, retracted |-> None]
                                        ELSE stamps[k]]
  /\ clerk' = [clerk EXCEPT ![w] = Away]
  /\ UNCHANGED <<clock, answer>>

\* Slip: a claim is retracted again.
BeginRetractionAgain(w, k) ==
  /\ clerk[w] = Away /\ k \in DOMAIN stamps
  /\ clerk' = [clerk EXCEPT ![w] = [work |-> "retract", claim |-> k, at |-> clock]]
  /\ UNCHANGED <<vars, clock, stamps, answer>>

\* retract_claim reads the row, without a lock, and stamps its copy of it.
BeginRetraction(w, k) ==
  /\ clerk[w] = Away /\ k \in DOMAIN stamps /\ stamps[k].retracted = None
  /\ clerk' = [clerk EXCEPT ![w] = [work |-> "retract", claim |-> k, at |-> clock]]
  /\ UNCHANGED <<vars, clock, stamps, answer>>

\* The UPDATE goes by the id alone: it puts its stamp over another's.
CommitRetraction(w) ==
  /\ clerk[w].work = "retract"
  /\ \/ RetractClaim(clerk[w].claim)
     \/ stamps[clerk[w].claim].retracted # None /\ UNCHANGED vars
  /\ stamps' = [stamps EXCEPT ![clerk[w].claim].retracted = clerk[w].at]
  /\ clerk' = [clerk EXCEPT ![w] = Away]
  /\ UNCHANGED <<clock, answer>>

\* A request that fails rolls back.
GiveUp(w) ==
  /\ clerk[w] # Away
  /\ clerk' = [clerk EXCEPT ![w] = Away]
  /\ UNCHANGED <<vars, clock, stamps, answer>>

\* get_claim with asOf, of a moment that has passed.
Ask(k, asOf, auditor) ==
  /\ answer = NoAnswer /\ asOf < clock
  /\ answer' = [claim |-> k, asOf |-> asOf, auditor |-> auditor,
                seen |-> Visible(k, asOf, auditor), settled |-> ~AtWorkOn(k)]
  /\ UNCHANGED <<vars, clock, stamps, clerk>>

HistoryNext ==
  \/ Tick
  \/ \E w \in Clerks :
       \/ \E k \in Claims : BeginRecord(w, k) \/ BeginRetraction(w, k)
       \/ CommitRecord(w) \/ CommitRetraction(w) \/ GiveUp(w)
  \/ \E k \in Claims, asOf \in 0..MaxTime, auditor \in BOOLEAN : Ask(k, asOf, auditor)

HistorySpec == Init /\ HistoryInit /\ [][HistoryNext]_historyVars
-----------------------------------------------------------------------------
\* "What did we know then" (spec 06): an answer about the past stays what it was,
\* whoever records and retracts afterwards, as long as nobody was at work on the claim
\* when it was given.  Somebody who was can still date a record or a retraction back
\* before the answer, or date back one that two clerks made at a time.
PastAnswersHold ==
  answer.settled => answer.seen = Visible(answer.claim, answer.asOf, answer.auditor)
=============================================================================
