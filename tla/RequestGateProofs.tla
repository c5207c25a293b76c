------------------------- MODULE RequestGateProofs -------------------------
(***************************************************************************)
(* The audit log is one chain, for any number of writers and any nesting   *)
(* of their savepoints.  What the API process does to it is what           *)
(* AuditChain lets its writers do, so all that is proved there holds here; *)
(* and no audited request passes the gate before its row is durable.  A    *)
(* listing of the log is a snapshot: below a cursor nothing is ever        *)
(* appended, because the cursor is the id of a committed row and rows are  *)
(* committed in the order of their ids.                                    *)
(***************************************************************************)
EXTENDS AuditListing, SequenceTheorems, TLAPS

\* What a writer has appended, it has appended under the lock.
LockHeld ==
  \A w \in Writers : /\ rows[w] # {} => holder = w
                     /\ stage[w] # "open" => holder = w

\* Ids come from the sequence, and those of open transactions after those committed.
IdsInOrder ==
  /\ \A r \in log : r.id <= sequence
  /\ \A w \in Writers : \A r \in rows[w] :
       /\ r.id <= sequence
       /\ \A old \in log : old.id < r.id

\* A savepoint from before the lock was taken is older than every row.
MarksInOrder ==
  \A w \in Writers : \A i \in DOMAIN marks[w] :
    /\ marks[w][i].last <= sequence
    /\ ~marks[w][i].held => \A r \in rows[w] : marks[w][i].last < r.id

\* Each transaction sees one chain, and an append about to insert knows its end.
EachSeesAChain ==
  \A w \in Writers :
    /\ Verifies(log \cup rows[w])
    /\ stage[w] = "read" => IsHead(log \cup rows[w], previous[w])

ChainInv == ChainTypeOK /\ LockHeld /\ IdsInOrder /\ MarksInOrder /\ EachSeesAChain
-----------------------------------------------------------------------------
\* The beginning of a chain is a chain.
LEMMA Beginning ==
  ASSUME NEW S \in SUBSET Row, NEW T \in SUBSET S, Verifies(S),
         \A r \in T, x \in S : x.id < r.id => x \in T
  PROVE  Verifies(T)
<1> SUFFICES ASSUME NEW r \in T
             PROVE  IsHead(Below(T, r.id), r.prev)
  BY DEF Verifies
<1>1. Below(T, r.id) = Below(S, r.id)
  BY DEF Below
<1> QED
  BY <1>1 DEF Verifies

\* A row with a fresh, higher id that carries the head's hash extends a chain.
LEMMA Extension ==
  ASSUME NEW S \in SUBSET Row, NEW new \in Row, Verifies(S),
         IsHead(S, new.prev), \A r \in S : r.id < new.id
  PROVE  Verifies(S \cup {new})
<1> SUFFICES ASSUME NEW r \in S \cup {new}
             PROVE  IsHead(Below(S \cup {new}, r.id), r.prev)
  BY DEF Verifies
<1>1. CASE r = new
  <2>1. Below(S \cup {new}, new.id) = S
    BY DEF Below, Row
  <2> QED
    BY <1>1, <2>1
<1>2. CASE r \in S
  <2>1. Below(S \cup {new}, r.id) = Below(S, r.id)
    BY <1>2 DEF Below, Row
  <2> QED
    BY <1>2, <2>1 DEF Verifies
<1> QED
  BY <1>1, <1>2

\* All but the last savepoint are as they were.
LEMMA OuterMarks ==
  ASSUME NEW w \in Writers, marks[w] \in Seq(Mark), marks[w] # <<>>
  PROVE  /\ Outer(w) \in Seq(Mark)
         /\ \A i \in DOMAIN Outer(w) : i \in DOMAIN marks[w] /\ Outer(w)[i] = marks[w][i]
         /\ Len(marks[w]) \in DOMAIN marks[w]
         /\ marks[w][Len(marks[w])] \in Mark
<1>1. Len(marks[w]) \in Nat /\ Len(marks[w]) > 0 /\ DOMAIN marks[w] = 1..Len(marks[w])
  BY EmptySeq, LenProperties
<1>2. \A i \in 1..(Len(marks[w]) - 1) : marks[w][i] \in Mark
  BY <1>1, ElementOfSeq
<1>3. /\ Outer(w) \in Seq(Mark)
      /\ Len(Outer(w)) = Len(marks[w]) - 1
      /\ \A i \in 1..(Len(marks[w]) - 1) : Outer(w)[i] = marks[w][i]
  BY <1>1, <1>2, SubSeqProperties DEF Outer
<1>4. DOMAIN Outer(w) = 1..(Len(marks[w]) - 1)
  BY <1>3, LenProperties
<1> QED
  BY <1>1, <1>3, <1>4, ElementOfSeq
-----------------------------------------------------------------------------
\* The empty log is a chain and nobody holds the lock.
LEMMA InitEstablishes == ChainInit => ChainInv
<1> SUFFICES ASSUME ChainInit
             PROVE  ChainInv
  OBVIOUS
<1>1. ChainTypeOK
  BY ChainAssumption, EmptySeq DEF ChainInit, ChainTypeOK
<1>2. LockHeld /\ IdsInOrder /\ MarksInOrder /\ EachSeesAChain
  BY DEF ChainInit, LockHeld, IdsInOrder, MarksInOrder, EachSeesAChain, Verifies
<1> QED
  BY <1>1, <1>2 DEF ChainInv
-----------------------------------------------------------------------------
\* Steps that leave the rows and the lock alone, but for this writer's reading.
LEMMA LockKeeps ==
  ASSUME ChainInv, NEW w \in Writers, Lock(w)
  PROVE  ChainInv'
<1> USE DEF ChainInv, Lock
<1>1. ChainTypeOK'
  BY DEF ChainTypeOK
<1>2. LockHeld'
  BY ChainAssumption DEF LockHeld, ChainTypeOK
<1>3. IdsInOrder' /\ MarksInOrder'
  BY DEF IdsInOrder, MarksInOrder
<1>4. EachSeesAChain'
  BY DEF EachSeesAChain, ChainTypeOK
<1> QED
  BY <1>1, <1>2, <1>3, <1>4

\* Reading the head under the lock knows the end of the chain.
LEMMA ReadPreviousKeeps ==
  ASSUME ChainInv, NEW w \in Writers, ReadPrevious(w)
  PROVE  ChainInv'
<1> USE DEF ChainInv, ReadPrevious
<1>1. ChainTypeOK'
  BY DEF ChainTypeOK
<1>2. LockHeld' /\ IdsInOrder' /\ MarksInOrder'
  BY DEF LockHeld, IdsInOrder, MarksInOrder, ChainTypeOK
<1>3. EachSeesAChain'
  BY DEF EachSeesAChain, ChainTypeOK
<1> QED
  BY <1>1, <1>2, <1>3

\* Only the holder of the lock inserts, behind everything it sees.
LEMMA InsertKeeps ==
  ASSUME ChainInv, NEW w \in Writers, Insert(w)
  PROVE  ChainInv'
<1> DEFINE new == [id |-> sequence + 1, by |-> w, prev |-> previous[w]]
<1> USE DEF ChainInv, Insert
<1>1. /\ new \in Row
      /\ new.id = sequence + 1 /\ new.prev = previous[w]
      /\ sequence \in Nat /\ sequence' = sequence + 1
  BY ChainAssumption DEF ChainTypeOK, Row
<1>2. /\ rows'[w] = rows[w] \cup {new}
      /\ \A u \in Writers : u # w => rows'[u] = rows[u] /\ stage'[u] = stage[u]
      /\ stage'[w] = "open" /\ log' = log
  BY DEF ChainTypeOK
<1>3. holder = w
  BY DEF LockHeld
<1>4. ChainTypeOK'
  BY <1>1, ChainAssumption DEF ChainTypeOK
<1>5. LockHeld'
  BY <1>2, <1>3 DEF LockHeld
<1>6. log \in SUBSET Row /\ \A u \in Writers : rows[u] \in SUBSET Row
  BY DEF ChainTypeOK
<1>7. IdsInOrder'
  <2>1. \A r \in log' : r.id <= sequence'
    BY <1>1, <1>2, <1>6 DEF IdsInOrder, Row
  <2>2. ASSUME NEW u \in Writers, NEW r \in rows'[u]
        PROVE  r.id <= sequence' /\ \A old \in log' : old.id < r.id
    <3>1. CASE r = new
      BY <3>1, <1>1, <1>2, <1>6 DEF IdsInOrder, Row
    <3>2. CASE r \in rows[u]
      BY <3>2, <1>1, <1>2, <1>6 DEF IdsInOrder, Row
    <3> QED
      BY <2>2, <3>1, <3>2, <1>2
  <2> QED
    BY <2>1, <2>2 DEF IdsInOrder
<1>8. MarksInOrder'
  <2> SUFFICES ASSUME NEW u \in Writers, NEW i \in DOMAIN marks'[u]
               PROVE  /\ marks'[u][i].last <= sequence'
                      /\ ~marks'[u][i].held => \A r \in rows'[u] : marks'[u][i].last < r.id
    BY DEF MarksInOrder
  <2>1. i \in DOMAIN marks[u] /\ marks'[u][i] = marks[u][i]
    OBVIOUS
  <2>2. marks[u][i].last \in Nat
    <3>1. marks[u] \in Seq(Mark)
      BY DEF ChainTypeOK
    <3>2. marks[u][i] \in Mark
      BY <2>1, <3>1, ElementOfSeq, LenProperties
    <3> QED
      BY <3>2, ChainAssumption DEF Mark
  <2>3. marks[u][i].last <= sequence
    BY <2>1 DEF MarksInOrder
  <2>4. ~marks[u][i].held => \A r \in rows[u] : marks[u][i].last < r.id
    BY <2>1 DEF MarksInOrder
  <2> QED
    BY <1>1, <1>2, <2>1, <2>2, <2>3, <2>4
<1>9. EachSeesAChain'
  <2> SUFFICES ASSUME NEW u \in Writers
               PROVE  /\ Verifies(log \cup rows'[u])
                      /\ stage'[u] = "read" => IsHead(log \cup rows'[u], previous'[u])
    BY <1>2 DEF EachSeesAChain, Verifies, IsHead, Below, Ids
  <2>1. CASE u # w
    BY <2>1, <1>2 DEF EachSeesAChain
  <2>2. CASE u = w
    <3>1. \A r \in log \cup rows[w] : r.id < new.id
      BY <1>1, <1>6 DEF IdsInOrder, Row
    <3>2. Verifies(log \cup rows[w]) /\ IsHead(log \cup rows[w], new.prev)
      BY <1>1 DEF EachSeesAChain
    <3>3. Verifies((log \cup rows[w]) \cup {new})
      BY <1>1, <1>6, <3>1, <3>2, Extension
    <3>4. log \cup rows'[w] = (log \cup rows[w]) \cup {new}
      BY <1>2
    <3> QED
      BY <2>2, <3>3, <3>4, <1>2
  <2> QED
    BY <2>1, <2>2
<1> QED
  BY <1>4, <1>5, <1>7, <1>8, <1>9
-----------------------------------------------------------------------------
\* A savepoint taken without the lock is taken without rows.
LEMMA SavepointKeeps ==
  ASSUME ChainInv, NEW w \in Writers, Savepoint(w)
  PROVE  ChainInv'
<1> DEFINE mark == [last |-> sequence, held |-> holder = w]
<1> USE DEF ChainInv, Savepoint
<1>1. marks[w] \in Seq(Mark) /\ mark \in Mark /\ sequence \in Nat
  <2>1. marks[w] \in Seq(Mark) /\ sequence \in 0..MaxId /\ sequence \in Nat
    BY ChainAssumption DEF ChainTypeOK
  <2>2. (holder = w) \in BOOLEAN
    OBVIOUS
  <2>3. mark \in Mark
    BY <2>1, <2>2, Zenon DEF Mark
  <2> QED
    BY <2>1, <2>3
<1>2. marks'[w] = Append(marks[w], mark) /\ \A u \in Writers : u # w => marks'[u] = marks[u]
  BY DEF ChainTypeOK
<1>3. /\ marks'[w] \in Seq(Mark)
      /\ DOMAIN marks'[w] = 1..(Len(marks[w]) + 1)
      /\ DOMAIN marks[w] = 1..Len(marks[w])
      /\ Len(marks[w]) \in Nat
      /\ \A i \in 1..Len(marks[w]) : marks'[w][i] = marks[w][i]
      /\ marks'[w][Len(marks[w]) + 1] = mark
  BY <1>1, <1>2, AppendProperties, LenProperties
<1>4. ChainTypeOK'
  BY <1>2, <1>3 DEF ChainTypeOK
<1>5. LockHeld' /\ IdsInOrder' /\ EachSeesAChain'
  BY DEF LockHeld, IdsInOrder, EachSeesAChain
<1>6. MarksInOrder'
  <2> SUFFICES ASSUME NEW u \in Writers, NEW i \in DOMAIN marks'[u]
               PROVE  /\ marks'[u][i].last <= sequence
                      /\ ~marks'[u][i].held => \A r \in rows[u] : marks'[u][i].last < r.id
    BY DEF MarksInOrder
  <2>1. CASE u # w \/ i \in 1..Len(marks[w])
    BY <2>1, <1>2, <1>3 DEF MarksInOrder
  <2>2. CASE u = w /\ i = Len(marks[w]) + 1
    <3>1. ~mark.held => rows[w] = {}
      BY DEF LockHeld
    <3> QED
      BY <2>2, <3>1, <1>1, <1>3
  <2> QED
    BY <2>1, <2>2, <1>3
<1> QED
  BY <1>4, <1>5, <1>6

\* Releasing a savepoint forgets it and nothing else.
LEMMA ReleaseKeeps ==
  ASSUME ChainInv, NEW w \in Writers, Release(w)
  PROVE  ChainInv'
<1> USE DEF ChainInv, Release
<1>1. marks[w] \in Seq(Mark)
  BY DEF ChainTypeOK
<1>2. /\ Outer(w) \in Seq(Mark)
      /\ \A i \in DOMAIN Outer(w) : i \in DOMAIN marks[w] /\ Outer(w)[i] = marks[w][i]
  BY <1>1, OuterMarks
<1>3. marks'[w] = Outer(w) /\ \A u \in Writers : u # w => marks'[u] = marks[u]
  BY DEF ChainTypeOK
<1>4. ChainTypeOK'
  BY <1>2 DEF ChainTypeOK
<1>5. LockHeld' /\ IdsInOrder' /\ EachSeesAChain'
  BY DEF LockHeld, IdsInOrder, EachSeesAChain
<1>6. MarksInOrder'
  BY <1>2, <1>3 DEF MarksInOrder
<1> QED
  BY <1>4, <1>5, <1>6

\* Undoing a part of a transaction leaves a beginning of its chain, and a lock that
\* goes with it covers nothing that stays.
LEMMA RollBackToKeeps ==
  ASSUME ChainInv, NEW w \in Writers, RollBackTo(w)
  PROVE  ChainInv'
<1> DEFINE mark == marks[w][Len(marks[w])]
           kept == {r \in rows[w] : r.id <= mark.last}
<1> USE DEF ChainInv, RollBackTo
<1>1. marks[w] \in Seq(Mark) /\ rows[w] \in SUBSET Row /\ log \in SUBSET Row
  BY DEF ChainTypeOK
<1>2. /\ Outer(w) \in Seq(Mark)
      /\ \A i \in DOMAIN Outer(w) : i \in DOMAIN marks[w] /\ Outer(w)[i] = marks[w][i]
      /\ Len(marks[w]) \in DOMAIN marks[w]
      /\ mark \in Mark
  BY <1>1, OuterMarks
<1>3. /\ marks'[w] = Outer(w) /\ rows'[w] = kept /\ stage'[w] = "open"
      /\ \A u \in Writers : u # w =>
           marks'[u] = marks[u] /\ rows'[u] = rows[u] /\ stage'[u] = stage[u]
      /\ log' = log /\ sequence' = sequence /\ previous' = previous
  BY DEF ChainTypeOK
<1>4. ChainTypeOK'
  <2>1. rows' \in [Writers -> SUBSET Row] /\ marks' \in [Writers -> Seq(Mark)]
    BY <1>2 DEF ChainTypeOK
  <2> QED
    BY <2>1 DEF ChainTypeOK
<1>5. ~mark.held => kept = {}
  <2>1. ~mark.held => \A r \in rows[w] : mark.last < r.id
    BY <1>2 DEF MarksInOrder
  <2>2. mark.last \in Nat /\ \A r \in rows[w] : r.id \in Nat
    BY <1>1, <1>2 DEF Mark, Row
  <2> QED
    BY <2>1, <2>2
<1>6. LockHeld'
  BY <1>3, <1>5 DEF LockHeld
<1>7. IdsInOrder'
  BY <1>3 DEF IdsInOrder
<1>8. MarksInOrder'
  BY <1>2, <1>3 DEF MarksInOrder
<1>9. EachSeesAChain'
  <2> SUFFICES ASSUME NEW u \in Writers
               PROVE  /\ Verifies(log \cup rows'[u])
                      /\ stage'[u] = "read" => IsHead(log \cup rows'[u], previous[u])
    BY <1>3 DEF EachSeesAChain
  <2>1. CASE u # w
    BY <2>1, <1>3 DEF EachSeesAChain
  <2>2. CASE u = w
    <3>1. \A r \in log \cup kept, x \in log \cup rows[w] : x.id < r.id => x \in log \cup kept
      BY <1>1, <1>2 DEF IdsInOrder, Mark, Row
    <3>2. Verifies(log \cup rows[w]) /\ log \cup rows[w] \in SUBSET Row
      BY <1>1 DEF EachSeesAChain
    <3>3. Verifies(log \cup kept)
      BY <3>1, <3>2, Beginning
    <3> QED
      BY <2>2, <3>3, <1>3
  <2> QED
    BY <2>1, <2>2
<1> QED
  BY <1>4, <1>6, <1>7, <1>8, <1>9
-----------------------------------------------------------------------------
\* Nobody but the holder has rows, so nobody's order is disturbed by a commit.
LEMMA CommitKeeps ==
  ASSUME ChainInv, NEW w \in Writers, Commit(w)
  PROVE  ChainInv'
<1> USE DEF ChainInv, Commit
<1>1. holder = w /\ \A u \in Writers : u # w => rows[u] = {} /\ stage[u] = "open"
  BY DEF LockHeld
<1>2. /\ rows'[w] = {} /\ \A u \in Writers : rows'[u] = {}
      /\ log' = log \cup rows[w]
  BY <1>1 DEF ChainTypeOK
<1>3. ChainTypeOK'
  BY DEF ChainTypeOK, Unlocked
<1>4. LockHeld'
  BY <1>1, <1>2 DEF LockHeld
<1>5. IdsInOrder' /\ MarksInOrder'
  BY <1>2 DEF IdsInOrder, MarksInOrder
<1>6. EachSeesAChain'
  BY <1>1, <1>2 DEF EachSeesAChain
<1> QED
  BY <1>3, <1>4, <1>5, <1>6

\* A whole transaction undone leaves the committed chain.
LEMMA RollBackKeeps ==
  ASSUME ChainInv, NEW w \in Writers, RollBack(w)
  PROVE  ChainInv'
<1> USE DEF ChainInv, RollBack
<1>1. /\ rows'[w] = {} /\ marks'[w] = <<>> /\ stage'[w] = "open"
      /\ \A u \in Writers : u # w =>
           rows'[u] = rows[u] /\ marks'[u] = marks[u] /\ stage'[u] = stage[u]
  BY DEF ChainTypeOK
<1>2. ChainTypeOK'
  BY EmptySeq DEF ChainTypeOK, Unlocked
<1>3. LockHeld'
  BY <1>1 DEF LockHeld, Unlocked
<1>4. IdsInOrder' /\ MarksInOrder'
  BY <1>1 DEF IdsInOrder, MarksInOrder
<1>5. EachSeesAChain'
  <2>1. \A u \in Writers : rows[u] \in SUBSET Row
    BY DEF ChainTypeOK
  <2>2. Verifies(log)
    <3>1. Verifies(log \cup rows[w]) /\ log \cup rows[w] \in SUBSET Row
      BY <2>1 DEF EachSeesAChain, ChainTypeOK
    <3>2. \A r \in log, x \in log \cup rows[w] : x.id < r.id => x \in log
      BY <2>1 DEF IdsInOrder, ChainTypeOK, Row
    <3> QED
      BY <3>1, <3>2, Beginning
  <2>3. log \cup {} = log
    OBVIOUS
  <2> QED
    BY <1>1, <2>2, <2>3 DEF EachSeesAChain
<1> QED
  BY <1>2, <1>3, <1>4, <1>5
-----------------------------------------------------------------------------
\* The invariant is inductive.
LEMMA StepKeeps == ChainInv /\ [ChainNext]_chainVars => ChainInv'
<1> SUFFICES ASSUME ChainInv, [ChainNext]_chainVars
             PROVE  ChainInv'
  OBVIOUS
<1>1. ASSUME NEW w \in Writers, Step(w)
      PROVE  ChainInv'
  BY <1>1, LockKeeps, ReadPreviousKeeps, InsertKeeps, SavepointKeeps, ReleaseKeeps,
     RollBackToKeeps, CommitKeeps, RollBackKeeps DEF Step
<1>2. CASE UNCHANGED chainVars
  BY <1>2 DEF chainVars, ChainInv, ChainTypeOK, LockHeld, IdsInOrder, MarksInOrder,
     EachSeesAChain
<1> QED
  BY <1>1, <1>2 DEF ChainNext

\* The invariant holds in every reachable state of append's callers.
THEOREM ChainInvariant == ChainSpec => []ChainInv
  BY InitEstablishes, StepKeeps, PTL DEF ChainSpec

\* Rows, lock and writers keep their types.
THEOREM ChainTypeCorrect == ChainSpec => []ChainTypeOK
<1>1. ChainInv => ChainTypeOK
  BY DEF ChainInv
<1> QED
  BY <1>1, ChainInvariant, PTL

\* aegis audit verify finds the committed log unbroken, whatever its writers are
\* doing: the chain a transaction sees begins with the committed one.
THEOREM AlwaysVerifies == ChainSpec => []ChainVerifies
<1>1. ChainInv => ChainVerifies
  <2> SUFFICES ASSUME ChainInv, NEW row \in log
               PROVE  Verifies(log)
    BY DEF ChainVerifies, Verifies
  <2> DEFINE w == row.by
  <2>1. w \in Writers
    BY DEF ChainInv, ChainTypeOK, Row
  <2>2. log \in SUBSET Row /\ rows[w] \in SUBSET Row
    BY <2>1 DEF ChainInv, ChainTypeOK
  <2>3. Verifies(log \cup rows[w]) /\ log \cup rows[w] \in SUBSET Row
    BY <2>1, <2>2 DEF ChainInv, EachSeesAChain
  <2>4. \A r \in log, x \in log \cup rows[w] : x.id < r.id => x \in log
    BY <2>1, <2>2 DEF ChainInv, IdsInOrder, Row
  <2> QED
    BY <2>3, <2>4, Beginning
<1> QED
  BY <1>1, ChainInvariant, PTL

LogGrows ==
  /\ log \subseteq log'
  /\ \A r \in log' \ log, old \in log : old.id < r.id

\* Rows are committed under the lock, and ids are drawn under it.
LEMMA StepsAppend == ChainInv /\ [ChainNext]_chainVars => LogGrows
<1> SUFFICES ASSUME ChainInv, [ChainNext]_chainVars
             PROVE  LogGrows
  OBVIOUS
<1> USE DEF LogGrows
<1>1. CASE UNCHANGED chainVars
  BY <1>1 DEF chainVars
<1>2. ASSUME NEW w \in Writers, Step(w)
      PROVE  LogGrows
  <2>1. CASE log' = log
    BY <2>1
  <2>2. CASE Commit(w)
    BY <2>2 DEF Commit, ChainInv, IdsInOrder
  <2> QED
    BY <1>2, <2>1, <2>2 DEF Step, Lock, ReadPrevious, Insert, Savepoint, Release,
       RollBackTo, RollBack
<1> QED
  BY <1>1, <1>2 DEF ChainNext

\* The committed log only grows, and only at its end.
THEOREM OnlyAtTheEnd == ChainSpec => CommittedInOrder
<1>1. ChainInv /\ [ChainNext]_chainVars => [LogGrows]_chainVars
  BY StepsAppend
<1> QED
  BY <1>1, ChainInvariant, PTL DEF ChainSpec, CommittedInOrder, LogGrows
-----------------------------------------------------------------------------
\* The requests' rows carry their names, and the ones past the gate are on record.
GateInv ==
  /\ \A r \in Writers : \A row \in rows[r] : row.by = r
  /\ AuditedBeforeHandled
  /\ place \in [Writers -> {"arrived", "gate", "handler", "returned", "raised", "answered"}]

\* Every step of a request is a step of its writer, or none at all.
LEMMA GateStepIsChainStep == [GateNext]_gateVars => [ChainNext]_chainVars
<1> SUFFICES ASSUME GateNext
             PROVE  ChainNext \/ UNCHANGED chainVars
  BY DEF gateVars
<1>1. PICK r \in Writers : OnLoop(r) \/ Handler(r)
  BY DEF GateNext
<1>2. CASE OnLoop(r)
  BY <1>2 DEF OnLoop, EnterGate, GateAppends, LeaveGate, Answer, Appending, ChainNext, Step
<1>3. CASE Handler(r)
  BY <1>3 DEF Handler, HandlerAppends, HandlerNests, HandlerReturns, HandlerRaises,
     ChainNext, Step
<1> QED
  BY <1>1, <1>2, <1>3

\* The requests of an API process are writers of the chain (deps.py, chain.append).
THEOREM RequestsAreWriters == GateSpec => ChainSpec
<1>1. GateInit => ChainInit
  BY DEF GateInit
<1> QED
  BY <1>1, GateStepIsChainStep, PTL DEF GateSpec, ChainSpec

\* The same for the environment in which no gate waits for a handler that raised.
LEMMA CalmRequestsAreWriters == CalmSpec => ChainSpec
<1>1. GateInit => ChainInit
  BY DEF GateInit
<1>2. [CalmNext]_gateVars => [ChainNext]_chainVars
  BY GateStepIsChainStep DEF CalmNext
<1> QED
  BY <1>1, <1>2, PTL DEF CalmSpec, ChainSpec
-----------------------------------------------------------------------------
\* What is on record stays on record.
LEMMA RecordsStay ==
  ASSUME log \subseteq log', NEW r \in Writers, Recorded(r)
  PROVE  Recorded(r)'
BY DEF Recorded

\* A step changes the place of one request at most, and log and rows as Step does.
LEMMA GateInvKept == GateInv /\ ChainTypeOK /\ [GateNext]_gateVars => GateInv'
<1> SUFFICES ASSUME GateInv, ChainTypeOK, [GateNext]_gateVars
             PROVE  GateInv'
  OBVIOUS
<1> USE DEF GateInv
<1>1. CASE UNCHANGED gateVars
  BY <1>1 DEF gateVars, chainVars, AuditedBeforeHandled, Recorded
<1>2. ASSUME NEW r \in Writers, OnLoop(r) \/ Handler(r)
      PROVE  GateInv'
  <2>1. Step(r) \/ UNCHANGED chainVars
    BY <1>2 DEF OnLoop, Handler, EnterGate, GateAppends, LeaveGate, Answer, Appending,
       HandlerAppends, HandlerNests, HandlerReturns, HandlerRaises, Step
  <2>2. /\ log \subseteq log'
        /\ \A u \in Writers : \A row \in rows'[u] : row.by = u
    <3>1. rows \in [Writers -> SUBSET Row]
      BY DEF ChainTypeOK
    <3>2. CASE Insert(r)
      BY <3>1, <3>2 DEF Insert
    <3>3. CASE RollBackTo(r)
      BY <3>1, <3>3 DEF RollBackTo
    <3>4. CASE Commit(r) \/ RollBack(r)
      BY <3>1, <3>4 DEF Commit, RollBack
    <3>5. CASE UNCHANGED <<log, rows>>
      BY <3>5
    <3>6. CASE Lock(r) \/ ReadPrevious(r) \/ Savepoint(r) \/ Release(r) \/ UNCHANGED chainVars
      BY <3>5, <3>6 DEF Lock, ReadPrevious, Savepoint, Release, chainVars
    <3> QED
      BY <2>1, <3>2, <3>3, <3>4, <3>6 DEF Step
  <2>3. /\ place' \in [Writers -> {"arrived", "gate", "handler", "returned", "raised",
                                   "answered"}]
        /\ \A u \in Writers : u # r => place'[u] = place[u]
    BY <1>2 DEF OnLoop, Handler, EnterGate, GateAppends, LeaveGate, Answer, Goes,
       HandlerAppends, HandlerNests, HandlerReturns, HandlerRaises
  <2>4. ASSUME r \in Audited, place'[r] \notin {"arrived", "gate"}
        PROVE  Recorded(r)'
    <3>1. CASE LeaveGate(r)
      BY <3>1 DEF LeaveGate, Commit, Recorded
    <3>2. CASE place[r] \notin {"arrived", "gate"}
      BY <3>2, <2>2, <2>4, RecordsStay DEF AuditedBeforeHandled
    <3>3. CASE ~LeaveGate(r) /\ place[r] \in {"arrived", "gate"}
      BY <1>2, <2>4, <3>3 DEF OnLoop, Handler, EnterGate, GateAppends, Answer, Goes,
         HandlerAppends, HandlerNests, HandlerReturns, HandlerRaises, Audited
    <3> QED
      BY <3>1, <3>2, <3>3
  <2>5. AuditedBeforeHandled'
    BY <2>2, <2>3, <2>4, RecordsStay, GateAssumption DEF AuditedBeforeHandled, Audited
  <2> QED
    BY <2>2, <2>3, <2>5
<1> QED
  BY <1>1, <1>2 DEF GateNext

\* No audited request is answered, or handled, before its row is durable, whether or
\* not the process can get stuck.
THEOREM AuditedFirst == GateSpec => []AuditedBeforeHandled
<1>1. GateInit => GateInv
  BY GateAssumption DEF GateInit, ChainInit, GateInv, AuditedBeforeHandled, Audited
<1>2. GateInv => AuditedBeforeHandled
  BY DEF GateInv
<1> QED
  BY <1>1, <1>2, GateInvKept, RequestsAreWriters, ChainTypeCorrect, PTL DEF GateSpec
-----------------------------------------------------------------------------
Listings == [stage : {"none", "more", "done"}, filter : Filters \cup {None}, cursor : Nat,
             pages : Seq(SUBSET Row), before : SUBSET Row]

\* The cursor is a row's, and the last one's that was shown.
CursorInv ==
  /\ listing.stage = "none" => listing.pages = <<>>
  /\ listing.stage = "more" =>
       /\ listing.cursor \in Ids(log)
       /\ \A i \in DOMAIN listing.pages : \A x \in listing.pages[i] : listing.cursor <= x.id

ListingInv == listing \in Listings /\ CursorInv /\ ListingIsASnapshot
-----------------------------------------------------------------------------
\* Turning a page changes nothing of the gate's.
LEMMA ListingStepIsGateStep == [ListingNext]_listVars => [GateNext]_gateVars
BY DEF ListingNext, listVars, FirstPage, NextPage, CalmNext

\* What the log gains while nobody turns a page changes nothing about a listing.
LEMMA AppendsKeepListing ==
  ASSUME ListingInv, ChainTypeOK, ChainTypeOK', LogGrows, UNCHANGED listing
  PROVE  ListingInv'
<1>1. ASSUME listing.stage = "more"
      PROVE  Below(Asked(listing.filter), listing.cursor)'
               = Below(Asked(listing.filter), listing.cursor)
  <2>1. PICK old \in log : old.id = listing.cursor
    BY <1>1 DEF ListingInv, CursorInv, Ids
  <2>2. ASSUME NEW r \in log' \ log
        PROVE  ~(r.id < listing.cursor)
    BY <2>1, <2>2 DEF LogGrows, ChainTypeOK, Row
  <2> QED
    BY <2>2 DEF Below, Asked, LogGrows
<1>2. CursorInv'
  BY DEF ListingInv, CursorInv, LogGrows, Ids
<1>3. ListingIsASnapshot'
  BY <1>1 DEF ListingInv, ListingIsASnapshot, Shown
<1> QED
  BY <1>2, <1>3 DEF ListingInv

\* A page of the rows asked for, behind pages that all come before them.
LEMMA PageKeepsListing ==
  ASSUME NEW pages \in Seq(SUBSET Row), NEW rs \in SUBSET log, NEW before \in SUBSET Row,
         NEW limit \in Limits, NEW filter \in Filters \cup {None}, NEW upper \in Nat,
         ChainTypeOK, UNCHANGED log,
         rs = Asked(filter) \/ rs = Below(Asked(filter), upper),
         \A i \in DOMAIN pages : \A x \in pages[i], y \in rs : y.id < x.id,
         \A i, j \in DOMAIN pages : i < j => \A x \in pages[i], y \in pages[j] : y.id < x.id,
         (UNION {pages[i] : i \in DOMAIN pages}) \cup rs = before,
         Show(rs, limit, filter, pages, before)
  PROVE  ListingInv'
<1>1. PICK page \in SUBSET rs :
        /\ IsPage(page, rs, limit)
        /\ \/ /\ page = rs
              /\ listing' = [stage |-> "done", filter |-> filter, cursor |-> 0,
                             pages |-> Append(pages, page), before |-> before]
           \/ /\ page # rs
              /\ \E id \in Ids(rs) :
                   /\ IsCursor(id, page, rs)
                   /\ listing' = [stage |-> "more", filter |-> filter, cursor |-> id,
                                  pages |-> Append(pages, page), before |-> before]
  BY DEF Show
<1> DEFINE all == Append(pages, page)
<1>2. rs \in SUBSET Row /\ page \in SUBSET Row
  BY DEF ChainTypeOK
<1>3. /\ all \in Seq(SUBSET Row)
      /\ Len(pages) \in Nat
      /\ DOMAIN pages = 1..Len(pages) /\ DOMAIN all = 1..(Len(pages) + 1)
      /\ \A i \in DOMAIN pages : all[i] = pages[i]
      /\ all[Len(pages) + 1] = page
  BY <1>2
<1> HIDE DEF all
<1>4. UNION {all[i] : i \in DOMAIN all} = (UNION {pages[i] : i \in DOMAIN pages}) \cup page
  <2>1. \A i \in DOMAIN all : i \in DOMAIN pages \/ i = Len(pages) + 1
    BY <1>3
  <2>2. \A i \in DOMAIN pages : i \in DOMAIN all
    BY <1>3
  <2>3. Len(pages) + 1 \in DOMAIN all
    BY <1>3
  <2> QED
    BY <1>3, <2>1, <2>2, <2>3, Zenon
<1>5. \A i, j \in DOMAIN all : i < j => \A x \in all[i], y \in all[j] : y.id < x.id
  BY <1>3
<1>6. CASE listing' = [stage |-> "done", filter |-> filter, cursor |-> 0,
                       pages |-> all, before |-> before] /\ page = rs
  BY <1>3, <1>4, <1>5, <1>6 DEF ListingInv, Listings, CursorInv, ListingIsASnapshot, Shown
<1>7. ASSUME NEW id \in Ids(rs), IsCursor(id, page, rs),
             listing' = [stage |-> "more", filter |-> filter, cursor |-> id,
                         pages |-> all, before |-> before]
      PROVE  ListingInv'
  <2>1. id \in Nat /\ id \in Ids(log)' /\ \A r \in page : id <= r.id
    BY <1>2, <1>7 DEF Ids, Row, IsCursor
  <2>2. PICK last \in page : last.id = id
    BY <1>7 DEF IsCursor, Ids
  <2>3. \A r \in rs \ page : r.id < id
    BY <1>1, <2>2 DEF IsPage
  <2>4. \A i \in DOMAIN all : \A x \in all[i] : id <= x.id
    <3> SUFFICES ASSUME NEW i \in DOMAIN all, NEW x \in all[i]
                 PROVE  id <= x.id
      OBVIOUS
    <3>1. CASE i \in DOMAIN pages
      <4>1. last.id < x.id /\ x \in Row
        BY <1>3, <2>2, <3>1
      <4> QED
        BY <2>1, <2>2, <4>1 DEF Row
    <3> QED
      BY <1>3, <2>1, <3>1
  <2>5. rs = page \cup Below(Asked(filter), id)
    <3>1. \A r \in Asked(filter) : r.id < id => r \in rs
      BY <1>2, <2>1, <2>2 DEF Below, Asked, Row, ChainTypeOK
    <3> QED
      BY <1>1, <2>3, <3>1 DEF Below, Asked
  <2>6. Below(Asked(filter), id)' = Below(Asked(filter), id)
    BY DEF Below, Asked
  <2>7. CursorInv'
    BY <1>7, <2>1, <2>4 DEF CursorInv
  <2>8. ListingIsASnapshot'
    BY <1>4, <1>5, <1>7, <2>5, <2>6 DEF ListingIsASnapshot, Shown
  <2> QED
    BY <1>3, <1>7, <2>1, <2>7, <2>8 DEF ListingInv, Listings
<1> QED
  BY <1>1, <1>6, <1>7 DEF all
-----------------------------------------------------------------------------
\* Turning a page, the first or another.
LEMMA PagesKeepListing ==
  ASSUME ListingInv, ChainTypeOK, FirstPage \/ NextPage
  PROVE  ListingInv'
<1>1. UNCHANGED log
  BY DEF FirstPage, NextPage, gateVars, chainVars
<1>2. CASE FirstPage
  <2>1. PICK filter \in Filters, limit \in Limits :
          Show(Asked(filter), limit, filter, <<>>, Asked(filter))
    BY <1>2 DEF FirstPage
  <2>2. <<>> \in Seq(SUBSET Row) /\ DOMAIN <<>> = {}
    OBVIOUS
  <2>3. Asked(filter) \in SUBSET log /\ Asked(filter) \in SUBSET Row
    BY DEF Asked, ChainTypeOK
  <2> QED
    BY <1>1, <2>1, <2>2, <2>3, PageKeepsListing
<1>3. CASE NextPage
  <2> DEFINE rs == Below(Asked(listing.filter), listing.cursor)
  <2>1. listing.stage = "more"
    BY <1>3 DEF NextPage
  <2>2. PICK limit \in Limits :
          Show(rs, limit, listing.filter, listing.pages, listing.before)
    BY <1>3 DEF NextPage
  <2>3. /\ listing.pages \in Seq(SUBSET Row) /\ listing.before \in SUBSET Row
        /\ listing.filter \in Filters \cup {None} /\ listing.cursor \in Nat
    BY DEF ListingInv, Listings
  <2>4. rs \in SUBSET log
    BY DEF Below, Asked
  <2>5. \A i \in DOMAIN listing.pages : \A x \in listing.pages[i], y \in rs : y.id < x.id
    <3> SUFFICES ASSUME NEW i \in DOMAIN listing.pages, NEW x \in listing.pages[i], NEW y \in rs
                 PROVE  y.id < x.id
      OBVIOUS
    <3>1. x \in Row /\ y \in Row
      BY <2>3, <2>4 DEF ChainTypeOK
    <3>2. y.id < listing.cursor /\ listing.cursor <= x.id
      BY <2>1 DEF ListingInv, CursorInv, Below
    <3> QED
      BY <2>3, <3>1, <3>2 DEF Row
  <2>6. (UNION {listing.pages[i] : i \in DOMAIN listing.pages}) \cup rs = listing.before
    BY <2>1 DEF ListingInv, ListingIsASnapshot, Shown
  <2>7. \A i, j \in DOMAIN listing.pages : i < j =>
          \A x \in listing.pages[i], y \in listing.pages[j] : y.id < x.id
    BY DEF ListingInv, ListingIsASnapshot
  <2> HIDE DEF rs
  <2> QED
    BY <1>1, <2>2, <2>3, <2>4, <2>5, <2>6, <2>7, PageKeepsListing DEF rs
<1> QED
  BY <1>2, <1>3

\* What an auditor pages through is the log as it was when the first page was read,
\* however large the pages and whatever is appended meanwhile (query_audit).
THEOREM ListingsAreSnapshots == ListingSpec => []ListingIsASnapshot
<1>1. ListingInit => ListingInv
  <2>1. <<>> \in Seq(SUBSET Row) /\ DOMAIN <<>> = {}
    OBVIOUS
  <2> QED
    BY <2>1 DEF ListingInit, NoListing, ListingInv, Listings, CursorInv, ListingIsASnapshot
<1>2. ListingInit => ChainInit
  BY DEF ListingInit, GateInit
<1>3. [ListingNext]_listVars => [ChainNext]_chainVars
  BY ListingStepIsGateStep, GateStepIsChainStep
<1>4. ListingInv /\ ChainInv /\ ChainInv' /\ [ListingNext]_listVars => ListingInv'
  <2> SUFFICES ASSUME ListingInv, ChainInv, ChainInv', [ListingNext]_listVars
               PROVE  ListingInv'
    OBVIOUS
  <2>1. LogGrows /\ ChainTypeOK /\ ChainTypeOK'
    BY <1>3, StepsAppend DEF ChainInv
  <2> QED
    BY <2>1, AppendsKeepListing, PagesKeepListing DEF ListingNext, listVars
<1>5. ListingInv => ListingIsASnapshot
  BY DEF ListingInv
<1> QED
  BY <1>1, <1>2, <1>3, <1>4, <1>5, InitEstablishes, StepKeeps, PTL DEF ListingSpec
=============================================================================
