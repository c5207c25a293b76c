------------------------- MODULE AuthzOutboxProofs --------------------------
(***************************************************************************)
(* Proofs about AuthzProjection, for any number of seats, items, requests, *)
(* crashes and rebuilds, in any order.  StoreFollows is not inductive: it  *)
(* needs to know how far a running drain has come (DrainInPlace), that the *)
(* requests in flight still see Postgres as it is (RequestsCurrent), that  *)
(* the store has followed where the drain has marked all there is          *)
(* (SoundKept), and what a running rebuild will leave of the queue and the *)
(* store about the tuples it was not crossed about (RebuildInPlace).       *)
(***************************************************************************)
EXTENDS AuthzProjection, TLAPS

Rebuilding == rebuild.stage \notin {"idle", "done"}

\* A drain works off a first part of the queue, in order.
DrainInPlace ==
  /\ drain.stage = "idle" => drain.batch = {} /\ drain.marked = {}
  /\ drain.batch \subseteq outbox
  /\ drain.marked \subseteq drain.batch
  /\ \A x \in drain.batch, y \in outbox \ drain.batch : x.id < y.id
  /\ \A x \in drain.marked, y \in drain.batch \ drain.marked : x.id < y.id

\* Nobody acts on a row that has changed since it was read.
RequestsCurrent ==
  /\ OneAtATime
  /\ \A c \in Clients :
       /\ client[c].stage = "read" =>
            /\ holder[client[c].place] = client[c].old
            /\ client[c].new # client[c].old
       /\ client[c].stage = "answering" =>
            /\ client[c].tuple \notin Desired
            /\ client[c].tuple[1] \in Items => holder[client[c].tuple[1]] # None

\* The rows queued for t, without those in P that a rebuild is about to supersede.
Rest(t, P) == {row \in outbox \ P : row.tuple = t}

\* The last of them says what Postgres implies, and where the drain has marked them
\* all, the store has followed.
Kept(t, P) ==
  /\ \A row \in Last(Rest(t, P)) : row.op = "write" <=> t \in Desired
  /\ Rest(t, P) \subseteq drain.marked => (t \in fga <=> t \in Desired)

SoundKept == \A t \in Sound : Kept(t, {})

\* About what it was not crossed about, a rebuild knows what Postgres implies, has
\* still to do whatever is wrong with the store, and can do without the rows it read.
RebuildInPlace ==
  /\ ~Rebuilding => crossed = {}
  /\ rebuild.stage \in {"read", "write"} =>
       \A t \in Tuples \ crossed : t \in rebuild.desired <=> t \in Desired
  /\ rebuild.stage = "write" =>
       \A t \in Tuples \ crossed :
         /\ t \in rebuild.writes => t \in Desired
         /\ t \in rebuild.deletes => t \notin Desired
         /\ (t \in fga <=> t \in Desired) \/ t \in rebuild.writes \/ t \in rebuild.deletes
  /\ rebuild.stage = "supersede" =>
       /\ \A row \in rebuild.pending : row.id < nextId
       /\ \A t \in Tuples \ crossed : Kept(t, rebuild.pending)

IInv == TypeOK /\ DrainInPlace /\ RequestsCurrent /\ SoundKept /\ RebuildInPlace
-----------------------------------------------------------------------------
\* A request is idle, has read a seat, or has a tuple to delete inline.
LEMMA RequestStages ==
  ASSUME TypeOK, NEW c \in Clients
  PROVE  /\ client[c].stage \in {"idle", "read", "answering"}
         /\ client[c].stage = "idle" => client[c] = Idle
         /\ client[c].stage = "read" =>
              /\ client[c].place \in Seats
              /\ client[c].old \in Roles \cup {None}
              /\ client[c].new \in Roles \cup {None}
         /\ client[c].stage = "answering" =>
              client[c].tuple \in (Seats \cup Items) \X Holders
  <1>1. client[c] \in RequestRecord
    BY DEF TypeOK
  <1>2. CASE client[c] \in [stage : {"idle"}]
    BY <1>2 DEF Idle
  <1>3. CASE client[c] \in [stage : {"read"}, place : Seats, old : Roles \cup {None},
                            new : Roles \cup {None}]
    BY <1>3
  <1>4. CASE client[c] \in [stage : {"answering"}, tuple : (Seats \cup Items) \X Holders]
    BY <1>4
  <1> QED BY <1>1, <1>2, <1>3, <1>4 DEF RequestRecord

\* What a change of holder queues: a delete of the old tuple, a write of the new
\* one, with fresh ids.
LEMMA QueuedRows ==
  ASSUME TypeOK, NEW p \in Places, NEW old \in Holders \cup {None},
         NEW new \in Holders \cup {None}
  PROVE  /\ QueuedFor(p, old, new) \subseteq Row
         /\ \A row \in QueuedFor(p, old, new) :
              /\ row.id \in {nextId, nextId + 1}
              /\ row.id = nextId => old # None /\ row.op = "delete" /\ row.tuple = <<p, old>>
              /\ row.id = nextId + 1 => new # None /\ row.op = "write" /\ row.tuple = <<p, new>>
         /\ \A x, y \in QueuedFor(p, old, new) : x.id = y.id => x = y
         /\ old # None => \E row \in QueuedFor(p, old, new) : row.tuple = <<p, old>>
         /\ new # None => \E row \in QueuedFor(p, old, new) : row.tuple = <<p, new>>
  <1>1. nextId \in Nat
    BY DEF TypeOK
  <1>2. old # None => Revocation(nextId, p, old) \in Row
    BY <1>1 DEF Revocation, Row, Tuples
  <1>3. new # None => Grant(nextId + 1, p, new) \in Row
    BY <1>1 DEF Grant, Row, Tuples
  <1>4. \A row \in QueuedFor(p, old, new) :
          \/ old # None /\ row = Revocation(nextId, p, old)
          \/ new # None /\ row = Grant(nextId + 1, p, new)
    BY DEF QueuedFor
  <1>5. nextId # nextId + 1
    BY <1>1
  <1>6. QueuedFor(p, old, new) \subseteq Row
    BY <1>2, <1>3, <1>4
  <1>7. \A row \in QueuedFor(p, old, new) :
          /\ row.id \in {nextId, nextId + 1}
          /\ row.id = nextId => old # None /\ row.op = "delete" /\ row.tuple = <<p, old>>
          /\ row.id = nextId + 1 => new # None /\ row.op = "write" /\ row.tuple = <<p, new>>
    BY <1>4, <1>5 DEF Revocation, Grant
  <1>8. \A x, y \in QueuedFor(p, old, new) : x.id = y.id => x = y
    BY <1>4, <1>5 DEF Revocation, Grant
  <1>9. old # None => \E row \in QueuedFor(p, old, new) : row.tuple = <<p, old>>
    <2>1. old # None => Revocation(nextId, p, old) \in QueuedFor(p, old, new)
      BY DEF QueuedFor
    <2>2. Revocation(nextId, p, old).tuple = <<p, old>>
      BY DEF Revocation
    <2> QED BY <2>1, <2>2
  <1>10. new # None => \E row \in QueuedFor(p, old, new) : row.tuple = <<p, new>>
    <2>1. new # None => Grant(nextId + 1, p, new) \in QueuedFor(p, old, new)
      BY DEF QueuedFor
    <2>2. Grant(nextId + 1, p, new).tuple = <<p, new>>
      BY DEF Grant
    <2> QED BY <2>1, <2>2
  <1> QED BY <1>6, <1>7, <1>8, <1>9, <1>10

\* A transaction that changes the holder of a place from what it still is.
LEMMA ChangeStep ==
  ASSUME IInv, OutboxAssumption, NEW p \in Places, NEW new \in Holders \cup {None},
         new # holder[p],
         holder' = [holder EXCEPT ![p] = new],
         outbox' = outbox \cup QueuedFor(p, holder[p], new),
         nextId' = nextId + 2,
         UNCHANGED <<fga, drain, rebuild>>
  PROVE  /\ outbox' \in SUBSET Row
         /\ nextId' \in Nat
         /\ \A row \in outbox' : row.id < nextId' /\ (\A x \in outbox' : x.id = row.id => x = row)
         /\ DrainInPlace'
         /\ \A t \in Tuples : t[1] # p => (t \in Desired' <=> t \in Desired)
         /\ <<p, holder[p]>> \notin Desired'
  <1> DEFINE old == holder[p]
             fresh == QueuedFor(p, old, new)
  <1>0. old \in Holders \cup {None} /\ nextId \in Nat /\ outbox \subseteq Row
    BY DEF IInv, TypeOK
  <1>1. /\ fresh \subseteq Row
        /\ \A row \in fresh : row.id \in {nextId, nextId + 1}
        /\ \A x, y \in fresh : x.id = y.id => x = y
    BY <1>0, QueuedRows DEF IInv
  <1> HIDE DEF fresh
  <1>2. \A row \in outbox : row.id \in Nat /\ row.id < nextId
    BY <1>0 DEF IInv, TypeOK, Row
  <1>3. \A row \in outbox : \A x \in outbox : x.id = row.id => x = row
    BY DEF IInv, TypeOK
  <1>4. outbox' = outbox \cup fresh
    BY DEF fresh
  <1>5. \A row \in outbox' : row.id < nextId'
    BY <1>0, <1>1, <1>2, <1>4
  <1>6. \A row, x \in outbox' : x.id = row.id => x = row
    BY <1>0, <1>1, <1>2, <1>3, <1>4
  <1>7. \A t \in Tuples : t[1] # p => (t \in Desired' <=> t \in Desired)
    BY DEF Desired, Tuples, IInv, TypeOK
  <1>8. <<p, old>> \notin Desired'
    BY DEF Desired, IInv, TypeOK
  <1>9. DrainInPlace'
    <2>1. \A x \in drain.batch, y \in fresh : x.id < y.id
      BY <1>0, <1>1, <1>2 DEF IInv, DrainInPlace
    <2> QED BY <2>1, <1>4 DEF IInv, DrainInPlace
  <1>10. outbox' \subseteq Row /\ nextId' \in Nat
    BY <1>0, <1>1, <1>4
  <1> QED BY <1>5, <1>6, <1>7, <1>8, <1>9, <1>10

\* What such a transaction queues says of every tuple what it now implies, and counts
\* among the rows that no rebuild has read.
LEMMA ChangeKept ==
  ASSUME IInv, OutboxAssumption, NEW p \in Places, NEW new \in Holders \cup {None},
         new # holder[p],
         holder' = [holder EXCEPT ![p] = new],
         outbox' = outbox \cup QueuedFor(p, holder[p], new),
         nextId' = nextId + 2,
         UNCHANGED <<fga, drain, rebuild>>,
         NEW P, \A row \in P : row.id < nextId,
         NEW t \in Tuples, Kept(t, P)
  PROVE  Kept(t, P)'
  <1> DEFINE old == holder[p]
             fresh == QueuedFor(p, old, new)
  <1>0. old \in Holders \cup {None} /\ nextId \in Nat /\ outbox \subseteq Row
    BY DEF IInv, TypeOK
  <1>1. /\ \A row \in fresh :
              /\ row.id \in {nextId, nextId + 1}
              /\ row.id = nextId => old # None /\ row.op = "delete" /\ row.tuple = <<p, old>>
              /\ row.id = nextId + 1 => new # None /\ row.op = "write" /\ row.tuple = <<p, new>>
        /\ old # None => \E row \in fresh : row.tuple = <<p, old>>
        /\ new # None => \E row \in fresh : row.tuple = <<p, new>>
    BY <1>0, QueuedRows DEF IInv
  <1> HIDE DEF fresh
  <1>2. \A row \in outbox : row.id \in Nat /\ row.id < nextId
    BY <1>0 DEF IInv, TypeOK, Row
  <1>3. outbox' = outbox \cup fresh
    BY DEF fresh
  <1>4. \A row \in fresh : row \notin P /\ row \notin outbox
    BY <1>0, <1>1, <1>2
  <1>5. \A row : row \in Rest(t, P)' <=> row \in Rest(t, P) \/ (row \in fresh /\ row.tuple = t)
    BY <1>3, <1>4 DEF Rest
  <1>6. t[1] \in Places /\ t[2] \in Holders /\ t = <<t[1], t[2]>> /\ t[2] # None
    BY OutboxAssumption DEF Tuples, OutboxAssumption
  <1>7. (t \in Desired <=> holder[t[1]] = t[2]) /\ (t \in Desired' <=> holder'[t[1]] = t[2])
    BY DEF Desired
  <1>8. \A q \in Places : holder'[q] = IF q = p THEN new ELSE holder[q]
    BY DEF IInv, TypeOK
  <1>9. t # <<p, old>> /\ t # <<p, new>> => (t \in Desired' <=> t \in Desired)
    BY <1>6, <1>7, <1>8
  <1>10. (t = <<p, old>> => t \notin Desired') /\ (t = <<p, new>> => t \in Desired')
    BY <1>6, <1>7, <1>8
  <1>11. CASE \E row \in fresh : row.tuple = t
    <2>1. \A row \in Last(Rest(t, P))' : row \in fresh /\ row.tuple = t
      <3>1. \A x \in Rest(t, P) : x.id < nextId /\ x.id \in Nat
        BY <1>2 DEF Rest
      <3>2. PICK y \in fresh : y.tuple = t
        BY <1>11
      <3>3. y \in Rest(t, P)'
        BY <1>5, <3>2
      <3> QED BY <3>1, <3>2, <3>3, <1>0, <1>1, <1>5 DEF Last
    <2>2. \A row \in fresh : row.tuple = t => (row.op = "write" <=> t \in Desired')
      BY <1>1, <1>10
    <2>3. ~(Rest(t, P)' \subseteq drain.marked)
      <3>1. drain.marked \subseteq outbox
        BY DEF IInv, DrainInPlace
      <3> QED BY <3>1, <1>4, <1>5, <1>11
    <2> QED BY <2>1, <2>2, <2>3 DEF Kept
  <1>12. CASE ~ \E row \in fresh : row.tuple = t
    <2>1. Rest(t, P)' = Rest(t, P)
      BY <1>5, <1>12
    <2>2. t \in Desired' <=> t \in Desired
      BY <1>1, <1>6, <1>9, <1>12
    <2>3. Last(Rest(t, P))' = Last(Rest(t, P))
      BY <2>1 DEF Last
    <2> QED BY <2>1, <2>2, <2>3 DEF Kept
  <1> QED BY <1>11, <1>12

\* A step that leaves the tables, the store and the drain alone.
LEMMA KeptFrame ==
  ASSUME UNCHANGED <<holder, outbox, fga, drain>>, NEW P, NEW t
  PROVE  Desired' = Desired /\ (Kept(t, P)' <=> Kept(t, P))
  <1>1. Desired' = Desired
    BY DEF Desired
  <1>2. Rest(t, P)' = Rest(t, P)
    BY DEF Rest
  <1> QED BY <1>1, <1>2 DEF Kept, Last

\* What the steps of the others must not do to a running rebuild and to the tuples
\* that are sound.
LEMMA OthersKeep ==
  ASSUME IInv, UNCHANGED <<rebuild, doubtful>>,
         nextId' \in Nat, nextId <= nextId',
         crossed \subseteq crossed', ~Rebuilding => crossed' = crossed,
         \A t \in Tuples \ crossed' : Kept(t, {}) => Kept(t, {})',
         rebuild.stage \in {"read", "write"} =>
           \A t \in Tuples \ crossed' : t \in Desired' <=> t \in Desired,
         rebuild.stage = "write" =>
           \A t \in Tuples \ crossed' :
             (t \in fga' <=> t \in fga) \/ (t \notin fga' /\ t \notin Desired'),
         rebuild.stage = "supersede" =>
           \A t \in Tuples \ crossed' : Kept(t, rebuild.pending) => Kept(t, rebuild.pending)'
  PROVE  SoundKept' /\ RebuildInPlace'
  <1>1. SoundKept'
    BY DEF IInv, SoundKept, Sound
  <1>2. \A t \in Tuples \ crossed' : t \in Tuples \ crossed
    OBVIOUS
  <1>3. ~Rebuilding' => crossed' = {}
    BY DEF IInv, RebuildInPlace, Rebuilding
  <1>4. rebuild.stage \in {"read", "write"} =>
          \A t \in Tuples \ crossed' : t \in rebuild.desired <=> t \in Desired'
    BY <1>2 DEF IInv, RebuildInPlace
  <1>5. rebuild.stage = "write" =>
          \A t \in Tuples \ crossed' :
            /\ t \in rebuild.writes => t \in Desired'
            /\ t \in rebuild.deletes => t \notin Desired'
            /\ (t \in fga' <=> t \in Desired') \/ t \in rebuild.writes \/ t \in rebuild.deletes
    BY <1>2 DEF IInv, RebuildInPlace
  <1>6. rebuild.stage = "supersede" =>
          /\ \A row \in rebuild.pending : row.id < nextId'
          /\ \A t \in Tuples \ crossed' : Kept(t, rebuild.pending)'
    <2>1. \A row \in rebuild.pending : row.id \in Nat
      BY DEF IInv, TypeOK, Row
    <2>2. nextId \in Nat
      BY DEF IInv, TypeOK
    <2> QED BY <1>2, <2>1, <2>2 DEF IInv, RebuildInPlace
  <1> QED BY <1>1, <1>3, <1>4, <1>5, <1>6 DEF RebuildInPlace

\* A step of the others that leaves the tables, the store and the drain alone.
LEMMA OthersFrame ==
  ASSUME IInv, UNCHANGED <<holder, outbox, nextId, fga, drain, rebuild, doubtful>>,
         crossed \subseteq crossed', ~Rebuilding => crossed' = crossed
  PROVE  Desired' = Desired /\ DrainInPlace' /\ SoundKept' /\ RebuildInPlace'
  <1>1. Desired' = Desired
    BY DEF Desired
  <1>2. DrainInPlace'
    BY DEF IInv, DrainInPlace
  <1>3. nextId' \in Nat /\ nextId <= nextId'
    BY DEF IInv, TypeOK
  <1>4. \A t : Kept(t, {}) => Kept(t, {})'
    BY KeptFrame
  <1>5. \A t : Kept(t, rebuild.pending) => Kept(t, rebuild.pending)'
    BY KeptFrame
  <1> QED BY <1>1, <1>2, <1>3, <1>4, <1>5, OthersKeep

\* Empty tables and no request under way; what the store is wrong about is in doubt.
LEMMA InitInv ==
  ASSUME ProjectionInit, OutboxAssumption
  PROVE  IInv
  <1> USE DEF ProjectionInit, Init
  <1>1. \A c \in Clients : client[c] = Idle
    OBVIOUS
  <1>2. Desired = {}
    BY OutboxAssumption DEF OutboxAssumption, Desired, Tuples
  <1>3. TypeOK
    <2>1. client \in [Clients -> RequestRecord]
      BY DEF RequestRecord, Idle
    <2>2. fga \in SUBSET Tuples
      BY OutboxAssumption DEF OutboxAssumption
    <2>3. drain \in [stage : {"idle", "draining", "stopped"}, batch : SUBSET Row, marked : SUBSET Row]
      BY DEF NoDrain
    <2>4. rebuild \in [stage : {"idle", "read", "write", "supersede", "done"},
                       desired : SUBSET Tuples, writes : SUBSET Tuples,
                       deletes : SUBSET Tuples, pending : SUBSET Row]
      BY DEF NoRebuild
    <2>5. drain.marked \subseteq drain.batch
      BY DEF NoDrain
    <2> QED BY <2>1, <2>2, <2>3, <2>4, <2>5 DEF TypeOK
  <1>4. DrainInPlace
    BY DEF DrainInPlace, NoDrain
  <1>5. RequestsCurrent
    BY <1>1 DEF RequestsCurrent, OneAtATime, Idle
  <1>6. RebuildInPlace
    BY DEF RebuildInPlace, Rebuilding, NoRebuild
  <1>7. SoundKept
    BY <1>2 DEF SoundKept, Sound, Kept, Rest, Last
  <1> QED BY <1>3, <1>4, <1>5, <1>6, <1>7 DEF IInv
-----------------------------------------------------------------------------
\* A request reads the row of a seat nobody else is at.
LEMMA ReadStep ==
  ASSUME IInv, NEW c \in Clients, NEW p \in Seats, NEW new \in Roles \cup {None},
         ReadMember(c, p, new), OtherRequest(c)
  PROVE  IInv'
  <1> USE DEF ReadMember
  <1> DEFINE r == [stage |-> "read", place |-> p, old |-> holder[p], new |-> new]
  <1>1. p \in Places /\ holder[p] \in Roles \cup {None}
    BY DEF IInv, TypeOK, Places
  <1>2. r \in RequestRecord
    BY <1>1 DEF RequestRecord
  <1>3. client' \in [Clients -> RequestRecord]
    BY <1>2 DEF IInv, TypeOK
  <1>4. TypeOK'
    BY <1>3 DEF IInv, TypeOK
  <1>5. Desired' = Desired /\ DrainInPlace' /\ SoundKept' /\ RebuildInPlace'
    BY OthersFrame DEF OtherRequest, Rebuilding
  <1>6. \A d \in Clients : client'[d] = IF d = c THEN r ELSE client[d]
    BY DEF IInv, TypeOK
  <1>7. RequestsCurrent'
    <2>1. r.stage = "read" /\ r.place = p /\ r.old = holder[p] /\ r.new = new
      OBVIOUS
    <2>2. OneAtATime'
      BY DEF OtherRequest
    <2> HIDE DEF r
    <2> QED BY <1>5, <1>6, <2>1, <2>2 DEF IInv, RequestsCurrent
  <1> QED BY <1>4, <1>5, <1>7 DEF IInv

\* A request that ends and leaves the tables and the store alone.
LEMMA EndStep ==
  ASSUME IInv, NEW c \in Clients, RollBack(c), OtherRequest(c)
  PROVE  IInv'
  <1> USE DEF RollBack
  <1>1. Idle \in RequestRecord
    BY DEF Idle, RequestRecord
  <1>2. TypeOK'
    BY <1>1 DEF IInv, TypeOK
  <1>3. Desired' = Desired /\ DrainInPlace' /\ SoundKept' /\ RebuildInPlace'
    BY OthersFrame DEF OtherRequest, Rebuilding
  <1>4. \A d \in Clients : client'[d] = IF d = c THEN Idle ELSE client[d]
    BY DEF IInv, TypeOK
  <1>5. OneAtATime'
    BY DEF OtherRequest
  <1>6. RequestsCurrent'
    BY <1>3, <1>4, <1>5 DEF IInv, RequestsCurrent, Idle
  <1> QED BY <1>2, <1>3, <1>6 DEF IInv

\* A commit by c that changes a place nobody else is at.
LEMMA CommitStep ==
  ASSUME IInv, OutboxAssumption, NEW c \in Clients, OtherRequest(c),
         NEW p \in Places, NEW new \in Holders \cup {None},
         new # holder[p],
         new # None => new \in (IF p \in Seats THEN Roles ELSE IF p \in Items THEN Officers ELSE Cases),
         p \in Items => new # None,
         p \in Links => holder[p] = None,
         holder' = [holder EXCEPT ![p] = new],
         outbox' = outbox \cup QueuedFor(p, holder[p], new),
         nextId' = nextId + 2,
         client' = [client EXCEPT ![c] = Answer(p, holder[p])],
         \A d \in Clients \ {c} : client[d] # Idle => PlaceOf(client[d]) # p,
         UNCHANGED <<fga, drain, rebuild>>
  PROVE  IInv'
  <1>1. /\ outbox' \in SUBSET Row
        /\ nextId' \in Nat
        /\ \A row \in outbox' : row.id < nextId' /\ (\A x \in outbox' : x.id = row.id => x = row)
        /\ DrainInPlace'
        /\ \A t \in Tuples : t[1] # p => (t \in Desired' <=> t \in Desired)
        /\ <<p, holder[p]>> \notin Desired'
    BY ChangeStep
  <1>2. holder[p] \in Holders \cup {None}
    BY DEF IInv, TypeOK
  <1>3. \A q \in Places : holder'[q] = IF q = p THEN new ELSE holder[q]
    BY DEF IInv, TypeOK
  <1> DEFINE r == Answer(p, holder[p])
  <1>4. r = Idle \/ (holder[p] # None /\ r.stage = "answering" /\ r.tuple = <<p, holder[p]>>)
    BY DEF Answer
  <1>5. r \in RequestRecord
    <2>1. holder[p] # None => p \in Seats \cup Items
      BY DEF Places
    <2> QED BY <2>1, <1>2 DEF Answer, Idle, RequestRecord
  <1>6. \A d \in Clients : client'[d] = IF d = c THEN r ELSE client[d]
    BY DEF IInv, TypeOK
  <1> HIDE DEF r
  <1>7. TypeOK'
    <2>1. client' \in [Clients -> RequestRecord]
      BY <1>5 DEF IInv, TypeOK, r
    <2>2. holder' \in [Places -> Holders \cup {None}]
      BY DEF IInv, TypeOK
    <2>3. \A q \in Places :
            holder'[q] # None => holder'[q] \in (IF q \in Seats THEN Roles
                                                 ELSE IF q \in Items THEN Officers ELSE Cases)
      BY <1>3 DEF IInv, TypeOK
    <2> QED BY <1>1, <2>1, <2>2, <2>3 DEF IInv, TypeOK
  <1>8. RequestsCurrent'
    <2> SUFFICES ASSUME NEW d \in Clients
                 PROVE  /\ client'[d].stage = "read" =>
                             /\ holder'[client'[d].place] = client'[d].old
                             /\ client'[d].new # client'[d].old
                        /\ client'[d].stage = "answering" =>
                             /\ client'[d].tuple \notin Desired'
                             /\ client'[d].tuple[1] \in Items =>
                                  holder'[client'[d].tuple[1]] # None
      BY DEF RequestsCurrent, OtherRequest
    <2>1. CASE d = c
      <3>1. CASE r = Idle
        BY <2>1, <3>1, <1>6 DEF Idle
      <3>2. CASE holder[p] # None /\ r.stage = "answering" /\ r.tuple = <<p, holder[p]>>
        <4>1. client'[d].stage = "answering" /\ client'[d].tuple = <<p, holder[p]>>
          BY <2>1, <3>2, <1>6
        <4>2. p \in Items => holder'[p] # None
          BY <1>3
        <4> QED BY <4>1, <4>2, <1>1
      <3> QED BY <3>1, <3>2, <1>4
    <2>2. CASE d # c
      <3>1. client'[d] = client[d]
        BY <2>2, <1>6
      <3>2. CASE client[d].stage = "read"
        <4>1. client[d].place \in Places /\ client[d].place # p
          BY <2>2, <3>2, RequestStages DEF IInv, PlaceOf, Idle, Places
        <4> QED BY <3>1, <3>2, <4>1, <1>3 DEF IInv, RequestsCurrent
      <3>3. CASE client[d].stage = "answering"
        <4>1. client[d].tuple \in (Seats \cup Items) \X Holders
          BY <3>3, RequestStages DEF IInv
        <4>2. client[d].tuple \in Tuples /\ client[d].tuple[1] \in Places
          BY <4>1 DEF Tuples, Places
        <4>3. client[d].tuple[1] # p
          BY <2>2, <3>3 DEF PlaceOf, Idle
        <4> QED BY <3>1, <3>3, <4>2, <4>3, <1>1, <1>3 DEF IInv, RequestsCurrent
      <3> QED BY <3>1, <3>2, <3>3
    <2> QED BY <2>1, <2>2
  <1>9. nextId \in Nat
    BY DEF IInv, TypeOK
  <1>10. \A t \in Tuples : Kept(t, {}) => Kept(t, {})'
    BY ChangeKept
  <1>11. rebuild.stage = "supersede" =>
           \A t \in Tuples : Kept(t, rebuild.pending) => Kept(t, rebuild.pending)'
    BY ChangeKept DEF IInv, RebuildInPlace
  \* While the rebuild has yet to read the queue, it counts as crossed about p.
  <1>12. rebuild.stage \in {"read", "write"} =>
           \A t \in Tuples \ crossed' : t \in Desired' <=> t \in Desired
    <2> SUFFICES ASSUME rebuild.stage \in {"read", "write"}, NEW t \in Tuples, t \notin crossed'
                 PROVE  t \in Desired' <=> t \in Desired
      OBVIOUS
    <2>1. holder'[t[1]] = holder[t[1]]
      BY DEF OtherRequest
    <2> QED BY <2>1 DEF Desired
  <1>13. SoundKept' /\ RebuildInPlace'
    <2>1. UNCHANGED <<rebuild, doubtful>> /\ crossed \subseteq crossed'
      BY DEF OtherRequest
    <2>2. ~Rebuilding => crossed' = crossed
      BY DEF OtherRequest, Rebuilding
    <2>3. nextId' \in Nat /\ nextId <= nextId'
      BY <1>9
    <2>4. \A t \in Tuples \ crossed' : Kept(t, {}) => Kept(t, {})'
      BY <1>10
    <2>5. rebuild.stage = "supersede" =>
            \A t \in Tuples \ crossed' : Kept(t, rebuild.pending) => Kept(t, rebuild.pending)'
      BY <1>11
    <2>6. \A t : t \in fga' <=> t \in fga
      OBVIOUS
    <2> QED BY <1>12, <2>1, <2>2, <2>3, <2>4, <2>5, <2>6, OthersKeep
  <1> QED BY <1>1, <1>7, <1>8, <1>13 DEF IInv

\* The tuple an inline delete takes away is not implied by Postgres any more.
LEMMA InlineStep ==
  ASSUME IInv, NEW c \in Clients, DeleteInline(c), OtherRequest(c)
  PROVE  IInv'
  <1> USE DEF DeleteInline
  <1>1. Idle \in RequestRecord
    BY DEF Idle, RequestRecord
  <1>2. TypeOK'
    BY <1>1 DEF IInv, TypeOK
  <1>3. Desired' = Desired
    BY DEF Desired
  <1>4. \A d \in Clients : client'[d] = IF d = c THEN Idle ELSE client[d]
    BY DEF IInv, TypeOK
  <1>5. RequestsCurrent'
    BY <1>3, <1>4 DEF IInv, RequestsCurrent, Idle, OtherRequest
  <1>6. DrainInPlace'
    BY DEF IInv, DrainInPlace
  <1>7. \A t : (t \in fga' <=> t \in fga) \/ (t \notin fga' /\ t \notin Desired')
    <2>1. client[c].tuple \notin Desired
      BY DEF IInv, RequestsCurrent
    <2> QED BY <2>1, <1>3
  <1>8. ASSUME NEW P, NEW t, Kept(t, P)
        PROVE  Kept(t, P)'
    <2>1. Rest(t, P)' = Rest(t, P)
      BY DEF Rest
    <2> QED BY <1>3, <1>7, <1>8, <2>1 DEF Kept, Last
  <1>9. SoundKept' /\ RebuildInPlace'
    <2>1. UNCHANGED <<rebuild, doubtful>> /\ crossed \subseteq crossed'
          /\ (~Rebuilding => crossed' = crossed)
      BY DEF OtherRequest, Rebuilding
    <2>2. nextId' \in Nat /\ nextId <= nextId'
      BY DEF IInv, TypeOK
    <2> QED BY <1>3, <1>7, <1>8, <2>1, <2>2, OthersKeep
  <1> QED BY <1>2, <1>5, <1>6, <1>9 DEF IInv

\* What a request does, one action at a time.
LEMMA RequestStep ==
  ASSUME IInv, OutboxAssumption, NEW c \in Clients, OtherRequest(c)
  PROVE  IInv'
  <1>0. Request(c) /\ OneAtATime'
    BY DEF OtherRequest
  <1>1. CASE \E p \in Seats, new \in Roles \cup {None} : ReadMember(c, p, new)
    BY <1>1, ReadStep
  <1>2. CASE CommitMember(c)
    <2> DEFINE r == client[c]
    <2>1. r.stage = "read" /\ r.place \in Seats /\ r.new \in Roles \cup {None}
      BY <1>2, RequestStages DEF IInv, CommitMember
    <2>2. r.old = holder[r.place] /\ r.new # r.old
      BY <2>1 DEF IInv, RequestsCurrent
    <2>3. \A d \in Clients \ {c} : client[d] # Idle => PlaceOf(client[d]) # r.place
      BY <2>1 DEF IInv, RequestsCurrent, OneAtATime, PlaceOf, Idle
    <2>4. /\ holder' = [holder EXCEPT ![r.place] = r.new]
          /\ outbox' = outbox \cup QueuedFor(r.place, holder[r.place], r.new)
          /\ client' = [client EXCEPT ![c] = Answer(r.place, holder[r.place])]
          /\ nextId' = nextId + 2
          /\ UNCHANGED <<fga, drain, rebuild>>
      BY <1>2, <2>2 DEF CommitMember
    <2>5. r.place \in Places /\ r.place \notin Items /\ r.place \notin Links
      BY <2>1, OutboxAssumption DEF OutboxAssumption, Places
    <2>6. r.new \in Holders \cup {None}
      BY <2>1 DEF Holders
    <2> HIDE DEF r
    <2> QED BY <2>1, <2>2, <2>3, <2>4, <2>5, <2>6, CommitStep
  <1>3. CASE RollBack(c)
    BY <1>3, EndStep
  <1>4. CASE \E p \in Items, new \in Officers : TransferCustody(c, p, new)
    <2> SUFFICES ASSUME NEW p \in Items, NEW new \in Officers, TransferCustody(c, p, new)
                 PROVE  IInv'
      BY <1>4
    <2> USE DEF TransferCustody
    <2>1. p \in Places /\ p \notin Seats /\ p \notin Links
      BY OutboxAssumption DEF OutboxAssumption, Places
    <2>2. new \in Holders /\ new # None
      BY OutboxAssumption DEF OutboxAssumption, Holders
    <2>3. \A d \in Clients : client'[d] = IF d = c THEN Answer(p, holder[p]) ELSE client[d]
      BY DEF IInv, TypeOK
    <2>4. \A d \in Clients \ {c} : client[d] # Idle => PlaceOf(client[d]) # p
      <3> SUFFICES ASSUME NEW d \in Clients \ {c}, client[d] # Idle, PlaceOf(client[d]) = p
                   PROVE  FALSE
        OBVIOUS
      <3>1. CASE holder[p] = None
        <4>1. client[d].stage = "answering"
          BY <2>1, RequestStages DEF IInv, PlaceOf
        <4>2. client[d].tuple[1] = p
          BY <4>1 DEF PlaceOf
        <4> QED BY <4>1, <4>2, <3>1 DEF IInv, RequestsCurrent
      <3>2. CASE holder[p] # None
        <4>1. Answer(p, holder[p]) # Idle /\ PlaceOf(Answer(p, holder[p])) = p
          BY <3>2 DEF Answer, Idle, PlaceOf
        <4> QED BY <4>1, <2>3, <1>0 DEF OneAtATime
      <3> QED BY <3>1, <3>2
    <2> QED BY <2>1, <2>2, <2>4, CommitStep
  <1>5. CASE \E p \in Links, case \in Cases : RegisterEvidence(c, p, case)
    <2> SUFFICES ASSUME NEW p \in Links, NEW case \in Cases, RegisterEvidence(c, p, case)
                 PROVE  IInv'
      BY <1>5
    <2> USE DEF RegisterEvidence
    <2>1. p \in Places /\ p \notin Seats /\ p \notin Items
      BY OutboxAssumption DEF OutboxAssumption, Places
    <2>2. case \in Holders /\ case # None
      BY OutboxAssumption DEF OutboxAssumption, Holders
    <2>3. client' = [client EXCEPT ![c] = Answer(p, holder[p])]
      BY DEF Answer, IInv, TypeOK
    <2>4. \A d \in Clients \ {c} : client[d] # Idle => PlaceOf(client[d]) # p
      <3> SUFFICES ASSUME NEW d \in Clients \ {c}, client[d] # Idle
                   PROVE  PlaceOf(client[d]) \in Seats \cup Items
        BY <2>1
      <3>1. CASE client[d].stage = "read"
        BY <3>1, RequestStages DEF IInv, PlaceOf
      <3>2. CASE client[d].stage = "answering"
        BY <3>2, RequestStages DEF IInv, PlaceOf
      <3> QED BY <3>1, <3>2, RequestStages DEF IInv
    <2>5. outbox' = outbox \cup QueuedFor(p, holder[p], case)
      OBVIOUS
    <2> QED BY <2>1, <2>2, <2>3, <2>4, <2>5, CommitStep
  <1>6. CASE DeleteInline(c)
    BY <1>6, InlineStep
  <1> QED BY <1>0, <1>1, <1>2, <1>3, <1>4, <1>5, <1>6 DEF Request

-----------------------------------------------------------------------------
\* A step of the drain leaves Postgres, the requests and the rebuild alone.
LEMMA DrainFrame ==
  ASSUME IInv, OtherDrain
  PROVE  /\ UNCHANGED <<holder, nextId, client, rebuild, doubtful>>
         /\ Desired' = Desired /\ RequestsCurrent'
         /\ nextId' \in Nat /\ nextId <= nextId'
         /\ crossed \subseteq crossed' /\ (~Rebuilding => crossed' = crossed)
  <1>1. UNCHANGED <<holder, nextId, client, rebuild, doubtful>>
    BY DEF OtherDrain, Dispatcher, StartDrain, ApplyRow, FailRow, CommitDrain, CrashDrain
  <1>2. Desired' = Desired
    BY <1>1 DEF Desired
  <1>3. RequestsCurrent'
    BY <1>1, <1>2 DEF IInv, RequestsCurrent, OneAtATime
  <1>4. nextId' \in Nat /\ nextId <= nextId'
    BY <1>1 DEF IInv, TypeOK
  <1>5. crossed \subseteq crossed' /\ (~Rebuilding => crossed' = crossed)
    BY DEF OtherDrain, Rebuilding
  <1> QED BY <1>1, <1>2, <1>3, <1>4, <1>5

\* A step of the drain that gives the store nothing keeps all that is kept of each tuple.
LEMMA DrainKeeps ==
  ASSUME IInv, OtherDrain, UNCHANGED fga,
         \A P, t : Kept(t, P) => Kept(t, P)'
  PROVE  SoundKept' /\ RebuildInPlace'
  BY DrainFrame, OthersKeep

\* A drain starts with the first unmarked rows, in order.
LEMMA StartStep ==
  ASSUME IInv, OtherDrain, StartDrain
  PROVE  IInv'
  <1> USE DEF StartDrain
  <1>1. PICK batch \in SUBSET outbox :
          /\ IsFirst(batch, outbox)
          /\ drain' = [stage |-> "draining", batch |-> batch, marked |-> {}]
    OBVIOUS
  <1>2. TypeOK'
    BY <1>1 DEF IInv, TypeOK
  <1>3. DrainInPlace'
    BY <1>1 DEF DrainInPlace, IsFirst, Before
  <1>4. Desired' = Desired /\ RequestsCurrent'
    BY DrainFrame
  <1>5. ASSUME NEW P, NEW t, Kept(t, P)
        PROVE  Kept(t, P)'
    <2>1. Rest(t, P)' = Rest(t, P)
      BY DEF Rest
    <2>2. drain'.marked \subseteq drain.marked
      BY <1>1
    <2> QED BY <1>4, <1>5, <2>1, <2>2 DEF Kept, Last
  <1>6. SoundKept' /\ RebuildInPlace'
    BY <1>5, DrainKeeps
  <1> QED BY <1>2, <1>3, <1>4, <1>6 DEF IInv

\* Whatever the store makes of the row whose turn it is, it concerns that row's
\* tuple only, and that tuple still has an unmarked row.
LEMMA DueRow ==
  ASSUME IInv, NEW row \in Due, NEW store \in {fga, Applied(row, fga)}
  PROVE  /\ row \in outbox /\ row \notin drain.marked /\ row.tuple \in Tuples
         /\ store \subseteq Tuples
         /\ \A t \in Tuples : t # row.tuple => (t \in store <=> t \in fga)
         /\ \A x \in drain.batch \ drain.marked : x = row \/ row.id < x.id
  <1>1. row \in outbox /\ row \notin drain.marked /\ row \in Row /\ row \in drain.batch
    BY DEF Due, IInv, DrainInPlace, TypeOK
  <1>2. row.tuple \in Tuples
    BY <1>1 DEF Row
  <1>3. store \subseteq Tuples /\ \A t \in Tuples : t # row.tuple => (t \in store <=> t \in fga)
    BY <1>2 DEF Applied, IInv, TypeOK
  <1>4. \A x \in drain.batch \ drain.marked : x = row \/ row.id < x.id
    <2> SUFFICES ASSUME NEW x \in drain.batch \ drain.marked, x # row
                 PROVE  row.id < x.id
      OBVIOUS
    <2>1. x \in outbox /\ x.id \in Nat /\ row.id \in Nat
      BY <1>1 DEF IInv, DrainInPlace, TypeOK, Row
    <2>2. x.id # row.id
      BY <1>1, <2>1 DEF IInv, TypeOK
    <2> QED BY <2>1, <2>2 DEF Due
  <1> QED BY <1>1, <1>2, <1>3, <1>4

\* What a rebuild that has read the store is crossed about, when a row is due.
LEMMA CrossedRow ==
  ASSUME IInv, OtherDrain, NEW row \in Due, fga' # fga
  PROVE  /\ rebuild.stage = "write" => row.tuple \in crossed'
         /\ rebuild.stage = "supersede" /\ row \in rebuild.pending => row.tuple \in crossed'
  <1>1. row \in outbox
    BY DueRow
  <1> QED BY <1>1 DEF OtherDrain, Doomed

\* The store takes the row that is due.
LEMMA ApplyStep ==
  ASSUME IInv, OtherDrain, ApplyRow
  PROVE  IInv'
  <1> USE DEF ApplyRow
  <1>1. PICK row \in Due :
          /\ fga' = Applied(row, fga)
          /\ drain' = [drain EXCEPT !.marked = @ \cup {row}]
    OBVIOUS
  <1>2. /\ row \in outbox /\ row \notin drain.marked /\ row.tuple \in Tuples
        /\ fga' \subseteq Tuples
        /\ \A t \in Tuples : t # row.tuple => (t \in fga' <=> t \in fga)
        /\ \A x \in drain.batch \ drain.marked : x = row \/ row.id < x.id
    BY <1>1, DueRow
  <1>3. /\ drain'.stage = drain.stage /\ drain'.batch = drain.batch
        /\ drain'.marked = drain.marked \cup {row}
        /\ row \in drain.batch /\ row \in Row
    BY <1>1, <1>2 DEF IInv, TypeOK, Due
  <1>4. TypeOK'
    <2>1. drain' \in [stage : {"idle", "draining", "stopped"}, batch : SUBSET Row, marked : SUBSET Row]
      BY <1>1, <1>3 DEF IInv, TypeOK
    <2> QED BY <1>2, <1>3, <2>1 DEF IInv, TypeOK
  <1>5. DrainInPlace'
    <2>1. drain.stage = "draining"
      OBVIOUS
    <2> QED BY <2>1, <1>2, <1>3 DEF IInv, DrainInPlace
  <1>6. Desired' = Desired /\ RequestsCurrent'
    BY DrainFrame
  <1>7. ASSUME NEW P, NEW t \in Tuples, Kept(t, P),
               row \in P /\ row.tuple = t => fga' = fga
        PROVE  Kept(t, P)'
    <2>1. Rest(t, P)' = Rest(t, P)
      BY DEF Rest
    <2>2. ASSUME Rest(t, P) \subseteq drain.marked \cup {row}
          PROVE  t \in fga' <=> t \in Desired
      <3>1. CASE row \notin Rest(t, P)
        <4>1. Rest(t, P) \subseteq drain.marked
          BY <2>2, <3>1
        <4>2. t \in fga <=> t \in Desired
          BY <4>1, <1>7 DEF Kept
        <4>3. row \in P \/ row.tuple # t
          BY <3>1, <1>2 DEF Rest
        <4> QED BY <4>2, <4>3, <1>2, <1>7
      <3>2. CASE row \in Rest(t, P)
        <4>1. \A x \in Rest(t, P) : x.id \in Nat
          BY DEF Rest, IInv, TypeOK, Row
        <4>2. \A x \in drain.marked : x.id < row.id
          BY <1>2, <1>3 DEF IInv, DrainInPlace
        <4>3. row \in Last(Rest(t, P))
          BY <2>2, <3>2, <4>1, <4>2 DEF Last
        <4>4. row.op = "write" <=> t \in Desired
          BY <4>3, <1>7 DEF Kept
        <4>5. row.tuple = t
          BY <3>2 DEF Rest
        <4> QED BY <4>4, <4>5, <1>1 DEF Applied
      <3> QED BY <3>1, <3>2
    <2> QED BY <1>3, <1>6, <1>7, <2>1, <2>2 DEF Kept, Last
  <1>8. SoundKept' /\ RebuildInPlace'
    <2>1. \A t \in Tuples \ crossed' : Kept(t, {}) => Kept(t, {})'
      BY <1>7
    <2>2. rebuild.stage = "write" => \A t \in Tuples \ crossed' : t \in fga' <=> t \in fga
      BY <1>2, CrossedRow
    <2>3. rebuild.stage = "supersede" =>
            \A t \in Tuples \ crossed' : Kept(t, rebuild.pending) => Kept(t, rebuild.pending)'
      BY <1>7, CrossedRow
    <2> QED BY <2>1, <2>2, <2>3, <1>6, DrainFrame, OthersKeep
  <1> QED BY <1>4, <1>5, <1>6, <1>8 DEF IInv

\* The store refuses, and the drain keeps what it has done.
LEMMA FailStep ==
  ASSUME IInv, OtherDrain, FailRow
  PROVE  IInv'
  <1> USE DEF FailRow
  <1>1. PICK row \in Due :
          /\ fga' \in {fga, Applied(row, fga)}
          /\ drain' = [drain EXCEPT !.stage = "stopped"]
    OBVIOUS
  <1>2. /\ row \in outbox /\ row \notin drain.marked /\ row.tuple \in Tuples
        /\ fga' \subseteq Tuples
        /\ \A t \in Tuples : t # row.tuple => (t \in fga' <=> t \in fga)
    BY <1>1, DueRow
  <1>3. drain'.stage = "stopped" /\ drain'.batch = drain.batch /\ drain'.marked = drain.marked
    BY <1>1 DEF IInv, TypeOK
  <1>4. TypeOK'
    BY <1>1, <1>2, <1>3 DEF IInv, TypeOK
  <1>5. DrainInPlace'
    BY <1>3 DEF IInv, DrainInPlace
  <1>6. Desired' = Desired /\ RequestsCurrent'
    BY DrainFrame
  <1>7. ASSUME NEW P, NEW t \in Tuples, Kept(t, P),
               row \in P /\ row.tuple = t => fga' = fga
        PROVE  Kept(t, P)'
    <2>1. Rest(t, P)' = Rest(t, P)
      BY DEF Rest
    <2>2. Rest(t, P) \subseteq drain.marked => (t \in fga' <=> t \in fga)
      BY <1>2, <1>7 DEF Rest
    <2> QED BY <1>3, <1>6, <1>7, <2>1, <2>2 DEF Kept, Last
  <1>8. SoundKept' /\ RebuildInPlace'
    <2>1. \A t \in Tuples \ crossed' : Kept(t, {}) => Kept(t, {})'
      BY <1>7
    <2>2. rebuild.stage = "write" => \A t \in Tuples \ crossed' : t \in fga' <=> t \in fga
      BY <1>2, CrossedRow
    <2>3. rebuild.stage = "supersede" =>
            \A t \in Tuples \ crossed' : Kept(t, rebuild.pending) => Kept(t, rebuild.pending)'
      BY <1>7, CrossedRow
    <2> QED BY <2>1, <2>2, <2>3, <1>6, DrainFrame, OthersKeep
  <1> QED BY <1>4, <1>5, <1>6, <1>8 DEF IInv

\* The rows applied are marked; what they did, the store already shows.
LEMMA CommitDrainStep ==
  ASSUME IInv, OtherDrain, CommitDrain
  PROVE  IInv'
  <1> USE DEF CommitDrain
  <1>1. drain'.stage = "idle" /\ drain'.batch = {} /\ drain'.marked = {}
    BY DEF NoDrain
  <1>2. TypeOK'
    <2>1. drain' \in [stage : {"idle", "draining", "stopped"}, batch : SUBSET Row, marked : SUBSET Row]
      BY DEF NoDrain
    <2> QED BY <1>1, <2>1 DEF IInv, TypeOK
  <1>3. DrainInPlace'
    BY <1>1 DEF DrainInPlace
  <1>4. Desired' = Desired /\ RequestsCurrent'
    BY DrainFrame
  <1>5. \A x \in drain.marked, y \in outbox \ drain.marked : x.id < y.id
    BY DEF IInv, DrainInPlace
  <1>6. ASSUME NEW P, NEW t, Kept(t, P)
        PROVE  Kept(t, P)'
    <2>1. Rest(t, P)' = Rest(t, P) \ drain.marked
      BY DEF Rest
    <2>2. ASSUME NEW row \in Last(Rest(t, P) \ drain.marked)
          PROVE  row.op = "write" <=> t \in Desired
      <3>1. /\ row \in Rest(t, P) /\ row \notin drain.marked
            /\ \A x \in Rest(t, P) \ drain.marked : x.id <= row.id
        BY <2>2 DEF Last
      <3>2. \A x \in Rest(t, P) : x.id <= row.id
        <4>1. \A x \in Rest(t, P) : x.id \in Nat
          BY DEF Rest, IInv, TypeOK, Row
        <4>2. \A x \in drain.marked : x.id < row.id
          BY <1>5, <3>1 DEF Rest
        <4> QED BY <4>1, <4>2, <3>1
      <3>3. row \in Last(Rest(t, P))
        BY <3>1, <3>2 DEF Last
      <3> QED BY <3>3, <1>6 DEF Kept
    <2>3. Rest(t, P) \ drain.marked = {} => (t \in fga <=> t \in Desired)
      BY <1>6 DEF Kept
    <2>4. Last(Rest(t, P))' = Last(Rest(t, P) \ drain.marked)
      BY <2>1 DEF Last
    <2> QED BY <1>1, <1>4, <2>1, <2>2, <2>3, <2>4 DEF Kept
  <1>7. SoundKept' /\ RebuildInPlace'
    BY <1>6, DrainKeeps
  <1> QED BY <1>2, <1>3, <1>4, <1>7 DEF IInv

\* The rows applied and not marked are applied again later.
LEMMA CrashStep ==
  ASSUME IInv, OtherDrain, CrashDrain
  PROVE  IInv'
  <1> USE DEF CrashDrain
  <1>1. drain'.stage = "idle" /\ drain'.batch = {} /\ drain'.marked = {}
    BY DEF NoDrain
  <1>2. TypeOK'
    <2>1. drain' \in [stage : {"idle", "draining", "stopped"}, batch : SUBSET Row, marked : SUBSET Row]
      BY DEF NoDrain
    <2> QED BY <1>1, <2>1 DEF IInv, TypeOK
  <1>3. DrainInPlace'
    BY <1>1 DEF DrainInPlace
  <1>4. Desired' = Desired /\ RequestsCurrent'
    BY DrainFrame
  <1>5. ASSUME NEW P, NEW t, Kept(t, P)
        PROVE  Kept(t, P)'
    <2>1. Rest(t, P)' = Rest(t, P)
      BY DEF Rest
    <2> QED BY <1>1, <1>4, <1>5, <2>1 DEF Kept, Last
  <1>6. SoundKept' /\ RebuildInPlace'
    BY <1>5, DrainKeeps
  <1> QED BY <1>2, <1>3, <1>4, <1>6 DEF IInv
-----------------------------------------------------------------------------
\* A step of a rebuild leaves Postgres, the requests and the drain alone.
LEMMA RebuildFrame ==
  ASSUME IInv, RebuildOn
  PROVE  /\ UNCHANGED <<holder, nextId, client, drain>>
         /\ Desired' = Desired /\ RequestsCurrent'
         /\ rebuild \in [stage : {"idle", "read", "write", "supersede", "done"},
                         desired : SUBSET Tuples, writes : SUBSET Tuples,
                         deletes : SUBSET Tuples, pending : SUBSET Row]
  <1>1. UNCHANGED <<holder, nextId, client, drain>>
    BY DEF RebuildOn, Rebuild, ReadDesired, ReadStore, WriteMissing, DeleteStale,
       FailRebuild, ReadPending, Supersede
  <1>2. Desired' = Desired
    BY <1>1 DEF Desired
  <1>3. RequestsCurrent'
    BY <1>1, <1>2 DEF IInv, RequestsCurrent, OneAtATime
  <1> QED BY <1>1, <1>2, <1>3 DEF IInv, TypeOK

\* One that does not end yet leaves the queue alone, and puts no tuple in doubt: about
\* those it was not crossed about it gives the store only what Postgres implies.
LEMMA RebuildingKeeps ==
  ASSUME IInv, RebuildOn, UNCHANGED <<outbox, doubtful>>, crossed \subseteq crossed',
         \A t \in Tuples \ crossed :
           (t \in fga' <=> t \in fga) \/ (t \in fga' <=> t \in Desired)
  PROVE  DrainInPlace' /\ SoundKept'
  <1>1. UNCHANGED drain /\ Desired' = Desired
    BY RebuildFrame
  <1>2. DrainInPlace'
    BY <1>1 DEF IInv, DrainInPlace
  <1>3. SoundKept'
    <2> SUFFICES ASSUME NEW t \in Sound'
                 PROVE  Kept(t, {})'
      BY DEF SoundKept
    <2>1. t \in Sound /\ t \in Tuples \ crossed
      BY DEF Sound
    <2>2. Kept(t, {})
      BY <2>1 DEF IInv, SoundKept
    <2>3. Rest(t, {})' = Rest(t, {})
      BY DEF Rest
    <2> QED BY <1>1, <2>1, <2>2, <2>3 DEF Kept, Last
  <1> QED BY <1>2, <1>3

\* A rebuild, one step at a time.
LEMMA RebuildStep ==
  ASSUME IInv, OutboxAssumption, RebuildOn
  PROVE  IInv'
  <1>1. /\ Desired' = Desired /\ RequestsCurrent' /\ UNCHANGED <<holder, nextId, client, drain>>
        /\ rebuild \in [stage : {"idle", "read", "write", "supersede", "done"},
                        desired : SUBSET Tuples, writes : SUBSET Tuples,
                        deletes : SUBSET Tuples, pending : SUBSET Row]
        /\ fga \subseteq Tuples /\ Desired \subseteq Tuples /\ outbox \subseteq Row
    BY RebuildFrame DEF IInv, TypeOK, Desired
  <1>2. CASE ReadDesired
    <2> USE <1>2 DEF ReadDesired
    <2>1. rebuild' = [stage |-> "read", desired |-> Desired, writes |-> {}, deletes |-> {},
                      pending |-> {}]
      BY DEF NoRebuild
    <2>2. UNCHANGED <<crossed, doubtful>>
      BY <2>1 DEF RebuildOn
    <2>3. RebuildInPlace'
      BY <1>1, <2>1, <2>2 DEF RebuildInPlace, Rebuilding
    <2>4. TypeOK'
      BY <1>1, <2>1 DEF IInv, TypeOK
    <2> QED BY <1>1, <2>2, <2>3, <2>4, RebuildingKeeps DEF IInv
  <1>3. CASE ReadStore
    <2> USE <1>3 DEF ReadStore
    <2>1. /\ rebuild'.stage = "write" /\ rebuild'.desired = rebuild.desired
          /\ rebuild'.writes = rebuild.desired \ fga
          /\ rebuild'.deletes = fga \ rebuild.desired
      BY <1>1
    <2>2. UNCHANGED <<crossed, doubtful>>
      BY <2>1 DEF RebuildOn
    <2>3. RebuildInPlace'
      BY <1>1, <2>1, <2>2 DEF IInv, RebuildInPlace, Rebuilding
    <2>4. TypeOK'
      <3>1. rebuild.desired \ fga \in SUBSET Tuples /\ fga \ rebuild.desired \in SUBSET Tuples
        BY <1>1
      <3>2. rebuild' \in [stage : {"idle", "read", "write", "supersede", "done"},
                          desired : SUBSET Tuples, writes : SUBSET Tuples,
                          deletes : SUBSET Tuples, pending : SUBSET Row]
        BY ONLY <1>1, <3>1, ReadStore DEF ReadStore
      <3> QED BY <1>1, <3>2 DEF IInv, TypeOK
    <2> QED BY <1>1, <2>2, <2>3, <2>4, RebuildingKeeps DEF IInv
  <1>4. CASE WriteMissing
    <2> USE <1>4 DEF WriteMissing
    <2>1. PICK t \in rebuild.writes :
            /\ fga' = fga \cup {t}
            /\ rebuild' = [rebuild EXCEPT !.writes = @ \ {t}]
      OBVIOUS
    <2>2. /\ rebuild'.stage = "write" /\ rebuild'.desired = rebuild.desired
          /\ rebuild'.writes = rebuild.writes \ {t} /\ rebuild'.deletes = rebuild.deletes
      BY <1>1, <2>1
    <2>3. UNCHANGED <<crossed, doubtful>>
      BY <2>2 DEF RebuildOn
    <2>4. t \in Tuples /\ (t \notin crossed => t \in Desired)
      BY <1>1, <2>1 DEF IInv, RebuildInPlace
    <2>5. RebuildInPlace'
      BY <1>1, <2>1, <2>2, <2>3, <2>4 DEF IInv, RebuildInPlace, Rebuilding
    <2>6. TypeOK'
      BY <1>1, <2>1, <2>4 DEF IInv, TypeOK
    <2>7. \A u \in Tuples \ crossed :
            (u \in fga' <=> u \in fga) \/ (u \in fga' <=> u \in Desired)
      BY <2>1, <2>4
    <2> QED BY <1>1, <2>3, <2>5, <2>6, <2>7, RebuildingKeeps DEF IInv
  <1>5. CASE DeleteStale
    <2> USE <1>5 DEF DeleteStale
    <2>1. PICK t \in rebuild.deletes :
            /\ fga' = fga \ {t}
            /\ rebuild' = [rebuild EXCEPT !.deletes = @ \ {t}]
      OBVIOUS
    <2>2. /\ rebuild'.stage = "write" /\ rebuild'.desired = rebuild.desired
          /\ rebuild'.writes = rebuild.writes /\ rebuild'.deletes = rebuild.deletes \ {t}
      BY <1>1, <2>1
    <2>3. UNCHANGED <<crossed, doubtful>>
      BY <2>2 DEF RebuildOn
    <2>4. t \in Tuples /\ (t \notin crossed => t \notin Desired)
      BY <1>1, <2>1 DEF IInv, RebuildInPlace
    <2>5. RebuildInPlace'
      BY <1>1, <2>1, <2>2, <2>3, <2>4 DEF IInv, RebuildInPlace, Rebuilding
    <2>6. TypeOK'
      BY <1>1, <2>1, <2>4 DEF IInv, TypeOK
    <2>7. \A u \in Tuples \ crossed :
            (u \in fga' <=> u \in fga) \/ (u \in fga' <=> u \in Desired)
      BY <2>1, <2>4
    <2> QED BY <1>1, <2>3, <2>5, <2>6, <2>7, RebuildingKeeps DEF IInv
  <1>6. CASE FailRebuild
    <2> USE <1>6 DEF FailRebuild
    <2>1. rebuild' = [stage |-> "idle", desired |-> {}, writes |-> {}, deletes |-> {},
                      pending |-> {}]
      BY DEF NoRebuild
    <2>2. crossed' = {} /\ doubtful' = doubtful \cup crossed
      BY <2>1 DEF RebuildOn
    <2>3. RebuildInPlace'
      BY <2>1, <2>2 DEF RebuildInPlace, Rebuilding
    <2>4. TypeOK'
      BY <2>1 DEF IInv, TypeOK
    <2>5. DrainInPlace'
      BY <1>1 DEF IInv, DrainInPlace
    <2>6. Sound' = Sound
      BY <2>2 DEF Sound
    <2>7. \A t : Kept(t, {}) => Kept(t, {})'
      BY <1>1, KeptFrame
    <2>8. SoundKept'
      BY <2>6, <2>7 DEF IInv, SoundKept
    <2> QED BY <1>1, <2>3, <2>4, <2>5, <2>8 DEF IInv
  <1>7. CASE ReadPending
    <2> USE <1>7 DEF ReadPending
    <2>1. /\ rebuild'.stage = "supersede" /\ rebuild'.desired = rebuild.desired
          /\ rebuild'.pending = outbox
      BY <1>1
    <2>2. UNCHANGED <<crossed, doubtful>>
      BY <2>1 DEF RebuildOn
    <2>3. \A t \in Tuples \ crossed : t \in fga <=> t \in Desired
      BY DEF IInv, RebuildInPlace
    <2>4. \A t : Rest(t, rebuild.pending)' = {}
      BY <2>1 DEF Rest
    <2>5. \A t \in Tuples \ crossed : Kept(t, rebuild.pending)'
      BY <1>1, <2>3, <2>4 DEF Kept, Last
    <2>6. \A row \in rebuild'.pending : row.id < nextId'
      BY <1>1, <2>1 DEF IInv, TypeOK
    <2>7. RebuildInPlace'
      BY <2>1, <2>2, <2>5, <2>6 DEF RebuildInPlace, Rebuilding
    <2>8. TypeOK'
      BY <1>1 DEF IInv, TypeOK
    <2> QED BY <1>1, <2>2, <2>7, <2>8, RebuildingKeeps DEF IInv
  <1>8. CASE Supersede
    <2> USE <1>8 DEF Supersede
    <2>1. rebuild' = [stage |-> "done", desired |-> {}, writes |-> {}, deletes |-> {},
                      pending |-> {}]
      BY DEF NoRebuild
    <2>2. crossed' = {} /\ doubtful' = crossed
      BY <2>1 DEF RebuildOn
    <2>3. outbox' = outbox \ rebuild.pending /\ rebuild.pending \cap drain.batch = {}
      OBVIOUS
    <2>4. RebuildInPlace'
      BY <2>1, <2>2 DEF RebuildInPlace, Rebuilding
    <2>5. TypeOK'
      <3>1. rebuild' \in [stage : {"idle", "read", "write", "supersede", "done"},
                          desired : SUBSET Tuples, writes : SUBSET Tuples,
                          deletes : SUBSET Tuples, pending : SUBSET Row]
        <4>1. /\ {} \in SUBSET Tuples /\ {} \in SUBSET Row
              /\ "done" \in {"idle", "read", "write", "supersede", "done"}
          OBVIOUS
        <4> QED BY ONLY <2>1, <4>1
      <3> QED BY <1>1, <2>3, <3>1 DEF IInv, TypeOK
    <2>6. DrainInPlace'
      <3>1. drain.batch \subseteq outbox'
        BY <2>3 DEF IInv, DrainInPlace
      <3> QED BY <1>1, <2>3, <3>1 DEF IInv, DrainInPlace
    <2>7. SoundKept'
      <3> SUFFICES ASSUME NEW t \in Sound'
                   PROVE  Kept(t, {})'
        BY DEF SoundKept
      <3>1. t \in Tuples \ crossed
        BY <2>2 DEF Sound
      <3>2. Kept(t, rebuild.pending)
        BY <3>1 DEF IInv, RebuildInPlace
      <3>3. Rest(t, {})' = Rest(t, rebuild.pending)
        BY <2>3 DEF Rest
      <3>4. Last(Rest(t, {}))' = Last(Rest(t, rebuild.pending))
        BY <3>3 DEF Last
      <3> QED BY <1>1, <3>2, <3>3, <3>4 DEF Kept
    <2> QED BY <1>1, <2>4, <2>5, <2>6, <2>7 DEF IInv
  <1> QED BY <1>2, <1>3, <1>4, <1>5, <1>6, <1>7, <1>8 DEF RebuildOn, Rebuild

\* The invariant is inductive.
LEMMA StepInv ==
  ASSUME IInv, OutboxAssumption, [ProjectionNext]_projectionVars
  PROVE  IInv'
  <1>1. CASE UNCHANGED projectionVars
    <2>1. TypeOK'
      BY <1>1 DEF IInv, TypeOK, projectionVars, vars
    <2>2. Desired' = Desired /\ DrainInPlace' /\ SoundKept' /\ RebuildInPlace'
      BY <1>1, OthersFrame DEF projectionVars, vars
    <2>3. RequestsCurrent'
      BY <1>1, <2>2 DEF IInv, RequestsCurrent, OneAtATime, projectionVars, vars
    <2> QED BY <2>1, <2>2, <2>3 DEF IInv
  <1>2. CASE OtherDrain
    BY <1>2, StartStep, ApplyStep, FailStep, CommitDrainStep, CrashStep DEF OtherDrain, Dispatcher
  <1>3. CASE RebuildOn
    BY <1>3, RebuildStep
  <1>4. CASE \E c \in Clients : OtherRequest(c)
    BY <1>4, RequestStep
  <1> QED BY <1>1, <1>2, <1>3, <1>4 DEF ProjectionNext
-----------------------------------------------------------------------------
(***************************************************************************)
(* What keeps two roles of a seat from being in the store at once: the     *)
(* rows the drain has still to apply, read in their order, delete a tuple  *)
(* of a place before they write another, whatever of them the store has    *)
(* seen already (a row that failed may have had its effect).  K is the set *)
(* of tuples this is said of, P the rows a rebuild is about to supersede.  *)
(***************************************************************************)
Left == outbox \ drain.marked
Writes(row, t) == row.op = "write" /\ row.tuple = t
Deletes(row, t) == row.op = "delete" /\ row.tuple = t
Rivals(t, u) == t[1] = u[1] /\ t # u

\* At most one holder of a place is in the store ...
OneHolderStored(K) ==
  \A t, u \in K : Rivals(t, u) => ~(t \in fga /\ u \in fga)

\* ... the one that is in it leaves before another is written ...
StoredLeavesFirst(K, P) ==
  \A t, u \in K : Rivals(t, u) /\ t \in fga =>
    \A w \in Left \ P : Writes(w, u) => \E d \in Left \ P : Deletes(d, t) /\ d.id < w.id

\* ... and so does one that is still to be written ...
WrittenLeavesFirst(K, P) ==
  \A t, u \in K : Rivals(t, u) =>
    \A x, w \in Left \ P : Writes(x, t) /\ Writes(w, u) /\ x.id < w.id =>
      \E d \in Left \ P : Deletes(d, t) /\ x.id < d.id /\ d.id < w.id

\* ... and who holds nothing leaves in the end.
StrangersLeave(K, P) ==
  \A t \in K \ Desired :
    /\ t \in fga => \E d \in Left \ P : Deletes(d, t)
    /\ \A x \in Left \ P : Writes(x, t) => \E d \in Left \ P : Deletes(d, t) /\ x.id < d.id

InTurn(K, P) ==
  /\ OneHolderStored(K) /\ StoredLeavesFirst(K, P)
  /\ WrittenLeavesFirst(K, P) /\ StrangersLeave(K, P)

TurnInv ==
  /\ IInv
  /\ crashes \in Nat /\ rebuilds \in Nat
  /\ rebuilds = 0 => rebuild.stage = "idle"
  /\ Undisturbed => InTurn(Sound, {})
  /\ crashes = 0 /\ rebuild.stage = "supersede" => InTurn(Tuples \ crossed, rebuild.pending)

\* The rows that are left are typed, numbered apart, and come after those that are marked.
LEMMA LeftRows ==
  ASSUME IInv
  PROVE  /\ Left \subseteq Row /\ Left \subseteq outbox
         /\ \A x \in Left : x.id \in Nat /\ x.id < nextId
         /\ \A x, y \in Left : x.id = y.id => x = y
  BY DEF IInv, TypeOK, Left, Row

\* A step that leaves Postgres and the rows to apply as they are, gives the store
\* nothing of what the turns are said of, and says them of no more tuples keeps them.
LEMMA TurnFrame ==
  ASSUME NEW K, NEW J, J \subseteq K, NEW P, InTurn(K, P),
         Left' \ P = Left \ P, Desired' = Desired, \A t \in J : t \in fga' => t \in fga
  PROVE  InTurn(J, P)'
  <1>1. OneHolderStored(J)'
    BY DEF InTurn, OneHolderStored, Rivals
  <1>2. StoredLeavesFirst(J, P)'
    BY DEF InTurn, StoredLeavesFirst, Rivals, Writes, Deletes
  <1>3. WrittenLeavesFirst(J, P)'
    BY DEF InTurn, WrittenLeavesFirst, Rivals, Writes, Deletes
  <1>4. StrangersLeave(J, P)'
    BY DEF InTurn, StrangersLeave, Writes, Deletes
  <1> QED BY <1>1, <1>2, <1>3, <1>4 DEF InTurn

\* The row whose turn it is comes before every other that is left.
LEMMA DueIsFirst ==
  ASSUME IInv, NEW row \in Due
  PROVE  /\ row \in Left /\ row.tuple \in Tuples /\ row.op \in {"write", "delete"}
         /\ \A x \in Left : x = row \/ row.id < x.id
  <1>1. /\ row \in outbox /\ row \notin drain.marked /\ row.tuple \in Tuples
        /\ \A x \in drain.batch \ drain.marked : x = row \/ row.id < x.id
    BY DueRow
  <1>2. row \in drain.batch
    BY DEF Due
  <1>3. \A y \in outbox \ drain.batch : row.id < y.id
    BY <1>2 DEF IInv, DrainInPlace
  <1>4. row \in Row
    BY <1>1 DEF IInv, TypeOK
  <1> QED BY <1>1, <1>3, <1>4 DEF Left, Row

\* The store does what the row that is due says, whether or not it is marked, and the
\* row is none of those a rebuild will supersede.
LEMMA TurnTaken ==
  ASSUME IInv, NEW K, K \subseteq Tuples, NEW P, InTurn(K, P), NEW row \in Due, row \notin P,
         Desired' = Desired,
         fga' \in {fga, Applied(row, fga)},
         Left' = Left \/ (Left' = Left \ {row} /\ fga' = Applied(row, fga))
  PROVE  InTurn(K, P)'
  <1> DEFINE L == Left \ P
             M == Left' \ P
  <1>1. /\ row \in L /\ row.tuple \in Tuples /\ row.op \in {"write", "delete"}
        /\ \A x \in L : x = row \/ row.id < x.id
    BY DueIsFirst
  <1>2. \A x \in L : x.id \in Nat
    BY LeftRows
  <1>3. \A t \in fga' : t \in fga \/ Writes(row, t)
    BY <1>1 DEF Applied, Writes
  <1>4. \A t, u \in K : Rivals(t, u) <=> Rivals(u, t)
    BY DEF Rivals
  <1>5. M = L \/ (M = L \ {row} /\ fga' = Applied(row, fga))
    OBVIOUS
  <1>6. /\ \A t, u \in K : Rivals(t, u) => ~(t \in fga /\ u \in fga)
        /\ \A t, u \in K : Rivals(t, u) /\ t \in fga =>
             \A w \in L : Writes(w, u) => \E d \in L : Deletes(d, t) /\ d.id < w.id
        /\ \A t, u \in K : Rivals(t, u) =>
             \A x, w \in L : Writes(x, t) /\ Writes(w, u) /\ x.id < w.id =>
               \E d \in L : Deletes(d, t) /\ x.id < d.id /\ d.id < w.id
        /\ \A t \in K \ Desired :
             /\ t \in fga => \E d \in L : Deletes(d, t)
             /\ \A x \in L : Writes(x, t) => \E d \in L : Deletes(d, t) /\ x.id < d.id
    BY DEF InTurn, OneHolderStored, StoredLeavesFirst, WrittenLeavesFirst, StrangersLeave
  <1> HIDE DEF L, M
  \* What is in the store when a rival is written has left before.
  <1>7. row.op = "write" => \A t \in K : row.tuple \in K /\ Rivals(t, row.tuple) => t \notin fga
    BY <1>1, <1>2, <1>6 DEF Writes
  <1>8. ASSUME NEW t \in K, NEW u \in K, Rivals(t, u), t \in fga', u \in fga'
        PROVE  FALSE
    <2>1. CASE t \in fga /\ u \in fga
      BY <2>1, <1>6, <1>8
    <2>2. CASE Writes(row, t)
      BY <2>2, <1>3, <1>4, <1>7, <1>8 DEF Writes, Rivals
    <2>3. CASE Writes(row, u)
      BY <2>3, <1>3, <1>4, <1>7, <1>8 DEF Writes, Rivals
    <2> QED BY <2>1, <2>2, <2>3, <1>3, <1>8
  \* The delete of what is in the store after the step is not the row just applied.
  <1>9. ASSUME NEW t, t \in fga', NEW d \in L, Deletes(d, t)
        PROVE  d \in M
    BY <1>5, <1>9 DEF Applied, Deletes
  <1>10. \A w \in M : w \in L
    BY <1>5
  <1>11. ASSUME NEW t \in K, NEW u \in K, Rivals(t, u), t \in fga',
                NEW w \in M, Writes(w, u)
         PROVE  \E d \in M : Deletes(d, t) /\ d.id < w.id
    <2>1. CASE t \in fga
      <3>1. PICK d \in L : Deletes(d, t) /\ d.id < w.id
        BY <2>1, <1>6, <1>10, <1>11
      <3> QED BY <3>1, <1>9, <1>11
    <2>2. CASE Writes(row, t)
      <3>1. w # row
        BY <2>2, <1>11 DEF Writes, Rivals
      <3>2. row.id < w.id
        BY <3>1, <1>1, <1>10
      <3>3. PICK d \in L : Deletes(d, t) /\ row.id < d.id /\ d.id < w.id
        BY <2>2, <3>2, <1>1, <1>6, <1>10, <1>11
      <3> QED BY <3>3, <1>9, <1>11
    <2> QED BY <2>1, <2>2, <1>3, <1>11
  <1>12. ASSUME NEW t \in K, NEW u \in K, Rivals(t, u), NEW x \in M,
                NEW w \in M, Writes(x, t), Writes(w, u), x.id < w.id
         PROVE  \E d \in M : Deletes(d, t) /\ x.id < d.id /\ d.id < w.id
    <2>1. PICK d \in L : Deletes(d, t) /\ x.id < d.id /\ d.id < w.id
      BY <1>6, <1>10, <1>12
    <2>2. d # row
      BY <2>1, <1>1, <1>2, <1>10
    <2> QED BY <2>1, <2>2, <1>5
  <1>13. ASSUME NEW t \in K \ Desired
         PROVE  /\ t \in fga' => \E d \in M : Deletes(d, t)
                /\ \A x \in M : Writes(x, t) => \E d \in M : Deletes(d, t) /\ x.id < d.id
    <2>1. ASSUME t \in fga' PROVE \E d \in M : Deletes(d, t)
      <3>1. PICK d \in L : Deletes(d, t)
        BY <2>1, <1>1, <1>3, <1>6
      <3> QED BY <2>1, <3>1, <1>9
    <2>2. ASSUME NEW x \in M, Writes(x, t)
          PROVE  \E d \in M : Deletes(d, t) /\ x.id < d.id
      <3>1. PICK d \in L : Deletes(d, t) /\ x.id < d.id
        BY <2>2, <1>6, <1>10
      <3>2. d # row
        BY <3>1, <1>1, <1>2, <1>10
      <3> QED BY <3>1, <3>2, <1>5
    <2> QED BY <2>1, <2>2
  <1>14. OneHolderStored(K)'
    BY <1>8 DEF OneHolderStored, Rivals
  <1>15. StoredLeavesFirst(K, P)'
    BY <1>11 DEF StoredLeavesFirst, Rivals, Writes, Deletes, M
  <1>16. WrittenLeavesFirst(K, P)'
    BY <1>12 DEF WrittenLeavesFirst, Rivals, Writes, Deletes, M
  <1>17. StrangersLeave(K, P)'
    BY <1>13 DEF StrangersLeave, Writes, Deletes, M
  <1> QED BY <1>14, <1>15, <1>16, <1>17 DEF InTurn

\* A transaction queues the delete of the old tuple before the write of the new one.
LEMMA TurnChange ==
  ASSUME IInv, OutboxAssumption, NEW K, K \subseteq Tuples, NEW P,
         \A row \in P : row.id < nextId, InTurn(K, P),
         NEW p \in Places, NEW new \in Holders \cup {None},
         new # holder[p],
         holder' = [holder EXCEPT ![p] = new],
         outbox' = outbox \cup QueuedFor(p, holder[p], new),
         nextId' = nextId + 2,
         UNCHANGED <<fga, drain, rebuild>>
  PROVE  InTurn(K, P)'
  <1> DEFINE old == holder[p]
             fresh == QueuedFor(p, old, new)
             L == Left \ P
             M == Left' \ P
  <1>1. old \in Holders \cup {None} /\ nextId \in Nat
    BY DEF IInv, TypeOK
  <1>2. /\ \A row \in fresh :
              /\ row.id \in {nextId, nextId + 1}
              /\ row.id = nextId => old # None /\ row.op = "delete" /\ row.tuple = <<p, old>>
              /\ row.id = nextId + 1 => new # None /\ row.op = "write" /\ row.tuple = <<p, new>>
        /\ old # None => \E d \in fresh : d.tuple = <<p, old>>
    BY <1>1, QueuedRows DEF IInv
  <1> HIDE DEF fresh
  <1>3. L \subseteq M /\ M \subseteq L \cup fresh /\ fresh \subseteq M
    <2>1. \A row \in fresh : row \notin outbox /\ row \notin P
      BY <1>1, <1>2 DEF IInv, TypeOK, Row
    <2>2. drain.marked \subseteq outbox
      BY DEF IInv, DrainInPlace
    <2> QED BY <2>1, <2>2 DEF Left, fresh
  <1>4. \A x \in L : x.id \in Nat /\ x.id < nextId
    BY LeftRows
  <1>5. \A t \in K : t \in Desired' <=> (IF t[1] = p THEN t[2] = new ELSE t \in Desired)
    BY DEF Desired, Tuples, IInv, TypeOK
  <1>6. \A t \in K : t = <<t[1], t[2]>> /\ t[2] \in Holders /\ t[2] # None
    BY OutboxAssumption DEF Tuples, OutboxAssumption
  <1>7. /\ \A t, u \in K : Rivals(t, u) => ~(t \in fga /\ u \in fga)
        /\ \A t, u \in K : Rivals(t, u) /\ t \in fga =>
             \A w \in L : Writes(w, u) => \E d \in L : Deletes(d, t) /\ d.id < w.id
        /\ \A t, u \in K : Rivals(t, u) =>
             \A x, w \in L : Writes(x, t) /\ Writes(w, u) /\ x.id < w.id =>
               \E d \in L : Deletes(d, t) /\ x.id < d.id /\ d.id < w.id
        /\ \A t \in K \ Desired :
             /\ t \in fga => \E d \in L : Deletes(d, t)
             /\ \A x \in L : Writes(x, t) => \E d \in L : Deletes(d, t) /\ x.id < d.id
    BY DEF InTurn, OneHolderStored, StoredLeavesFirst, WrittenLeavesFirst, StrangersLeave
  <1>8. \A t \in K : t[1] = p /\ t[2] # old => t \notin Desired
    BY DEF Desired
  <1> HIDE DEF L, M
  \* Once the change is queued, any other tuple of the place has a delete to come.
  <1>9. ASSUME NEW t \in K, t[1] = p, t[2] # new
        PROVE  /\ t \in fga => \E d \in M : Deletes(d, t) /\ d.id < nextId + 1
               /\ \A x \in M : Writes(x, t) =>
                    \E d \in M : Deletes(d, t) /\ x.id < d.id /\ d.id < nextId + 1
    <2>1. CASE t[2] = old
      <3>1. t = <<p, old>> /\ old # None
        BY <1>6, <1>9, <2>1
      <3>2. PICK d \in fresh : d.tuple = <<p, old>>
        BY <3>1, <1>2
      <3>3. d.id = nextId /\ d.op = "delete"
        BY <3>1, <3>2, <1>2, <1>9
      <3>4. \A x \in M : Writes(x, t) => x \in L
        BY <1>2, <1>3, <1>9, <3>1 DEF Writes
      <3> QED BY <3>1, <3>2, <3>3, <3>4, <1>1, <1>3, <1>4 DEF Deletes
    <2>2. CASE t[2] # old
      <3>1. t \in K \ Desired
        BY <1>8, <1>9, <2>2
      <3>2. \A x \in M : Writes(x, t) => x \in L
        BY <1>2, <1>3, <1>9, <1>6 DEF Writes
      <3> QED BY <3>1, <3>2, <1>1, <1>3, <1>4, <1>7
    <2> QED BY <2>1, <2>2
  \* A rival's write that is added is that of the new holder.
  <1>10. \A u, w : w \in fresh /\ Writes(w, u) => u = <<p, new>> /\ w.id = nextId + 1
    BY <1>1, <1>2 DEF Writes
  <1>11. ASSUME NEW t \in K, NEW u \in K, Rivals(t, u), t \in fga, NEW w \in M, Writes(w, u)
         PROVE  \E d \in M : Deletes(d, t) /\ d.id < w.id
    <2>1. CASE w \in L
      BY <2>1, <1>3, <1>7, <1>11
    <2>2. CASE w \in fresh
      <3>1. t[1] = p /\ t[2] # new
        BY <2>2, <1>6, <1>10, <1>11 DEF Rivals
      <3> QED BY <2>2, <3>1, <1>9, <1>10, <1>11
    <2> QED BY <2>1, <2>2, <1>3
  <1>12. ASSUME NEW t \in K, NEW u \in K, Rivals(t, u), NEW x \in M, NEW w \in M,
                Writes(x, t), Writes(w, u), x.id < w.id
         PROVE  \E d \in M : Deletes(d, t) /\ x.id < d.id /\ d.id < w.id
    <2>1. CASE w \in L
      <3>1. x \in L
        BY <2>1, <1>1, <1>3, <1>4, <1>2, <1>12
      <3> QED BY <2>1, <3>1, <1>3, <1>7, <1>12
    <2>2. CASE w \in fresh
      <3>1. t[1] = p /\ t[2] # new
        BY <2>2, <1>6, <1>10, <1>12 DEF Rivals
      <3> QED BY <2>2, <3>1, <1>9, <1>10, <1>12
    <2> QED BY <2>1, <2>2, <1>3
  <1>13. ASSUME NEW t \in K, t \notin Desired'
         PROVE  /\ t \in fga => \E d \in M : Deletes(d, t)
                /\ \A x \in M : Writes(x, t) => \E d \in M : Deletes(d, t) /\ x.id < d.id
    <2>1. CASE t[1] = p
      BY <2>1, <1>5, <1>9, <1>13
    <2>2. CASE t[1] # p
      <3>1. t \in K \ Desired
        BY <2>2, <1>5, <1>13
      <3>2. \A x \in M : Writes(x, t) => x \in L
        BY <2>2, <1>3, <1>10
      <3> QED BY <3>1, <3>2, <1>3, <1>7
    <2> QED BY <2>1, <2>2
  <1>14. OneHolderStored(K)'
    BY <1>7 DEF OneHolderStored, Rivals
  <1>15. StoredLeavesFirst(K, P)'
    BY <1>11 DEF StoredLeavesFirst, Rivals, Writes, Deletes, M
  <1>16. WrittenLeavesFirst(K, P)'
    BY <1>12 DEF WrittenLeavesFirst, Rivals, Writes, Deletes, M
  <1>17. StrangersLeave(K, P)'
    BY <1>13 DEF StrangersLeave, Writes, Deletes, M
  <1> QED BY <1>14, <1>15, <1>16, <1>17 DEF InTurn

\* The turns of fewer tuples.
LEMMA TurnFewer ==
  ASSUME NEW K, NEW J, J \subseteq K, NEW P, InTurn(K, P)
  PROVE  InTurn(J, P)
  BY DEF InTurn, OneHolderStored, StoredLeavesFirst, WrittenLeavesFirst, StrangersLeave

\* A request between its statements leaves the store as it is or takes a tuple from it.
LEMMA TurnRequest ==
  ASSUME IInv, OutboxAssumption, NEW c \in Clients, Request(c),
         NEW K, K \subseteq Tuples, NEW P, \A row \in P : row.id < nextId, InTurn(K, P)
  PROVE  InTurn(K, P)'
  <1>1. CASE \E p \in Seats, new \in Roles \cup {None} : ReadMember(c, p, new)
    BY <1>1, TurnFrame DEF ReadMember, Left, Desired
  <1>2. CASE CommitMember(c)
    <2> DEFINE r == client[c]
    <2>1. r.stage = "read" /\ r.place \in Seats /\ r.new \in Roles \cup {None}
      BY <1>2, RequestStages DEF IInv, CommitMember
    <2>2. r.old = holder[r.place] /\ r.new # r.old
      BY <2>1 DEF IInv, RequestsCurrent
    <2>3. r.place \in Places /\ r.new \in Holders \cup {None}
      BY <2>1 DEF Places, Holders
    <2>4. /\ holder' = [holder EXCEPT ![r.place] = r.new]
          /\ outbox' = outbox \cup QueuedFor(r.place, holder[r.place], r.new)
          /\ nextId' = nextId + 2
          /\ UNCHANGED <<fga, drain, rebuild>>
      BY <1>2, <2>2 DEF CommitMember
    <2> HIDE DEF r
    <2> QED BY <2>2, <2>3, <2>4, TurnChange
  <1>3. CASE RollBack(c)
    BY <1>3, TurnFrame DEF RollBack, Left, Desired
  <1>4. CASE \E p \in Items, new \in Officers : TransferCustody(c, p, new)
    BY <1>4, TurnChange DEF TransferCustody, Places, Holders
  <1>5. CASE \E p \in Links, case \in Cases : RegisterEvidence(c, p, case)
    <2> SUFFICES ASSUME NEW p \in Links, NEW case \in Cases, RegisterEvidence(c, p, case)
                 PROVE  InTurn(K, P)'
      BY <1>5
    <2>1. case # None
      BY OutboxAssumption DEF OutboxAssumption, Holders
    <2> QED BY <2>1, TurnChange DEF RegisterEvidence, Places, Holders
  <1>6. CASE DeleteInline(c)
    BY <1>6, TurnFrame DEF DeleteInline, Left, Desired
  <1> QED BY <1>1, <1>2, <1>3, <1>4, <1>5, <1>6 DEF Request

\* A drain that does not crash takes the rows in their order.  Of a row in P it may
\* make something only for a tuple that is not in K.
LEMMA TurnDispatcher ==
  ASSUME IInv, Dispatcher, ~CrashDrain, NEW K, K \subseteq Tuples, NEW P, InTurn(K, P),
         \A row \in Due \cap P : row.tuple \in K => fga' = fga
  PROVE  InTurn(K, P)'
  <1>1. CASE StartDrain
    <2>1. drain.marked = {} /\ drain'.marked = {}
      BY <1>1 DEF StartDrain, IInv, DrainInPlace
    <2> QED BY <1>1, <2>1, TurnFrame DEF StartDrain, Left, Desired
  <1>2. ASSUME NEW row \in Due, Desired' = Desired, fga' \in {fga, Applied(row, fga)},
               Left' = Left \/ (Left' = Left \ {row} /\ fga' = Applied(row, fga))
        PROVE  InTurn(K, P)'
    <2>1. CASE row \notin P
      BY <1>2, <2>1, TurnTaken
    <2>2. CASE row \in P
      <3>1. Left' \ P = Left \ P
        BY <1>2, <2>2
      <3>2. \A t \in K : t \in fga' => t \in fga
        BY <1>2, <2>2, DueRow
      <3> QED BY <1>2, <3>1, <3>2, TurnFrame
    <2> QED BY <2>1, <2>2
  <1>3. CASE ApplyRow
    <2>1. PICK row \in Due : /\ fga' = Applied(row, fga)
                             /\ drain' = [drain EXCEPT !.marked = @ \cup {row}]
      BY <1>3 DEF ApplyRow
    <2>2. Left' = Left \ {row}
      BY <1>3, <2>1 DEF ApplyRow, Left, IInv, TypeOK
    <2>3. Desired' = Desired
      BY <1>3 DEF ApplyRow, Desired
    <2> QED BY <2>1, <2>2, <2>3, <1>2
  <1>4. CASE FailRow
    <2>1. PICK row \in Due : /\ fga' \in {fga, Applied(row, fga)}
                             /\ drain' = [drain EXCEPT !.stage = "stopped"]
      BY <1>4 DEF FailRow
    <2>2. Left' = Left
      BY <1>4, <2>1 DEF FailRow, Left, IInv, TypeOK
    <2>3. Desired' = Desired
      BY <1>4 DEF FailRow, Desired
    <2> QED BY <2>1, <2>2, <2>3, <1>2
  <1>5. CASE CommitDrain
    <2>1. Left' = Left
      BY <1>5 DEF CommitDrain, NoDrain, Left
    <2> QED BY <1>5, <2>1, TurnFrame DEF CommitDrain, Desired
  <1> QED BY <1>1, <1>3, <1>4, <1>5 DEF Dispatcher

\* A rebuild that has read the queue has made the store equal to Postgres, about what it
\* was not crossed about, and the rows it read no longer count.
LEMMA TurnRebuild ==
  ASSUME TurnInv, RebuildOn
  PROVE  /\ rebuilds' \in Nat
         /\ rebuilds' = 0 => rebuild'.stage = "idle"
         /\ Undisturbed' => InTurn(Sound, {})'
         /\ crashes' = 0 /\ rebuild'.stage = "supersede" =>
              InTurn(Tuples \ crossed, rebuild.pending)'
  <1>1. Desired' = Desired /\ UNCHANGED drain /\ crashes' = crashes
    BY RebuildFrame DEF TurnInv, RebuildOn, Rebuild, ReadDesired, ReadStore, WriteMissing,
       DeleteStale, FailRebuild, ReadPending, Supersede
  <1>2. rebuild \in [stage : {"idle", "read", "write", "supersede", "done"},
                     desired : SUBSET Tuples, writes : SUBSET Tuples,
                     deletes : SUBSET Tuples, pending : SUBSET Row]
    BY DEF TurnInv, IInv, TypeOK
  <1>3. CASE ReadDesired
    <2>1. rebuild'.stage = "read" /\ rebuilds' # 0 /\ rebuilds' \in Nat
      BY <1>3 DEF TurnInv, ReadDesired, NoRebuild
    <2> QED BY <2>1 DEF Undisturbed
  <1>4. CASE ReadStore \/ WriteMissing \/ DeleteStale \/ FailRebuild
    <2>1. rebuilds' = rebuilds /\ rebuild.stage # "idle"
      BY <1>4 DEF ReadStore, WriteMissing, DeleteStale, FailRebuild
    <2>2. rebuild'.stage \in {"write", "idle"}
      <3>1. CASE ReadStore
        BY <1>2, <3>1 DEF ReadStore
      <3>2. CASE WriteMissing
        BY <1>2, <3>2 DEF WriteMissing
      <3>3. CASE DeleteStale
        BY <1>2, <3>3 DEF DeleteStale
      <3>4. CASE FailRebuild
        BY <3>4 DEF FailRebuild, NoRebuild
      <3> QED BY <1>4, <3>1, <3>2, <3>3, <3>4
    <2> QED BY <2>1, <2>2 DEF TurnInv, Undisturbed
  <1>5. CASE ReadPending
    <2>1. /\ rebuilds' = rebuilds /\ rebuild.stage = "write" /\ rebuild'.stage = "supersede"
          /\ rebuild'.pending = outbox /\ fga' = fga /\ outbox' = outbox
      BY <1>2, <1>5 DEF ReadPending
    <2>2. crossed' = crossed
      BY <2>1 DEF RebuildOn
    <2>3. \A t \in Tuples \ crossed : t \in fga <=> t \in Desired
      BY <1>5 DEF ReadPending, TurnInv, IInv, RebuildInPlace
    <2>4. Left' \ rebuild'.pending = {}
      BY <2>1 DEF Left
    <2>5. OneHolderStored(Tuples \ crossed)'
      BY <2>1, <2>2, <2>3 DEF OneHolderStored, Rivals, Desired, Tuples
    <2>6. /\ StoredLeavesFirst(Tuples \ crossed, rebuild.pending)'
          /\ WrittenLeavesFirst(Tuples \ crossed, rebuild.pending)'
      BY <2>4 DEF StoredLeavesFirst, WrittenLeavesFirst
    <2>7. StrangersLeave(Tuples \ crossed, rebuild.pending)'
      BY <1>1, <2>1, <2>2, <2>3, <2>4 DEF StrangersLeave
    <2> QED BY <2>1, <2>5, <2>6, <2>7 DEF TurnInv, InTurn, Undisturbed
  <1>6. CASE Supersede
    <2>1. /\ rebuilds' = rebuilds /\ rebuild.stage = "supersede" /\ rebuild'.stage = "done"
          /\ fga' = fga /\ outbox' = outbox \ rebuild.pending
      BY <1>6 DEF Supersede, NoRebuild
    <2>2. Sound' = Tuples \ crossed
      BY <2>1 DEF RebuildOn, Sound
    <2>3. Left' = Left \ rebuild.pending
      BY <1>1, <2>1 DEF Left
    <2>4. InTurn(Tuples \ crossed, rebuild.pending) => InTurn(Sound, {})'
      <3>1. OneHolderStored(Tuples \ crossed) => OneHolderStored(Sound)'
        BY <2>1, <2>2 DEF OneHolderStored
      <3>2. StoredLeavesFirst(Tuples \ crossed, rebuild.pending) => StoredLeavesFirst(Sound, {})'
        BY <2>1, <2>2, <2>3 DEF StoredLeavesFirst, Writes, Deletes
      <3>3. WrittenLeavesFirst(Tuples \ crossed, rebuild.pending) => WrittenLeavesFirst(Sound, {})'
        BY <2>2, <2>3 DEF WrittenLeavesFirst, Writes, Deletes
      <3>4. StrangersLeave(Tuples \ crossed, rebuild.pending) => StrangersLeave(Sound, {})'
        BY <1>1, <2>1, <2>2, <2>3 DEF StrangersLeave, Writes, Deletes
      <3> QED BY <3>1, <3>2, <3>3, <3>4 DEF InTurn
    <2> QED BY <1>1, <2>1, <2>4 DEF TurnInv, Undisturbed
  <1> QED BY <1>3, <1>4, <1>5, <1>6 DEF RebuildOn, Rebuild

\* The turns are kept by every step.
LEMMA TurnStep ==
  ASSUME TurnInv, OutboxAssumption, [ProjectionNext]_projectionVars
  PROVE  TurnInv'
  <1> USE DEF TurnInv
  <1>1. IInv'
    BY StepInv
  <1>2. ASSUME NEW K, NEW P, InTurn(K, P), UNCHANGED vars
        PROVE  InTurn(K, P)'
    BY <1>2, TurnFrame DEF vars, Left, Desired
  <1>3. CASE UNCHANGED projectionVars
    <2>1. UNCHANGED vars /\ Sound' = Sound /\ Undisturbed' = Undisturbed
          /\ UNCHANGED <<crossed, rebuild, crashes, rebuilds>>
      BY <1>3 DEF projectionVars, vars, Sound, Undisturbed
    <2>2. Undisturbed' => InTurn(Sound, {})'
      BY <1>2, <2>1
    <2>3. crashes' = 0 /\ rebuild'.stage = "supersede" =>
            InTurn(Tuples \ crossed, rebuild.pending)'
      BY <1>2, <2>1
    <2> QED BY <1>1, <2>1, <2>2, <2>3
  <1>4. CASE OtherDrain
    <2>1. Dispatcher /\ UNCHANGED <<rebuild, rebuilds, doubtful>> /\ crossed \subseteq crossed'
          /\ (~Rebuilding => crossed' = crossed)
      BY <1>4, DrainFrame DEF OtherDrain, Dispatcher, StartDrain, ApplyRow, FailRow, CommitDrain,
         CrashDrain
    <2>2. CASE CrashDrain
      <3>1. crashes' \in Nat /\ crashes' # 0
        BY <2>2 DEF CrashDrain
      <3> QED BY <1>1, <2>1, <3>1 DEF Undisturbed
    <2>3. CASE ~CrashDrain
      <3>1. crashes' = crashes
        BY <2>1, <2>3 DEF Dispatcher, StartDrain, ApplyRow, FailRow, CommitDrain
      <3>2. Undisturbed' => InTurn(Sound, {})'
        <4> SUFFICES ASSUME Undisturbed
                     PROVE  InTurn(Sound, {})'
          BY <2>1, <3>1 DEF Undisturbed
        <4>1. Sound' = Sound
          BY <2>1 DEF Undisturbed, Rebuilding, Sound
        <4>2. Sound \subseteq Tuples
          BY DEF Sound
        <4> QED BY <2>1, <2>3, <4>1, <4>2, TurnDispatcher
      <3>3. crashes' = 0 /\ rebuild'.stage = "supersede" =>
              InTurn(Tuples \ crossed, rebuild.pending)'
        <4> SUFFICES ASSUME crashes = 0, rebuild.stage = "supersede"
                     PROVE  InTurn(Tuples \ crossed, rebuild.pending)'
          BY <2>1, <3>1
        <4>1. InTurn(Tuples \ crossed', rebuild.pending)
          BY <2>1, TurnFewer
        <4>2. \A row \in Due \cap rebuild.pending :
                row.tuple \in Tuples \ crossed' => fga' = fga
          BY <1>4, CrossedRow
        <4> QED BY <2>1, <2>3, <4>1, <4>2, TurnDispatcher
      <3> QED BY <1>1, <2>1, <3>1, <3>2, <3>3
    <2> QED BY <2>2, <2>3
  <1>5. CASE RebuildOn
    <2>1. crashes' = crashes
      BY <1>5 DEF RebuildOn, Rebuild, ReadDesired, ReadStore, WriteMissing, DeleteStale,
         FailRebuild, ReadPending, Supersede
    <2> QED BY <1>1, <1>5, <2>1, TurnRebuild
  <1>6. CASE \E c \in Clients : OtherRequest(c)
    <2>1. PICK c \in Clients : OtherRequest(c)
      BY <1>6
    <2>2. Request(c) /\ UNCHANGED doubtful
      BY <2>1 DEF OtherRequest
    <2>3. UNCHANGED <<rebuild, rebuilds, crashes>>
      BY <2>2 DEF Request, ReadMember, CommitMember, RollBack, TransferCustody,
         RegisterEvidence, DeleteInline
    <2>4. Undisturbed' => InTurn(Sound, {})'
      <3> SUFFICES ASSUME Undisturbed
                   PROVE  InTurn(Sound, {})'
        BY <2>3 DEF Undisturbed
      <3>1. Sound' = Sound /\ Sound \subseteq Tuples
        BY <2>1 DEF OtherRequest, Undisturbed, Sound
      <3> QED BY <2>2, <3>1, TurnRequest
    <2>5. crashes' = 0 /\ rebuild'.stage = "supersede" =>
            InTurn(Tuples \ crossed, rebuild.pending)'
      <3> SUFFICES ASSUME crashes = 0, rebuild.stage = "supersede"
                   PROVE  InTurn(Tuples \ crossed, rebuild.pending)'
        BY <2>3
      <3>1. crossed' = crossed
        BY <2>1 DEF OtherRequest
      <3>2. \A row \in rebuild.pending : row.id < nextId
        BY DEF IInv, RebuildInPlace
      <3> QED BY <2>2, <2>3, <3>1, <3>2, TurnRequest
    <2> QED BY <1>1, <2>3, <2>4, <2>5
  <1> QED BY <1>3, <1>4, <1>5, <1>6 DEF ProjectionNext
-----------------------------------------------------------------------------
\* Whatever the number of seats, items, requests, crashes and rebuilds, the
\* strengthened invariant holds.
THEOREM InvariantHolds == ProjectionSpec => []IInv
  <1>1. ProjectionInit => IInv
    BY InitInv, OutboxAssumption
  <1>2. IInv /\ [ProjectionNext]_projectionVars => IInv'
    BY StepInv, OutboxAssumption
  <1> QED BY <1>1, <1>2, PTL DEF ProjectionSpec

\* The tables, the queue and the requests keep their types (TypeOK).
THEOREM TypeCorrect == ProjectionSpec => []TypeOK
  <1>1. IInv => TypeOK
    BY DEF IInv
  <1> QED BY <1>1, InvariantHolds, PTL

\* The store is a projection of Postgres (StoreFollows): however the drain fails,
\* crashes and retries, whenever an inline delete gets through, and whatever a rebuild
\* finds and repairs between the others, about every tuple it was not crossed about.
THEOREM Projection == ProjectionSpec => []StoreFollows
  <1>1. IInv => StoreFollows
    <2> SUFFICES ASSUME IInv, NEW t \in Sound
                 PROVE  Follows(t)
      BY DEF StoreFollows
    <2>1. Rest(t, {}) = Pending(t)
      BY DEF Rest, Pending
    <2>2. Kept(t, {})
      BY DEF IInv, SoundKept
    <2> QED BY <2>1, <2>2 DEF Kept, Follows
  <1> QED BY <1>1, InvariantHolds, PTL

\* A role change never shows the old and the new role at once (RolesNeverOverlap),
\* whatever the rows that failed had done and whatever a rebuild that is done was in the
\* middle of, if no drain crashed and no rebuild is at work or ended half-way.
THEOREM NoOverlap == ProjectionSpec => []RolesNeverOverlap
  <1>1. ProjectionInit => TurnInv
    <2> SUFFICES ASSUME ProjectionInit PROVE TurnInv
      OBVIOUS
    <2>1. IInv
      BY InitInv, OutboxAssumption
    <2>2. rebuild.stage = "idle" /\ Left = {} /\ crashes = 0 /\ rebuilds = 0
      BY DEF ProjectionInit, Init, NoRebuild, Left
    <2>3. \A t \in Sound : t \notin fga
      BY DEF ProjectionInit, Sound
    <2>4. InTurn(Sound, {})
      BY <2>2, <2>3 DEF InTurn, OneHolderStored, StoredLeavesFirst, WrittenLeavesFirst,
         StrangersLeave
    <2> QED BY <2>1, <2>2, <2>4 DEF TurnInv
  <1>2. TurnInv /\ [ProjectionNext]_projectionVars => TurnInv'
    BY TurnStep, OutboxAssumption
  <1>3. TurnInv => RolesNeverOverlap
    <2> SUFFICES ASSUME TurnInv, Undisturbed, NEW p \in Seats, NEW g \in Roles, NEW h \in Roles,
                        {<<p, g>>, <<p, h>>} \subseteq Sound \cap fga
                 PROVE  g = h
      BY DEF RolesNeverOverlap
    <2>1. OneHolderStored(Sound)
      BY DEF TurnInv, InTurn
    <2> QED BY <2>1 DEF OneHolderStored, Rivals
  <1> QED BY <1>1, <1>2, <1>3, PTL DEF ProjectionSpec
=============================================================================
