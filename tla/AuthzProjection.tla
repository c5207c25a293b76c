-------------------------- MODULE AuthzProjection ---------------------------
(***************************************************************************)
(* What the store owes Postgres.  AuthzOutbox with two history variables,  *)
(* which say of which tuples nothing can be expected: those a restore left *)
(* in the store, until a rebuild has repaired them, and those a rebuild    *)
(* was crossed about.  A rebuild reads Postgres, the store and the queue   *)
(* at three times and locks nothing in between; the dispatcher and the     *)
(* requests go on all the while (aegis/authz/outbox.py, rebuild).          *)
(***************************************************************************)
EXTENDS AuthzOutbox

VARIABLES
  crossed,   \* tuples about which others came between the reads of the running rebuild
  doubtful   \* tuples the store may be wrong about although no rebuild is running

projectionVars == <<vars, crossed, doubtful>>

ProjectionInit ==
  /\ Init
  /\ crossed = {}
  /\ doubtful = fga

\* Nobody changes a place another request is still at, which nothing in the code
\* enforces.
PlaceOf(r) == IF r.stage = "read" THEN r.place ELSE r.tuple[1]
OneAtATime ==
  \A c, d \in Clients :
    client[c] # Idle /\ client[d] # Idle /\ PlaceOf(client[c]) = PlaceOf(client[d]) => c = d

\* The rows the running rebuild will mark as superseded, as far as is known.
Doomed == IF rebuild.stage = "supersede" THEN rebuild.pending ELSE outbox

\* A commit between the rebuild's read of Postgres and its read of the queue: the
\* rebuild reflects nothing of it, and supersedes its rows.
OtherRequest(c) ==
  /\ Request(c) /\ OneAtATime'
  /\ crossed' = IF rebuild.stage \in {"read", "write"}
                THEN crossed \cup {t \in Tuples : holder'[t[1]] # holder[t[1]]}
                ELSE crossed
  /\ UNCHANGED doubtful

\* A row that takes effect after the rebuild has read the store, when the rebuild will
\* supersede the rows behind it whether or not the drain comes so far.
OtherDrain ==
  /\ Dispatcher
  /\ crossed' = IF rebuild.stage \in {"write", "supersede"} /\ fga' # fga
                THEN crossed \cup {row.tuple : row \in Due \cap Doomed}
                ELSE crossed
  /\ UNCHANGED doubtful

\* A rebuild that ends in success leaves in doubt what it was crossed about, one that
\* ends half-way that and all that was in doubt.
RebuildOn ==
  /\ Rebuild
  /\ crossed' = IF rebuild'.stage \in {"idle", "done"} THEN {} ELSE crossed
  /\ doubtful' = CASE rebuild'.stage = "done" -> crossed
                   [] rebuild'.stage = "idle" -> doubtful \cup crossed
                   [] OTHER -> doubtful

ProjectionNext == OtherDrain \/ RebuildOn \/ \E c \in Clients : OtherRequest(c)

ProjectionSpec == ProjectionInit /\ [][ProjectionNext]_projectionVars /\ Fairness
-----------------------------------------------------------------------------
Sound == Tuples \ (doubtful \cup crossed)

\* The store is a projection of Postgres (ADR-014): whatever was applied, failed,
\* crashed, retried, deleted inline or rebuilt, at once or in turn, draining the queue
\* makes them equal about every tuple that no rebuild was crossed about; and a rebuild
\* repairs every other, however far the store had drifted (rebuild's docstring).
StoreFollows == \A t \in Sound : Follows(t)

\* No drain has died over rows it had applied, and no rebuild, which writes before it
\* deletes, is at work or ended half-way.
Undisturbed == crashes = 0 /\ (rebuilds = 0 \/ rebuild.stage = "done")

\* A role change never shows the old and the new role at once: the drain applies
\* its delete before its write, and a failure stops it rather than skipping (sync).
\* The same after a rebuild that others were in the middle of, for the tuples it was
\* not crossed about.
RolesNeverOverlap ==
  Undisturbed =>
    \A p \in Seats, g, h \in Roles : {<<p, g>>, <<p, h>>} \subseteq Sound \cap fga => g = h

\* The tuples a row of Postgres can imply.
Holdable == (Seats \X Roles) \cup (Items \X Officers) \cup (Links \X Cases)

\* Every revocation reaches the store, however long it was away (spec 03 section 3:
\* the queued delete remains the convergence guarantee), and so does every grant.
RevocationsReachTheStore ==
  \A t \in Holdable :
    t \in Sound /\ t \notin Desired ~> (t \notin Sound \/ t \notin fga \/ t \in Desired)
GrantsReachTheStore ==
  \A t \in Holdable :
    t \in Sound /\ t \in Desired ~> (t \notin Sound \/ t \in fga \/ t \notin Desired)

\* A failing row holds up those behind it, and keeps none of them from the store for
\* good; neither does a rebuild that supersedes them.
ChangesReachTheStore == RevocationsReachTheStore /\ GrantsReachTheStore
=============================================================================
