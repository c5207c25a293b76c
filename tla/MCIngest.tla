------------------------------ MODULE MCIngest ------------------------------
(***************************************************************************)
(* Ingestion for TLC.  One run explores three scopes: three landings of    *)
(* any kind, a fourth one that a command and a request can deadlock over,  *)
(* and passes and reviews over what a single landing left.                 *)
(***************************************************************************)
EXTENDS Extraction, TLC

CONSTANTS c1, c2, c3, text, response

MCText == [c \in {c3} |-> text]

\* Three landings, of two contents; c3 is for the scopes below.
AnyLandings ==
  /\ puts' <= 3
  /\ \A w \in Putters : work'[w].artifact \in {<<>>} \cup (Names \X {c1, c2})

\* A command lands c1 and c2, and nobody dies of itself; c3 is anybody's.
CommandAndRequest ==
  /\ backend = "filesystem"
  /\ \A w \in Putters :
       /\ work'[w].files = 1 => work'[w].artifact[2] \in {c1, c3}
       /\ work'[w].files = 2 => work'[w].artifact[2] = c2
       /\ work'[w].files = 3 => work'[w].artifact[2] = c3
       /\ work'[w].kind = "route" => work'[w].artifact[2] = c3
       /\ work'[w].artifact # <<>> /\ work'[w].artifact[2] = c3 /\ work'[w].files = 1
          => work'[w].kind = "route"

\* What passes and reviews start from: one landing, the first, is through.
OneLanding ==
  /\ Len(records) = 1 /\ \A w \in Putters : work[w] = NoLanding
  /\ begun = 0 => puts = 1

\* The third pass runs over what the first two left, and what one review does.
ThirdPass ==
  begun' = 3 =>
    /\ begun = 2 => \A p \in Passes : pass[p] = NoPass
    /\ \A v, w \in Reviewers : review'[v] # NoReview /\ review'[w] # NoReview => v = w
    /\ Len(reviews') <= 1

ScopedNext ==
  \/ begun = 0 /\ LandNext /\ UNCHANGED extractVars /\ (AnyLandings \/ CommandAndRequest)
  \/ OneLanding /\ IngestNext /\ UNCHANGED landVars /\ ThirdPass

ScopedSpec == IngestInit /\ [][ScopedNext]_ingestVars

Sym == {f @@ g @@ h : f \in Permutations(Putters), g \in Permutations(Passes),
                      h \in Permutations(Reviewers)}
=============================================================================
