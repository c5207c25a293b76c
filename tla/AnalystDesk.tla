---------------------------- MODULE AnalystDesk -----------------------------
(***************************************************************************)
(* Analysts in front of the identity ledger, through the routes of         *)
(* aegis/api/routes/identity.py.  listIdentityCandidates runs two queries  *)
(* under READ COMMITTED, the candidate rows with their entities and then   *)
(* the head revision, and other transactions commit between them.  The     *)
(* analyst decides later, from what the screen showed, and the client      *)
(* sends the revision that came with it as parent_revision_id.             *)
(***************************************************************************)
EXTENDS IdentityLedger

CONSTANT Analysts

\* desk[x].seen: who belonged to whom when the rows were read;
\* desk[x].listedAt: the head at that moment, which the code does not know.
VARIABLE desk

deskVars == <<vars, desk>>

DeskAway ==
  desk = [x \in Analysts |-> [stage |-> "away", seen |-> {}, listedAt |-> 0, revision |-> 0]]

DeskInit == Init /\ DeskAway

\* The candidate query, with the entity each side resolves to.
ListCandidates(x) ==
  /\ desk' = [desk EXCEPT ![x].stage = "listed", ![x].seen = HeldAt(head),
                          ![x].listedAt = head]
  /\ UNCHANGED vars

\* Slip: the client, not the listing, says which revision it was read at.
ReadRevisionLate(x) ==
  /\ desk[x].stage \in {"listed", "shown"}
  /\ desk' = [desk EXCEPT ![x].stage = "shown", ![x].revision = head,
                          ![x].listedAt = head]
  /\ UNCHANGED vars

\* active_revision_id, evaluated when the response is built.
ReadRevision(x) ==
  /\ desk[x].stage = "listed"
  /\ desk' = [desk EXCEPT ![x].stage = "shown", ![x].revision = head]
  /\ UNCHANGED vars

\* recordIdentityDecision with the revision of the screen.
Decide(x) ==
  /\ desk[x].stage = "shown"
  /\ Adjudicate(desk[x].revision)
  /\ UNCHANGED desk

DeskNext ==
  \/ \E x \in Analysts : ListCandidates(x) \/ ReadRevision(x) \/ Decide(x)
  \/ Record /\ UNCHANGED desk

DeskSpec == DeskInit /\ [][DeskNext]_deskVars
-----------------------------------------------------------------------------
\* The entities a decision that moves mentions is about, and their mentions.
Scope(d) == {e \in Entities : \E x \in d.inputs : <<x, e>> \in HeldAt(d.revision - 1)}
Evidence(d) == {h \in HeldAt(d.revision - 1) : h[2] \in Scope(d)}

NewDecisions ==
  {d \in decisions' \ decisions : d.kind \in {"confirm", "split"}}

\* Whoever could have taken the decision: the revision of the screen is its parent.
From(d) == {x \in Analysts : desk[x].stage = "shown" /\ desk[x].revision = d.parent}

\* "A scoped check rejects exactly the decisions whose evidence has gone stale" (spec
\* 05 section 2).  When no decision fell between the two queries of the listing, all a
\* screen can have missed of the entities decided on are late mentions, attached at
\* the very revision the screen was read at.
OnlyLateMentionsGoUnseen ==
  [][\A d \in NewDecisions : \A x \in From(d) :
       desk[x].listedAt = desk[x].revision =>
         /\ {h \in desk[x].seen : h[2] \in Scope(d)'} \subseteq Evidence(d)'
         /\ \A h \in Evidence(d)' \ desk[x].seen :
              \E row \in memberships :
                row.mention = h[1] /\ row.entity = h[2] /\ row.opened = desk[x].revision]_deskVars
=============================================================================
