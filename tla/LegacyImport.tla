---------------------------- MODULE LegacyImport ----------------------------
(***************************************************************************)
(* The import of the curated Phase-0 dataset (aegis/migration/legacy.py)   *)
(* into the ledger, and its reruns among decisions and retractions.  It    *)
(* reads who each of the dataset's nodes is now (READ COMMITTED), then     *)
(* records what it cannot find, in the same transaction: one mention,      *)
(* entity and baseline membership per node, one claim per alias,           *)
(* affiliation and remapped edge.                                          *)
(*                                                                         *)
(* Sources and records have ids of their own and are found again by them;  *)
(* gradings, places and excerpts go along with a claim and are left out.   *)
(***************************************************************************)
EXTENDS IdentityLedger

CONSTANTS
  Nodes,                 \* of the dataset
  NodeRecord,            \* the record a node is cited from
  Aliases, Affiliations, \* of each node: names; nodes, or names that are no node's
  Edges,                 \* [source, target, relation, record, start, end]
  VerbRemap,             \* relation -> {[predicate, window]}
  SymmetricPredicates

ASSUME ImportAssumption ==
  /\ DOMAIN NodeRecord = Nodes /\ DOMAIN Aliases = Nodes /\ DOMAIN Affiliations = Nodes
  /\ \A e \in Edges : {e.source, e.target} \subseteq Nodes
  /\ None \notin Nodes

VARIABLES
  sourced,    \* mention: the rows with a node's norm_key and record
  drawn,      \* of each claim that was imported: predicate, record, window and value
  importer,   \* the import at work
  settled     \* the head the last import went by, and the retractions as it left them

importVars == <<vars, sourced, drawn, importer, settled>>
-----------------------------------------------------------------------------
Always == <<None, None>>

Sliced(window, e) ==
  CASE window = "until_start" -> <<None, e.start>>
    [] window = "from_start"  -> <<e.start, None>>
    [] window = "full"        -> <<e.start, e.end>>

Draft(source, target, predicate, record, window, value) ==
  [source |-> source, target |-> target,
   what |-> [predicate |-> predicate, record |-> record, window |-> window, value |-> value]]

\* remap_edge: a verb that is not in the table is a predicate.
RemapEdge(e) ==
  LET targets == IF e.relation \in DOMAIN VerbRemap THEN VerbRemap[e.relation]
                 ELSE {[predicate |-> e.relation, window |-> "full"]}
  IN  {Draft(e.source, e.target, t.predicate, e.record, Sliced(t.window, e), None) : t \in targets}

NodeDrafts(n) ==
  {Draft(n, None, "known_as", NodeRecord[n], Always, alias) : alias \in Aliases[n]}
    \cup {IF x \in Nodes THEN Draft(n, x, "affiliated_with", NodeRecord[n], Always, None)
                         ELSE Draft(n, None, "affiliated_with", NodeRecord[n], Always, x)
            : x \in Affiliations[n]}

Drafts == UNION ({NodeDrafts(n) : n \in Nodes} \cup {RemapEdge(e) : e \in Edges})
-----------------------------------------------------------------------------
EndOf(owner, n) == IF n = None THEN None ELSE owner[n]
EndsOf(owner, d) == <<EndOf(owner, d.source), EndOf(owner, d.target)>>

\* Slip: a symmetric claim is looked for one way round.
SpeaksOneWay(k, what, owner, d) == what = d.what /\ <<k.subject, k.object>> = EndsOf(owner, d)

\* _claim_exists: the claim says of these entities what the draft says.
Speaks(k, what, owner, d) ==
  /\ what = d.what
  /\ \/ <<k.subject, k.object>> = EndsOf(owner, d)
     \/ /\ what.predicate \in SymmetricPredicates
        /\ <<k.object, k.subject>> = EndsOf(owner, d)

\* What no claim says that is not retracted.
Unsaid(owner) ==
  {d \in Drafts : ~\E k \in claims :
     ~k.retracted /\ k.id \in DOMAIN drawn /\ Speaks(k, drawn[k.id], owner, d)}

\* record_claim, for a draft; the entities of a symmetric predicate may trade places.
MaySwap(d) == d.target # None /\ d.what.predicate \in SymmetricPredicates

RowOf(id, d, owner, mention, swapped) ==
  LET anchor(n) == IF n # None /\ NodeRecord[n] = d.what.record THEN mention[n] ELSE None
      first  == IF d \in swapped THEN d.target ELSE d.source
      second == IF d \in swapped THEN d.source ELSE d.target
  IN  [id |-> id, subject |-> EndOf(owner, first), subjectMention |-> anchor(first),
       object |-> EndOf(owner, second), objectMention |-> anchor(second),
       revision |-> head, retracted |-> FALSE]
-----------------------------------------------------------------------------
Idle == [found |-> NoLineage, asOf |-> 0]
Retractions == {k.id : k \in {x \in claims : x.retracted}}
NeverSettled == [asOf |-> MaxRevision + 1, retractions |-> {}]

ImportInit == sourced = {} /\ drawn = NoLineage /\ importer = Idle /\ settled = NeverSettled

\* Slip: a node is known by the membership it was imported with.
KnownByBaseline(n) ==
  {<<row.mention, row.entity>> : row \in
     {x \in Active : [mention |-> x.mention, node |-> n] \in sourced /\ x.opened = 0}}

\* Whoever the mention with the node's key belongs to now.
Known(n) ==
  {<<row.mention, row.entity>> : row \in
     {x \in Active : [mention |-> x.mention, node |-> n] \in sourced}}

Looked == DOMAIN importer.found

\* One node after the other; a node nobody knows is None.
FindNode(n) ==
  /\ n \notin Looked
  /\ \E known \in IF Known(n) = {} THEN {<<None, None>>} ELSE Known(n) :
       importer' =
         [found |-> [x \in Looked \cup {n} |-> IF x = n THEN known ELSE importer.found[x]],
          asOf  |-> IF Looked = {} THEN head ELSE importer.asOf]
  /\ UNCHANGED <<vars, sourced, drawn, settled>>

Injections(S, T) == {f \in [S -> T] : \A x, y \in S : f[x] = f[y] => x = y}

\* A node that was not found gets a mention, an entity and a baseline membership.
Fresh ==
  LET new  == {n \in Nodes : importer.found[n][1] = None}
      free == Mentions \ ({x.mention : x \in sourced} \cup {row.mention : row \in memberships})
  IN  [mention : Injections(new, free), owner : Injections(new, Entities \ entities)]

\* Claims for what is unsaid, a draft only when no other's claim says it.
Sayings(owner, mention, swapped) ==
  LET rows(new) == {[d \in new |-> RowOf(id[d], d, owner, mention, swapped)] :
                      id \in Injections(new, Claims \ {k.id : k \in claims})}
  IN  {row \in UNION {rows(new) : new \in SUBSET Unsaid(owner)} :
         \A d \in Unsaid(owner) :
           d \in DOMAIN row <=> ~\E x \in DOMAIN row \ {d} : Speaks(row[x], x.what, owner, d)}

\* record_claim refuses a claim about one entity twice, and an anchor that belongs to
\* another entity by now; then the import fails as a whole.
Recordable(k, fresh) ==
  /\ k.subject # k.object
  /\ \A anchored \in {<<k.subjectMention, k.subject>>, <<k.objectMention, k.object>>} :
       \/ anchored[1] \in {None} \cup Range(fresh.mention)
       \/ Belongs(anchored[1], anchored[2])

\* Every node's entity and mention, found or new.
OwnerOf(fresh) ==
  [n \in Nodes |-> IF n \in DOMAIN fresh.owner THEN fresh.owner[n] ELSE importer.found[n][2]]
MentionOf(fresh) ==
  [n \in Nodes |-> IF n \in DOMAIN fresh.mention THEN fresh.mention[n] ELSE importer.found[n][1]]

\* What the import adds to the tables.
Write(fresh, row) ==
  /\ entities' = entities \cup Range(fresh.owner)
  /\ memberships' = memberships \cup
       {[mention |-> fresh.mention[n], entity |-> fresh.owner[n], opened |-> 0, closed |-> Open] :
          n \in DOMAIN fresh.mention}
  /\ sourced' = sourced \cup
       {[mention |-> fresh.mention[n], node |-> n] : n \in DOMAIN fresh.mention}
  /\ claims' = claims \cup Range(row)
  /\ drawn' = [k \in DOMAIN drawn \cup {row[d].id : d \in DOMAIN row} |->
                 IF k \in DOMAIN drawn THEN drawn[k]
                 ELSE (CHOOSE d \in DOMAIN row : row[d].id = k).what]

CommitImport ==
  /\ Looked = Nodes
  /\ \E fresh \in Fresh, swapped \in SUBSET {d \in Drafts : MaySwap(d)} :
     \E row \in Sayings(OwnerOf(fresh), MentionOf(fresh), swapped) :
       /\ \A d \in DOMAIN row : Recordable(row[d], fresh)
       /\ Write(fresh, row)
  /\ settled' = [asOf |-> importer.asOf, retractions |-> Retractions]
  /\ importer' = Idle
  /\ UNCHANGED <<tombstoned, head, decisions, candidates, constraints, canonical, queue>>

AbortImport ==
  /\ Looked # {}
  /\ importer' = Idle
  /\ UNCHANGED <<vars, sourced, drawn, settled>>

Import == (\E n \in Nodes : FindNode(n)) \/ CommitImport \/ AbortImport

ImportNext ==
  \/ Import
  \/ Next /\ UNCHANGED <<sourced, drawn, importer, settled>>

ImportSpec == Init /\ ImportInit /\ [][ImportNext]_importVars
-----------------------------------------------------------------------------
\* A dataset's node is one mention for good, whatever is decided about it: no rerun
\* takes a node that was merged or split for a new one ("entities are found back
\* through their mention's norm_key", legacy.py).
NodesKeepTheirMention ==
  \A x, y \in sourced : x.node = y.node => x = y

IsNow(n, e) == IF n = None THEN e = None ELSE \E known \in Known(n) : known[2] = e
Untouched == settled.asOf = head /\ settled.retractions = Retractions

\* "Re-running the migration therefore changes nothing" (legacy.py): true as long as
\* nothing was decided since the last run began and nothing retracted since it ended.
ImportIsRepeatable ==
  [][importer # Idle /\ importer' = Idle /\ Untouched
       => UNCHANGED <<entities, memberships, claims>>]_importVars

\* What the dataset says of two nodes, the store says of the entities they are now: when
\* an import is through, and nothing was decided meanwhile, each draft has a claim
\* that is not retracted between whom the nodes' mentions belong to.
ImportIsComplete ==
  Untouched =>
    \A d \in Drafts : \E k \in claims :
      /\ ~k.retracted /\ k.id \in DOMAIN drawn /\ drawn[k.id] = d.what
      /\ \/ IsNow(d.source, k.subject) /\ IsNow(d.target, k.object)
         \/ /\ d.what.predicate \in SymmetricPredicates
            /\ IsNow(d.source, k.object) /\ IsNow(d.target, k.subject)

\* The store has the dataset's nodes once each, and says of them what the dataset says.
ImportIsFaithful == NodesKeepTheirMention /\ ImportIsComplete
=============================================================================
