---------------------------- MODULE AuditListing ----------------------------
(***************************************************************************)
(* An auditor pages through the audit log (aegis/api/routes/audit.py,      *)
(* aegis/api/pagination.py) while requests append to it, the auditor's own *)
(* page requests among them.  Each page is a request and a statement of    *)
(* its own; all that ties them together is the cursor the client sends     *)
(* back, the id of the last row it was shown.                              *)
(***************************************************************************)
EXTENDS RequestGate, FiniteSets

CONSTANTS
  Filters,   \* the actors a listing may be about, None for all
  Limits     \* page sizes asked for; page_limit has clamped them

ASSUME ListingAssumption ==
  /\ Filters \subseteq Writers \cup {None}
  /\ Limits \subseteq Nat \ {0}

VARIABLE listing

listVars == <<gateVars, listing>>

NoListing == [stage |-> "none", filter |-> None, cursor |-> 0, pages |-> <<>>, before |-> {}]

ListingInit == GateInit /\ listing = NoListing

\* The rows the query's WHERE lets through.
Asked(filter) == {r \in log : filter \in {None, r.by}}

\* ORDER BY id DESC LIMIT: a page of the rows, and whether there are more.
IsPage(page, rs, limit) ==
  /\ Cardinality(page) <= limit
  /\ Cardinality(page) = limit \/ page = rs
  /\ \A r \in page, x \in rs \ page : x.id < r.id

\* Slip: the cursor is the id of the extra row that was fetched.
IsExtra(id, page, rs) == id \in Ids(rs \ page) /\ \A r \in rs \ page : r.id <= id

\* The id of the last row that is shown.
IsCursor(id, page, rs) == id \in Ids(page) /\ \A r \in page : id <= r.id

\* split_page: the page, and a cursor only when another row exists.
Show(rs, limit, filter, pages, before) ==
  \E page \in SUBSET rs :
    /\ IsPage(page, rs, limit)
    /\ \/ /\ page = rs
          /\ listing' = [stage |-> "done", filter |-> filter, cursor |-> 0,
                         pages |-> Append(pages, page), before |-> before]
       \/ /\ page # rs
          /\ \E id \in Ids(rs) :
               /\ IsCursor(id, page, rs)
               /\ listing' = [stage |-> "more", filter |-> filter, cursor |-> id,
                              pages |-> Append(pages, page), before |-> before]

FirstPage ==
  /\ listing.stage = "none"
  /\ \E filter \in Filters, limit \in Limits :
       Show(Asked(filter), limit, filter, <<>>, Asked(filter))
  /\ UNCHANGED gateVars

NextPage ==
  /\ listing.stage = "more"
  /\ \E limit \in Limits :
       Show(Below(Asked(listing.filter), listing.cursor), limit,
            listing.filter, listing.pages, listing.before)
  /\ UNCHANGED gateVars

ListingNext ==
  \/ FirstPage \/ NextPage
  \/ CalmNext /\ UNCHANGED listing

ListingSpec == ListingInit /\ [][ListingNext]_listVars /\ Fairness
-----------------------------------------------------------------------------
Shown == UNION {listing.pages[i] : i \in DOMAIN listing.pages}

\* A listing is a snapshot, though no two of its pages are read together: whatever is
\* appended meanwhile, what was shown and what is still below the cursor are the rows
\* there were at the first page, no page shows a row of another, and the order holds
\* across pages ("keyset cursors", pagination.py).
ListingIsASnapshot ==
  /\ listing.stage = "done" => Shown = listing.before
  /\ listing.stage = "more" =>
       Shown \cup Below(Asked(listing.filter), listing.cursor) = listing.before
  /\ \A i, j \in DOMAIN listing.pages : i < j =>
       \A x \in listing.pages[i], y \in listing.pages[j] : y.id < x.id
=============================================================================
