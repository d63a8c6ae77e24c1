-------------------------------- MODULE Listings --------------------------------
(***************************************************************************)
(* The lists of the console and how they are paged: an operator's jobs and *)
(* workspaces, a tenant's matches, and the catalogue of grants.  Each page *)
(* is a SELECT with LIMIT and OFFSET, and the total, where there is one,   *)
(* is a second statement; rows change before, between and after them.  A   *)
(* row's number is its id; of jobs and workspaces it tells their age, too. *)
(* Who changes the rows is modelled elsewhere (JobLedger, GrantMatching,   *)
(* EntitlementCache, FeedLoad); here they take any state that is possible. *)
(***************************************************************************)
EXTENDS Integers, SequencesExt

CONSTANTS
  RowCount,  \* rows of a table
  PageLimit, \* limit
  Scores,    \* scores of matches, ranks of search results
  Windows,   \* values of matches_visible; RowCount or more: unlimited
  ChangeMax, \* bound on the rows that change while a list is read, once each
  NoRow

Rows == 1 .. RowCount

VARIABLES
  table,   \* "jobs", "tenants", "matches" or "catalogue"
  row,     \* its rows
  filter,  \* what the list is asked for
  window,  \* how many rows it may show at all
  reading, \* the next step: "ask", "list", "count", or "done"
  pages,   \* the pages so far
  total,   \* the number of rows, as last counted
  \* history variables
  changed, \* the rows that changed since the list was asked for
  left,    \* how many times a row ceased to match, or sank
  came     \* how many times a row began to match, or rose

listVars == <<table, row, filter, window, reading, pages, total, changed, left, came>>

-----------------------------------------------------------------------------
\* A job's status, told apart by its lease, by when it was due, and by whether
\* it failed within a day.
JobStates ==
  {"waiting", "overdue", "leased", "expired", "succeeded", "failed", "failed long ago", "cancelled"}

ASSUME ListingAssumption ==
  /\ {RowCount, PageLimit} \subseteq Nat \ {0}
  /\ Scores \subseteq Nat /\ Windows \subseteq Nat /\ ChangeMax \in Nat
  /\ NoRow \notin JobStates

\* _STUCK_SQL.  A failed job has no attempts left (AttemptsWithinLimit).
Stuck(job) == job \in {"overdue", "expired", "failed", "failed long ago"}

StatusOf(job) == CASE job \in {"waiting", "overdue"} -> "queued"
                   [] job \in {"leased", "expired"} -> "running"
                   [] job = "failed long ago" -> "failed"
                   [] OTHER -> job

JobMatches(job) ==
  CASE filter = "all" -> TRUE [] filter = "stuck" -> Stuck(job) [] OTHER -> StatusOf(job) = filter

\* What queue_health counts of the same rows.
Health ==
  LET Number(S) == Cardinality({i \in Rows : row[i] \in S})
  IN [expired |-> Number({"expired"}), overdue |-> Number({"overdue"}), failed |-> Number({"failed"})]

\* found: whether the name, the slug or the owner's address has what is searched.
TenantStates == [status : {"active", "suspended"}, found : BOOLEAN]
TenantMatches(t) ==
  filter.status \in {"any", t.status} /\ (filter.search => t.found)

\* A match or an offer whose grant is closed is nowhere listed or counted: it is
\* as if there was no row.
MatchStates == [score : Scores, saved : BOOLEAN, dismissed : BOOLEAN]
MatchMatches(m) ==
  /\ m.score >= filter.min
  /\ filter.dismissed \/ ~m.dismissed
  /\ filter.saved => m.saved

\* count_matches, as list_matches calls it: without what the list is asked for.
MatchCounts(m) == ~m.dismissed

\* score: how well it fits what is searched; 0 when it does not.
OfferStates == [score : Scores, forecast : BOOLEAN]
OfferMatches(o) == o.score > 0 /\ (filter.forecasts \/ ~o.forecast)

States(t) == CASE t = "jobs" -> JobStates [] t = "tenants" -> TenantStates
               [] t = "matches" -> MatchStates [] t = "catalogue" -> OfferStates

Matching(i) ==
  row[i] # NoRow /\ CASE table = "jobs" -> JobMatches(row[i])
                      [] table = "tenants" -> TenantMatches(row[i])
                      [] table = "matches" -> MatchMatches(row[i])
                      [] table = "catalogue" -> OfferMatches(row[i])
Selected == {i \in Rows : Matching(i)}

Aged == table \in {"jobs", "tenants"}

AboveTied(i, j) == \* mutant: without o.id
  IF Aged THEN i > j ELSE row[i].score > row[j].score

\* ORDER BY: the newest first; or the best, the oldest of which first.
Above(i, j) ==
  IF Aged THEN i > j
  ELSE row[i].score > row[j].score \/ (row[i].score = row[j].score /\ i < j)

Sorted(S) == {q \in SetToSeqs(S) : \A a, b \in DOMAIN q : a < b => ~Above(q[b], q[a])}

Counted == IF table # "matches" THEN Selected
           ELSE {i \in Rows : row[i] # NoRow /\ MatchCounts(row[i])}

-----------------------------------------------------------------------------
\* Rows are inserted with ascending ages.
ListingInit ==
  /\ table \in {"jobs", "tenants", "matches", "catalogue"}
  /\ row \in [Rows -> States(table) \cup {NoRow}]
  /\ Aged => \A i, j \in Rows : i < j /\ row[j] # NoRow => row[i] # NoRow
  /\ filter = "all" /\ window = RowCount /\ reading = "ask" /\ pages = <<>> /\ total = 0
  /\ changed = {} /\ left = 0 /\ came = 0

Asks(t, f, most) ==
  /\ reading = "ask" /\ table = t
  /\ filter' = f /\ window' = most /\ reading' = "list"
  /\ UNCHANGED <<table, row, pages, total, changed, left, came>>

AskJobs == \E f \in {"all", "stuck", "queued", "running", "failed"} : Asks("jobs", f, RowCount)
AskTenants ==
  \E f \in [status : {"any", "active", "suspended"}, search : BOOLEAN] : Asks("tenants", f, RowCount)
AskMatches ==
  \E f \in [min : Scores, saved : BOOLEAN, dismissed : BOOLEAN], most \in Windows :
    Asks("matches", f, most)
AskCatalogue == \E f \in [forecasts : BOOLEAN] : Asks("catalogue", f, RowCount)

Offset == PageLimit * Len(pages)

\* The cap is on the window, not on the page.
PageEnd == LET last == Offset + PageLimit IN IF last < window THEN last ELSE window

\* The next page; without a total, the list is read to a page that is not full.
ReadPage ==
  /\ reading = "list"
  /\ \E q \in Sorted(Selected) :
       LET page == SubSeq(q, Offset + 1, IF PageEnd < Len(q) THEN PageEnd ELSE Len(q))
       IN /\ pages' = Append(pages, page)
          /\ reading' = CASE table # "catalogue" -> "count"
                          [] table = "catalogue" /\ Len(page) = PageLimit -> "list"
                          [] OTHER -> "done"
  /\ UNCHANGED <<table, row, filter, window, total, changed, left, came>>

\* The total, up to which the list is read.
CountRows ==
  /\ reading = "count"
  /\ total' = Cardinality(Counted)
  /\ reading' = IF Offset < total' THEN "list" ELSE "done"
  /\ UNCHANGED <<table, row, filter, window, pages, changed, left, came>>

\* Another request or a worker changes a row, or inserts the next one.
RowChanges(i, state) ==
  /\ reading \in {"list", "count"} /\ i \notin changed /\ Cardinality(changed) < ChangeMax
  /\ state # row[i] /\ (state = NoRow => ~Aged)
  /\ \A j \in Rows : Aged /\ j < i => row[j] # NoRow
  /\ UNCHANGED <<table, filter, window, reading, pages, total>>
  /\ row' = [row EXCEPT ![i] = state]
  /\ changed' = changed \cup {i}
  /\ LET Moved(before, after) == before /\ (after => ~Aged /\ row[i].score # state.score)
     IN /\ left' = IF Moved(Matching(i), Matching(i)') THEN left + 1 ELSE left
        /\ came' = IF Moved(Matching(i)', Matching(i)) THEN came + 1 ELSE came

ListingNext ==
  \/ AskJobs \/ AskTenants \/ AskMatches \/ AskCatalogue
  \/ ReadPage \/ CountRows
  \/ \E i \in Rows : \E state \in States(table) \cup {NoRow} : RowChanges(i, state)

ListingSpec == ListingInit /\ [][ListingNext]_listVars

-----------------------------------------------------------------------------
ListingTypeOK ==
  /\ row \in [Rows -> States(table) \cup {NoRow}]
  /\ reading \in {"ask", "list", "count", "done"}
  /\ \A n \in DOMAIN pages : pages[n] \in Seq(Rows) /\ Len(pages[n]) <= PageLimit
  /\ total \in 0 .. RowCount /\ changed \subseteq Rows

Shown == FlattenSeq(pages)
Times(i) == Cardinality({n \in DOMAIN Shown : Shown[n] = i})

\* Reading pages while rows change: what a list leaves out or repeats is never
\* more than other rows left it or came in meanwhile, and with no change a list
\* is what it was asked for, in order, up to the plan's allowance, which no paging
\* exceeds (grant_service.py:135); the operator's list of what is stuck has what the
\* health screen counts, and what failed before that (jobs_admin.py:240).  The one list that stops early is
\* that of matches with the dismissed ones, which its total does not count.
PagesAreExplained ==
  /\ ListingTypeOK
  /\ Len(Shown) <= window
  /\ reading = "done" =>
       LET kept == {i \in Selected : i \notin changed}
       IN /\ Cardinality({i \in kept : Times(i) > 1}) <= came
          /\ window >= RowCount /\ Selected \subseteq Counted =>
               Cardinality({i \in kept : Times(i) = 0}) <= left
          /\ changed = {} /\ Selected \subseteq Counted =>
               \E q \in Sorted(Selected) :
                 Shown = SubSeq(q, 1, IF window < Len(q) THEN window ELSE Len(q))
  /\ table = "jobs" /\ filter = "stuck" =>
       Cardinality({i \in Selected : row[i] # "failed long ago"})
         = Health.expired + Health.overdue + Health.failed
=============================================================================
