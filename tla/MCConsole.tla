------------------------------- MODULE MCConsole -------------------------------
(***************************************************************************)
(* An instance for TLC of what the console shows and of the people it      *)
(* manages: the lists it pages through, the members of a workspace, and    *)
(* the operators of the platform with the record of what they do.  Their   *)
(* models share no state: one of them, chosen at the start, moves, so that *)
(* the states are those of each by itself.  Below are claims of the code's *)
(* comments that the instance refutes (README.md tells how).               *)
(***************************************************************************)
EXTENDS Membership, Listings, OperatorTrail, TLC

VARIABLE part

\* The operators' requests have the names of the members'.
Symmetry == Permutations(Requests) \cup Permutations(Invites) \cup Permutations(Users \ {Founder})

ConsoleInit ==
  /\ part \in {"people", "lists", "operators"}
  /\ part # "lists" => table = "jobs" /\ row = [i \in Rows |-> NoRow]
  /\ Init /\ ListingInit /\ TrailInit

ConsoleNext ==
  /\ UNCHANGED part
  /\ \/ part = "people" /\ Next /\ UNCHANGED <<listVars, trailVars>>
     \/ part = "lists" /\ ListingNext /\ UNCHANGED <<vars, trailVars>>
     \/ part = "operators" /\ TrailNext /\ UNCHANGED <<vars, listVars>>

ConsoleSpec == ConsoleInit /\ [][ConsoleNext]_<<part, vars, listVars, trailVars>>

-----------------------------------------------------------------------------
Quiet == \A c \in Requests : At(c, "idle")

\* tenancy_service.py:10: a workspace always has exactly one owner; and
\* repositories/tenants.py:661: demotion and promotion are one transaction.
ExactlyOneOwner == Quiet => Cardinality(Owners) = 1

\* tenancy_service.py:12: ownership moves by transfer.  (An invite written
\* while its holder joined by an earlier one overwrites whatever role the
\* holder has by the time it is accepted.)
OwnershipMovesByTransfer ==
  [][\A u \in Owners : role'[u] # "owner" =>
       \E c \in Requests : At(c, "demote") /\ request[c].by = u]_vars

\* tenancy_service.py:14: a seat is consumed by a member or a live invite.
SeatsAreNotOversold == Taken <= Seats

\* tenancy_service.py:18 and service-kit security.py:96: who was removed is
\* not admitted once the removal has answered.
RemovedIsNotAdmitted ==
  Quiet => \A u \in Users : cached[u] = "yes" => role[u] # "none"

\* routers/admin_jobs.py:79: the total is a real count.  (It is the count of a
\* later moment than the page it is returned with.)
TotalIsReal == reading = "done" /\ table = "jobs" => total >= Len(Shown)

\* jobs_admin.py:240: "the number on the dashboard and the rows behind it cannot
\* disagree".  (The list has failed jobs of any age, the dashboard those of a day.)
DashboardAgrees ==
  table = "jobs" /\ filter = "stuck" =>
    Cardinality(Selected) = Health.expired + Health.overdue + Health.failed

\* grant_service.py:157: "showing 25 of 312".  (The total ignores what the list
\* was asked for.)
TotalIsOfTheList ==
  reading = "done" /\ table = "matches" /\ changed = {} => total = Cardinality(Selected)

Recorded == (\A a \in Acts : Stands(a, "idle")) /\ lost = {}
Entries(t) == {i \in DOMAIN trail : trail[i].thing = t}
Newest(t) == CHOOSE i \in Entries(t) : \A j \in Entries(t) : j <= i

\* 0016_platform_admin.sql:34: a log of what happened.  (Of two changes of the
\* status that are under way at once, the first may be recorded last.)
NewestEntryIsCurrent ==
  Recorded => \A t \in Things : Entries(t) # {} => trail[Newest(t)].after = value[t]

\* scripts/grant_platform_admin.py:20: every grant is recorded, including the
\* very first one.  (The script dies before, or the account acts before, that.)
NoGapAtTheBeginning ==
  \A i \in DOMAIN trail : trail[i].by \in Staff =>
    \E j \in Entries(trail[i].by) : j < i

\* auth_service.py:278: a revocation takes effect at the next login or refresh.
\* (A mint that has read the row before issues its token after.)
NoMintAfterRevocation == late = {}
=============================================================================
