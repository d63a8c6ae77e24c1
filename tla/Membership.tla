------------------------------ MODULE Membership ------------------------------
(***************************************************************************)
(* The people of one workspace: platform.memberships, the workspace's      *)
(* owner_user_id, platform.invites and the service kit's cache of who is a *)
(* member.  A request is the sequence of statements of its handler, each   *)
(* of which commits by itself: the repository opens no transaction.  Other *)
(* requests run between any two of them, and a request may die there.      *)
(***************************************************************************)
EXTENDS Integers, FiniteSets

CONSTANTS
  Users,    \* a user stands for the account and its e-mail address
  Founder,  \* who provisioned the workspace
  Invites,  \* rows of platform.invites
  Requests, \* concurrent requests
  RequestMax, \* bound: how many requests there are in a behaviour
  Seats,    \* the plan's team_seats
  Failing,  \* whether requests die and the claims may be unavailable
  None

ASSUME MembershipAssumption ==
  /\ Founder \in Users /\ IsFiniteSet(Users) /\ IsFiniteSet(Invites)
  /\ Seats \in Nat /\ RequestMax \in Nat /\ Failing \in BOOLEAN
  /\ None \notin Users \cup Invites

\* A viewer is a member here: no operation tells the two apart.
Invitable == {"admin", "member"}
Roles == Invitable \cup {"owner"}
TenantAdmins == {"owner", "admin"}

VARIABLES
  role,   \* memberships.role; "none": no row
  owner,  \* tenants.owner_user_id
  invite, \* the invites
  cached, \* the cached answer of is_member
  request,
  asked,  \* how many requests have begun
  \* history variables
  joins,    \* how often an invite made its holder a member
  orphaned, \* a transfer lost its promotion, or an owner's role was overwritten
  oversold, \* an invite was written on a count that was overtaken, or on none
  misled,   \* users whose cached answer was out of date when it was stored, or
            \* was not evicted when it became so
  overtaken, \* invitations that others' joining or inviting overtook
  stranded  \* invites whose holder's request died between "accepted" and "member"

history == <<joins, orphaned, oversold, misled, overtaken, stranded>>
vars == <<role, owner, invite, cached, request, asked, history>>

Idle == [step |-> "idle", by |-> None, about |-> None, with |-> None, as |-> "none", seen |-> 0]

\* What a request is about to do.
Steps == {"idle", "change", "remove", "evict", "target", "demote", "promote", "name",
          "evict both", "check", "members", "pending", "insert", "revoke", "read",
          "mark", "add", "lookup", "store"}

TypeOK ==
  /\ role \in [Users -> Roles \cup {"none"}]
  /\ owner \in Users
  /\ invite \in [Invites -> [state : {"unsent", "live", "expired", "accepted", "revoked"},
                             to : Users \cup {None}, as : Invitable \cup {"none"}]]
  /\ cached \in [Users -> {"unknown", "yes", "no"}]
  /\ request \in [Requests ->
       [step : Steps, by : Users \cup {None}, about : Users \cup {None},
        with : Invites \cup {None}, as : Invitable \cup {"none", "yes", "no"},
        seen : 0 .. Cardinality(Users) + Cardinality(Invites)]]
  /\ asked \in 0 .. RequestMax
  /\ joins \in [Invites -> Nat]
  /\ orphaned \in BOOLEAN /\ oversold \in BOOLEAN
  /\ misled \subseteq Users /\ overtaken \subseteq Requests /\ stranded \subseteq Invites

Init ==
  /\ role = [u \in Users |-> IF u = Founder THEN "owner" ELSE "none"]
  /\ owner = Founder
  /\ invite = [i \in Invites |-> [state |-> "unsent", to |-> None, as |-> "none"]]
  /\ cached = [u \in Users |-> "unknown"]
  /\ request = [c \in Requests |-> Idle]
  /\ asked = 0
  /\ joins = [i \in Invites |-> 0]
  /\ orphaned = FALSE /\ oversold = FALSE
  /\ misled = {} /\ overtaken = {} /\ stranded = {}

-----------------------------------------------------------------------------
Members == {u \in Users : role[u] # "none"}
Owners == {u \in Users : role[u] = "owner"}

Pending == {i \in Invites : invite[i].state \in {"live", "expired"}}

\* The invites that are accepted and whose holder is about to be a member.
Joining == {request[c].with : c \in {d \in Requests : request[d].step = "add"}}

\* Every seat that is taken, or promised.
Taken == Cardinality(Members) + Cardinality(Pending)
           + Cardinality({i \in Joining : invite[i].to \notin Members})

At(c, s) == request[c].step = s

Goes(c, s) == request' = [request EXCEPT ![c].step = s]

\* Is the cached answer wrong about u?
Wrong(u) == cached[u] = IF role[u] = "none" THEN "yes" ELSE "no"

\* The eviction of u's key does not happen.
Missed(u) == misled' = IF Wrong(u) THEN misled \cup {u} ELSE misled

\* DELETE of the users' keys.
Delete(U) ==
  /\ cached' = [u \in Users |-> IF u \in U THEN "unknown" ELSE cached[u]]
  /\ misled' = misled \ U

Done(c) == request' = [request EXCEPT ![c] = Idle]

\* What was counted has changed, or is about to: a holder is between
\* "accepted" and "member".
Overtakes(c) ==
  overtaken' = (overtaken \ {c}) \cup
                 {d \in Requests \ {c} : request[d].step \in {"pending", "insert"}}

\* A request begins; e says what it knows.
Begin(c, e) ==
  /\ asked < RequestMax /\ asked' = asked + 1
  /\ At(c, "idle")
  /\ request' = [request EXCEPT ![c] = e]
  /\ UNCHANGED <<role, owner, invite, cached, history>>

-----------------------------------------------------------------------------
\* change_role and remove_member.  The router has read the caller's role.

BeginChange(c, a, u, r) ==
  /\ role[a] \in TenantAdmins /\ a # u
  /\ Begin(c, [Idle EXCEPT !.step = "change", !.by = a, !.about = u, !.as = r])

Change(c) ==
  /\ At(c, "change")
  /\ LET u == request[c].about
     IN IF role[u] \in Invitable
        THEN role' = [role EXCEPT ![u] = request[c].as] /\ Goes(c, "evict")
        ELSE UNCHANGED role /\ Done(c)
  /\ UNCHANGED <<owner, invite, cached, asked, history>>

BeginRemove(c, a, u) ==
  /\ role[a] \in TenantAdmins /\ a # u
  /\ Begin(c, [Idle EXCEPT !.step = "remove", !.by = a, !.about = u])

RemoveOnly(c) == \* mutant: the cached membership is not evicted
  /\ At(c, "remove")
  /\ LET u == request[c].about
     IN role' = IF role[u] \in Invitable THEN [role EXCEPT ![u] = "none"] ELSE role
  /\ Done(c)
  /\ UNCHANGED <<owner, invite, cached, asked, history>>

RemoveMember(c) ==
  /\ At(c, "remove")
  /\ LET u == request[c].about
     IN IF role[u] \in Invitable
        THEN role' = [role EXCEPT ![u] = "none"] /\ Goes(c, "evict") /\ Overtakes(c)
        ELSE UNCHANGED <<role, overtaken>> /\ Done(c)
  /\ UNCHANGED <<owner, invite, cached, asked, joins, orphaned, oversold, misled, stranded>>

\* _evict_membership; a cache that is down keeps the answer.
Evict(c) ==
  /\ At(c, "evict")
  /\ \/ Delete({request[c].about})
     \/ Failing /\ Missed(request[c].about) /\ UNCHANGED cached
  /\ Done(c)
  /\ UNCHANGED <<role, owner, invite, asked, joins, orphaned, oversold, overtaken, stranded>>

-----------------------------------------------------------------------------
\* transfer_ownership: the target's role, then three statements.

BeginTransfer(c, a, u) ==
  /\ role[a] = "owner" /\ a # u
  /\ Begin(c, [Idle EXCEPT !.step = "target", !.by = a, !.about = u])

Target(c) ==
  /\ At(c, "target")
  /\ IF role[request[c].about] # "none" THEN Goes(c, "demote") ELSE Done(c)
  /\ UNCHANGED <<role, owner, invite, cached, asked, history>>

Demote(c) ==
  /\ At(c, "demote")
  /\ role' = IF role[request[c].by] = "owner"
             THEN [role EXCEPT ![request[c].by] = "admin"] ELSE role
  /\ Goes(c, "promote")
  /\ UNCHANGED <<owner, invite, cached, asked, history>>

\* The promotion raises if there is another owner (memberships_one_owner_idx),
\* and matches no row if the target has been removed since.
Promote(c) ==
  /\ At(c, "promote")
  /\ LET u == request[c].about
     IN IF role[u] # "none" /\ Owners \subseteq {u}
        THEN role' = [role EXCEPT ![u] = "owner"] /\ Goes(c, "name") /\ UNCHANGED orphaned
        ELSE /\ IF role[u] = "none" THEN Goes(c, "name") ELSE Done(c)
             /\ orphaned' = (orphaned \/ Owners = {})
             /\ UNCHANGED role
  /\ UNCHANGED <<owner, invite, cached, asked, joins, oversold, misled, overtaken, stranded>>

Name(c) ==
  /\ At(c, "name")
  /\ owner' = request[c].about
  /\ Goes(c, "evict both")
  /\ UNCHANGED <<role, invite, cached, asked, history>>

\* The outgoing owner's key first, then the incoming one's.
EvictBoth(c) ==
  /\ At(c, "evict both")
  /\ Delete({request[c].by})
  /\ Goes(c, "evict")
  /\ UNCHANGED <<role, owner, invite, asked, joins, orphaned, oversold, overtaken, stranded>>

-----------------------------------------------------------------------------
\* invite_member: is the person here already, is there a seat, then the row.

BeginInvite(c, a, u, r) ==
  /\ role[a] \in TenantAdmins
  /\ Begin(c, [Idle EXCEPT !.step = "check", !.by = a, !.about = u, !.as = r])

Check(c) ==
  /\ At(c, "check")
  /\ IF role[request[c].about] = "none" THEN Goes(c, "members") ELSE Done(c)
  /\ UNCHANGED <<role, owner, invite, cached, asked, history>>

\* seat_usage counts the members, then the pending invites.
CountMembers(c) ==
  /\ At(c, "members")
  /\ request' = [request EXCEPT ![c].step = "pending", ![c].seen = Cardinality(Members)]
  /\ overtaken' = IF Joining = {} THEN overtaken ELSE overtaken \cup {c}
  /\ UNCHANGED <<role, owner, invite, cached, asked, joins, orphaned, oversold, misled, stranded>>

CountNoPending(c) == \* mutant: only members count
  /\ At(c, "pending")
  /\ IF request[c].seen < Seats THEN Goes(c, "insert") ELSE Done(c)
  /\ UNCHANGED <<role, owner, invite, cached, asked, history>>

\* Without claims there is no limit.
CountPending(c) ==
  /\ At(c, "pending")
  /\ LET n == request[c].seen + Cardinality(Pending)
     IN \/ /\ n < Seats
           /\ request' = [request EXCEPT ![c].step = "insert", ![c].seen = n]
           /\ UNCHANGED oversold
        \/ n >= Seats /\ Done(c) /\ UNCHANGED oversold
        \/ Failing /\ Goes(c, "insert") /\ oversold' = TRUE
  /\ UNCHANGED <<role, owner, invite, cached, asked, joins, orphaned, misled, overtaken, stranded>>

\* invites_live_email_idx refuses a second pending row for the address.
Insert(c, i) ==
  /\ At(c, "insert")
  /\ LET u == request[c].about
     IN IF \E j \in Pending : invite[j].to = u
        THEN UNCHANGED <<invite, oversold, overtaken>>
        ELSE /\ invite[i].state = "unsent"
             /\ invite' = [invite EXCEPT ![i] =
                             [state |-> "live", to |-> u, as |-> request[c].as]]
             /\ oversold' = (oversold \/ c \in overtaken)
             /\ Overtakes(c)
  /\ Done(c)
  /\ UNCHANGED <<role, owner, cached, asked, joins, orphaned, misled, stranded>>

Lapse(i) ==
  /\ invite[i].state = "live"
  /\ invite' = [invite EXCEPT ![i].state = "expired"]
  /\ UNCHANGED <<role, owner, cached, asked, request, history>>

BeginRevoke(c, a, i) ==
  /\ role[a] \in TenantAdmins /\ invite[i].state # "unsent"
  /\ Begin(c, [Idle EXCEPT !.step = "revoke", !.by = a, !.with = i])

Revoke(c) ==
  /\ At(c, "revoke")
  /\ LET i == request[c].with
     IN IF i \in Pending
        THEN invite' = [invite EXCEPT ![i].state = "revoked"] /\ Overtakes(c)
        ELSE UNCHANGED <<invite, overtaken>>
  /\ Done(c)
  /\ UNCHANGED <<role, owner, cached, asked, joins, orphaned, oversold, misled, stranded>>

-----------------------------------------------------------------------------
\* accept_invite, by the account the invite is addressed to: read, mark, add.

BeginAccept(c, i) ==
  /\ invite[i].state # "unsent"
  /\ Begin(c, [Idle EXCEPT !.step = "read", !.about = invite[i].to, !.with = i])

ReadInvite(c) ==
  /\ At(c, "read")
  /\ IF invite[request[c].with].state = "live" THEN Goes(c, "mark") ELSE Done(c)
  /\ UNCHANGED <<role, owner, invite, cached, asked, history>>

MarkAnyway(c) == \* mutant: WHERE id = $1 only
  /\ At(c, "mark")
  /\ invite' = [invite EXCEPT ![request[c].with].state = "accepted"]
  /\ Goes(c, "add") /\ Overtakes(c)
  /\ UNCHANGED <<role, owner, cached, asked, joins, orphaned, oversold, misled, stranded>>

\* mark_invite_accepted checks again what was read.
Mark(c) ==
  /\ At(c, "mark")
  /\ LET i == request[c].with
     IN IF invite[i].state = "live"
        THEN /\ invite' = [invite EXCEPT ![i].state = "accepted"]
             /\ Goes(c, "add") /\ Overtakes(c)
        ELSE UNCHANGED <<invite, overtaken>> /\ Done(c)
  /\ UNCHANGED <<role, owner, cached, asked, joins, orphaned, oversold, misled, stranded>>

\* add_membership: ON CONFLICT DO UPDATE SET role.
Add(c) ==
  /\ At(c, "add")
  /\ LET i == request[c].with
     IN /\ role' = [role EXCEPT ![request[c].about] = invite[i].as]
        /\ orphaned' = (orphaned \/ role[request[c].about] = "owner")
        /\ joins' = [joins EXCEPT ![i] = @ + 1]
  /\ Goes(c, "evict") /\ Overtakes(c)
  /\ UNCHANGED <<owner, invite, cached, asked, oversold, misled, stranded>>

-----------------------------------------------------------------------------
\* ServiceSecurity.is_member in a module service: the cache, the row, the
\* cache.  `as' is the answer that will be stored.

BeginLookup(c, u) ==
  /\ cached[u] = "unknown"
  /\ Begin(c, [Idle EXCEPT !.step = "lookup", !.about = u])

Lookup(c) ==
  /\ At(c, "lookup")
  /\ request' = [request EXCEPT ![c].step = "store",
                   ![c].as = IF role[request[c].about] # "none" THEN "yes" ELSE "no"]
  /\ UNCHANGED <<role, owner, invite, cached, asked, history>>

Store(c) ==
  /\ At(c, "store")
  /\ LET u == request[c].about
     IN /\ cached' = [cached EXCEPT ![u] = request[c].as]
        /\ misled' = IF (request[c].as = "yes") = (role[u] # "none")
                     THEN misled \ {u} ELSE misled \cup {u}
  /\ Done(c)
  /\ UNCHANGED <<role, owner, invite, asked, joins, orphaned, oversold, overtaken, stranded>>

\* The key's 60 seconds are over.
Forget(u) ==
  /\ cached[u] # "unknown"
  /\ Delete({u})
  /\ UNCHANGED <<role, owner, invite, asked, request, joins, orphaned, oversold, overtaken, stranded>>

\* The request dies.
Crash(c) ==
  /\ Failing /\ ~At(c, "idle")
  /\ orphaned' = (orphaned \/ (At(c, "promote") /\ Owners = {}))
  /\ stranded' = IF At(c, "add") THEN stranded \cup {request[c].with} ELSE stranded
  /\ IF At(c, "evict") THEN Missed(request[c].about) ELSE UNCHANGED misled
  /\ Done(c)
  /\ UNCHANGED <<role, owner, invite, cached, asked, joins, oversold, overtaken>>

Next ==
  \/ \E i \in Invites : Lapse(i)
  \/ \E u \in Users : Forget(u)
  \/ \E c \in Requests :
       \/ \E a, u \in Users :
            \/ BeginRemove(c, a, u) \/ BeginTransfer(c, a, u)
            \/ \E r \in Invitable : BeginChange(c, a, u, r) \/ BeginInvite(c, a, u, r)
       \/ \E i \in Invites :
            BeginAccept(c, i) \/ Insert(c, i) \/ (\E a \in Users : BeginRevoke(c, a, i))
       \/ \E u \in Users : BeginLookup(c, u)
       \/ Change(c) \/ RemoveMember(c) \/ Evict(c)
       \/ Target(c) \/ Demote(c) \/ Promote(c) \/ Name(c) \/ EvictBoth(c)
       \/ Check(c) \/ CountMembers(c) \/ CountPending(c) \/ Revoke(c)
       \/ ReadInvite(c) \/ Mark(c) \/ Add(c)
       \/ Lookup(c) \/ Store(c) \/ Crash(c)

Spec == Init /\ [][Next]_vars

-----------------------------------------------------------------------------
\* "A workspace always has exactly one owner" (tenancy_service.py:10), as far
\* as it goes: never two, and none only between a transfer's two statements,
\* or after one that lost its promotion, or after an owner's role was
\* overwritten by an old invite.  No admin's request takes the owner away.
OneOwnerOrATransfer ==
  /\ Cardinality(Owners) <= 1
  /\ Owners = {} => orphaned \/ \E c \in Requests : At(c, "promote")

\* "A seat is consumed by a member or by a live invite" (tenancy_service.py:14):
\* unless an invitation's counting was overtaken by others, the plan is never
\* oversold, whoever joins, leaves, accepts or is revoked before and after.
SeatsHonoured == ~oversold => Taken <= Seats

\* What becomes of an invite; see MembershipInv.
InviteAdmitsOnce ==
  \A i \in Invites :
    /\ joins[i] <= 1
    /\ joins[i] = 1 => invite[i].state = "accepted"
    /\ invite[i].state = "accepted" => joins[i] = 1 \/ i \in Joining \cup stranded

\* "Authorisation is cached, so removal has to evict" (tenancy_service.py:18):
\* a wrong answer in the cache is about to be evicted, unless a change overtook
\* the lookup that stored it or the eviction failed.
EvictedOrMisled ==
  \A u \in Users : Wrong(u) =>
    u \in misled \/ \E c \in Requests : At(c, "evict") /\ request[c].about = u

\* Types; and an invite is a one-time credential (repositories/tenants.py:772):
\* it makes its holder a member once, never after it was revoked, and if it
\* was consumed the holder became or becomes a member, unless the request
\* died between the two statements.  With it the owner, the seats and the cache.
MembershipInv ==
  /\ TypeOK
  /\ InviteAdmitsOnce
  /\ OneOwnerOrATransfer
  /\ SeatsHonoured
  /\ EvictedOrMisled
=============================================================================
