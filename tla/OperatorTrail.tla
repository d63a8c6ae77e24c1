----------------------------- MODULE OperatorTrail -----------------------------
(***************************************************************************)
(* The operators of the platform and platform.admin_audit: who holds the   *)
(* privilege, which the script grants and revokes and a token carries for  *)
(* its hour; what operators do to one workspace, its status and one of its *)
(* limits; and the entry that follows each change as a statement of its    *)
(* own.  The cache that a request drops and refills between the two is the *)
(* matter of EntitlementCache: here it is a place where the request dies.  *)
(***************************************************************************)
EXTENDS Integers, Sequences, FiniteSets

CONSTANTS
  Staff,     \* the accounts that the script is run for
  Acts,      \* concurrent requests and runs of the script
  TokenLife, \* the hour of a token, in ticks
  ChangesMax, \* bound on the changes that are made
  Caps,      \* ceilings that a workspace is given, unlimited among them
  Nobody     \* no actor, no token, no row

ASSUME TrailAssumption ==
  /\ TokenLife \in Nat \ {0} /\ ChangesMax \in Nat
  /\ Nobody \notin Staff \cup Caps \cup Nat
  /\ {"status", "exception"} \cap Staff = {} /\ Acts \cap Nat = {}

\* What is changed and recorded: the workspace's status, its exception to one
\* limit, and the privilege of each account.
Things == {"status", "exception"} \cup Staff

Values(t) ==
  CASE t = "status" -> {"active", "suspended"}
    [] t = "exception" -> Caps \cup {Nobody}
    [] OTHER -> {"held", "lacked"}

VARIABLES
  value, \* the rows
  power, \* the age of an account's youngest token with the role
  act,   \* a request: where it is and what it knows
  trail, \* platform.admin_audit, oldest first
  \* history variables
  changes, \* the changes that were committed
  lost,    \* those whose request died before it recorded them
  hurried, \* requests whose reading of "before" was overtaken by a change
  since,   \* how long an account has lacked the privilege, up to TokenLife
  late     \* accounts whose token was minted on a reading that was out of date

trailVars == <<value, power, act, trail, changes, lost, hurried, since, late>>
privilege == <<power, since, late>>

Resting == [at |-> "idle", by |-> Nobody, thing |-> "status", was |-> Nobody,
            to |-> Nobody, n |-> 0]

AllValues == UNION {Values(t) : t \in Things}

TrailTypeOK ==
  /\ \A t \in Things : value[t] \in Values(t)
  /\ power \in [Staff -> 0 .. TokenLife - 1 \cup {Nobody}]
  /\ act \in [Acts -> [at : {"idle", "flag", "issue", "before", "upsert", "audit"},
                       by : Staff \cup {Nobody}, thing : Things, was : AllValues,
                       to : AllValues, n : 0 .. ChangesMax]]
  /\ Len(trail) <= Len(changes) /\ Len(changes) <= ChangesMax
  /\ lost \subseteq 1 .. ChangesMax /\ hurried \subseteq Acts \cup (1 .. ChangesMax)
  /\ since \in [Staff -> 0 .. TokenLife] /\ late \subseteq Staff

TrailInit ==
  /\ value = [t \in Things |-> CASE t = "status" -> "active"
                                 [] t = "exception" -> Nobody
                                 [] OTHER -> "lacked"]
  /\ power = [u \in Staff |-> Nobody]
  /\ act = [a \in Acts |-> Resting]
  /\ trail = <<>> /\ changes = <<>>
  /\ lost = {} /\ hurried = {} /\ late = {}
  /\ since = [u \in Staff |-> TokenLife]

-----------------------------------------------------------------------------
Stands(a, s) == act[a].at = s

\* get_session and require_platform_admin: a token with the role that has not
\* expired is enough, whatever the row says by now.
Holds(u) == power[u] # Nobody

\* The statement that changes t commits: the request knows what it wrote, and
\* what was there before as far as it was told.
Commits(a, by, t, before, after) ==
  /\ Len(changes) < ChangesMax
  /\ value' = [value EXCEPT ![t] = after]
  /\ changes' = Append(changes, [thing |-> t, before |-> value[t], after |-> after, by |-> by])
  /\ act' = [act EXCEPT ![a] = [at |-> "audit", by |-> by, thing |-> t, was |-> before,
                                to |-> after, n |-> Len(changes) + 1]]
  /\ hurried' = (hurried \ {a})
                  \cup {b \in Acts \ {a} : Stands(b, "upsert") /\ act[b].thing = t}
                  \cup {n \in {Len(changes) + 1} : a \in hurried}

-----------------------------------------------------------------------------
\* Login, refresh and the exchange of a token for one of a workspace: the
\* roles are rebuilt from the row, never carried over.

BeginMint(a, u) ==
  /\ Stands(a, "idle")
  /\ act' = [act EXCEPT ![a] = [Resting EXCEPT !.at = "flag", !.by = u]]
  /\ UNCHANGED <<value, trail, changes, lost, hurried, privilege>>

ReadFlag(a) ==
  /\ Stands(a, "flag")
  /\ act' = [act EXCEPT ![a].at = "issue", ![a].was = value[act[a].by]]
  /\ UNCHANGED <<value, trail, changes, lost, hurried, privilege>>

Issue(a) ==
  /\ Stands(a, "issue")
  /\ LET u == act[a].by
     IN IF act[a].was = "held"
        THEN /\ power' = [power EXCEPT ![u] = 0]
             /\ late' = IF value[u] = "held" THEN late ELSE late \cup {u}
        ELSE UNCHANGED <<power, late>>
  /\ act' = [act EXCEPT ![a] = Resting]
  /\ UNCHANGED <<value, trail, changes, lost, hurried, since>>

\* set_platform_admin matches no row of who has the privilege, or lacks it, already.
Flips(u, to) == value[u] # to

\* The script, which then records nothing either.  There is no actor but the shell.
SetPlatformAdmin(a, u, to) ==
  /\ Stands(a, "idle") /\ Flips(u, to)
  /\ Commits(a, Nobody, u, IF to = "held" THEN "lacked" ELSE "held", to)
  /\ since' = [since EXCEPT ![u] = IF to = "held" THEN TokenLife ELSE 0]
  /\ late' = late \ {u}
  /\ UNCHANGED <<power, trail, lost>>

-----------------------------------------------------------------------------
SetStatusApart(a, u, s) == \* mutant: the previous status is read by itself
  /\ Stands(a, "idle") /\ Holds(u)
  /\ act' = [act EXCEPT ![a] = [Resting EXCEPT !.at = "before", !.by = u, !.to = s]]
  /\ UNCHANGED <<value, trail, changes, lost, hurried, privilege>>

\* The row is locked, read and written by one statement.
SetStatus(a, u, s) ==
  /\ Stands(a, "idle") /\ Holds(u)
  /\ Commits(a, u, "status", value["status"], s)
  /\ UNCHANGED <<privilege, trail, lost>>

\* set_tenant_limit, of a key that some plan has.
BeginException(a, u, v) ==
  /\ Stands(a, "idle") /\ Holds(u)
  /\ act' = [act EXCEPT ![a] = [Resting EXCEPT !.at = "before", !.by = u,
                                  !.thing = "exception", !.to = v]]
  /\ UNCHANGED <<value, trail, changes, lost, hurried, privilege>>

\* set_limit_override: a SELECT, then the upsert.
ReadBefore(a) ==
  /\ Stands(a, "before")
  /\ act' = [act EXCEPT ![a].at = "upsert", ![a].was = value[act[a].thing]]
  /\ UNCHANGED <<value, trail, changes, lost, hurried, privilege>>

UpsertException(a) ==
  /\ Stands(a, "upsert")
  /\ Commits(a, act[a].by, act[a].thing, act[a].was, act[a].to)
  /\ UNCHANGED <<privilege, trail, lost>>

\* DELETE ... RETURNING; 404 if there is no row.
ClearException(a, u) ==
  /\ Stands(a, "idle") /\ Holds(u) /\ value["exception"] # Nobody
  /\ Commits(a, u, "exception", value["exception"], Nobody)
  /\ UNCHANGED <<privilege, trail, lost>>

-----------------------------------------------------------------------------
\* The row of platform.admin_audit that a request writes.
Entry(r) == [thing |-> r.thing, before |-> r.was, after |-> r.to, by |-> r.by, n |-> r.n]

\* audit_action, the last statement of each of them.
RecordAction(a) ==
  /\ Stands(a, "audit")
  /\ trail' = Append(trail, Entry(act[a]))
  /\ act' = [act EXCEPT ![a] = Resting]
  /\ UNCHANGED <<value, changes, lost, hurried, privilege>>

\* A statement fails, the audit's own among them, or the process dies.
ActDies(a) ==
  /\ ~Stands(a, "idle")
  /\ lost' = IF Stands(a, "audit") THEN lost \cup {act[a].n} ELSE lost
  /\ hurried' = hurried \ {a}
  /\ act' = [act EXCEPT ![a] = Resting]
  /\ UNCHANGED <<value, trail, changes, privilege>>

\* Time passes, and tokens expire.
TokensAge ==
  /\ power' = [u \in Staff |-> IF Holds(u) /\ power[u] + 1 < TokenLife
                               THEN power[u] + 1 ELSE Nobody]
  /\ since' = [u \in Staff |-> IF since[u] < TokenLife THEN since[u] + 1 ELSE TokenLife]
  /\ late' = {u \in late : power'[u] # Nobody}
  /\ UNCHANGED <<value, act, trail, changes, lost, hurried>>

TrailNext ==
  \/ TokensAge
  \/ \E a \in Acts :
       \/ \E u \in Staff :
            \/ BeginMint(a, u) \/ ClearException(a, u)
            \/ \E p \in Values(u) : SetPlatformAdmin(a, u, p)
            \/ \E s \in Values("status") : SetStatus(a, u, s)
            \/ \E v \in Caps : BeginException(a, u, v)
       \/ ReadFlag(a) \/ Issue(a) \/ ReadBefore(a) \/ UpsertException(a)
       \/ RecordAction(a) \/ ActDies(a)

TrailSpec == TrailInit /\ [][TrailNext]_trailVars

-----------------------------------------------------------------------------
Indices(n) == {i \in DOMAIN trail : trail[i].n = n}
Recording(n) == \E a \in Acts : Stands(a, "audit") /\ act[a].n = n

\* "so the audit record cannot disagree with what actually happened"
\* (repositories/tenants.py:422): an entry tells its change as it was made, by
\* whom, and from what.  Only the exception, whose old value is read by a
\* statement of its own, may be told from a value that was replaced meanwhile.
EntriesAreTrue ==
  \A i \in DOMAIN trail :
    LET e == trail[i] c == changes[e.n]
    IN /\ <<e.thing, e.after, e.by>> = <<c.thing, c.after, c.by>>
       /\ e.before = c.before \/ (e.n \in hurried /\ e.thing = "exception")

\* "Every mutation here writes a row to platform.admin_audit before returning"
\* (routers/admin.py:7): a change has one entry, or its request is about to
\* write it, or died in between.
ChangesAreRecorded ==
  \A n \in DOMAIN changes :
    /\ Cardinality(Indices(n)) <= 1
    /\ Indices(n) # {} <=> ~Recording(n) /\ n \notin lost

\* A revocation is over with the tokens that were issued before it
\* (scripts/grant_platform_admin.py:27-31), and exchanging one of them for
\* another does not prolong it, unless the mint had read the row before.
RevocationBites ==
  \A u \in Staff \ late : Holds(u) /\ value[u] = "lacked" => power[u] >= since[u]

TrailInv ==
  /\ TrailTypeOK /\ EntriesAreTrue /\ ChangesAreRecorded /\ RevocationBites
=============================================================================
