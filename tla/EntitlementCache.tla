--------------------------- MODULE EntitlementCache ---------------------------
(***************************************************************************)
(* A tenant's access snapshot: computed from four reads, saved to          *)
(* platform.entitlements, cached with a TTL, dropped by some of those who  *)
(* change what it is computed from, and read by the guard of the platform  *)
(* (EntitlementsService.get_claims) and the guard of the module services   *)
(* (ServiceSecurity.claims_for).  Every read and write is a step.          *)
(*                                                                         *)
(* A part of the truth is a counter that each change moves on, so that no  *)
(* two of its values look alike: an even subscription grants access, an    *)
(* even status is active, and the others are limits.                       *)
(***************************************************************************)
EXTENDS Integers

CONSTANTS
  Tasks,     \* concurrent calls of the service
  Ttl,       \* cache.entitlements_ttl_seconds, in ticks
  ChangeMax, \* bound on the changes of one part
  Changing,  \* the parts that change
  Empty

Parts == {"subscription", "catalog", "status", "override"}

ASSUME CacheAssumption ==
  /\ Ttl \in Nat \ {0} /\ ChangeMax \in Nat /\ Changing \subseteq Parts

VARIABLES
  truth,  \* the tables
  saved,  \* the row of platform.entitlements: Empty or what it grants
  cache,  \* the cached snapshot, or Empty
  age,    \* of the cache entry, in ticks
  step,   \* a call: what it does next
  seen,   \* a call: what it has read
  said,   \* a call that is a guard: its answer
  \* history variables
  change, \* a call: the part it has changed, and to what
  floor   \* per part, the last change published while no other call held
          \* an older reading of the part

Snapshot == [Parts -> 0 .. ChangeMax]
cacheVars == <<truth, saved, cache, age, step, seen, said, change, floor>>

\* The steps of refresh, in their order.
Reading == [subscription |-> "catalog", catalog |-> "status",
            status |-> "override", override |-> "save"]

CacheTypeOK ==
  /\ truth \in Snapshot
  /\ saved \in BOOLEAN \cup {Empty}
  /\ cache \in Snapshot \cup {Empty}
  /\ age \in 0 .. Ttl - 1
  /\ step \in [Tasks -> Parts \cup {"idle", "get", "peek", "table", "save", "set",
                                    "drop", "done"}]
  /\ seen \in [Tasks -> Snapshot]
  /\ said \in [Tasks -> BOOLEAN]
  /\ change \in [Tasks -> (Parts \X (1 .. ChangeMax)) \cup {Empty}]
  /\ floor \in Snapshot

Unread == [p \in Parts |-> 0]

CacheInit ==
  /\ truth = Unread
  /\ saved = Empty /\ cache = Empty /\ age = 0
  /\ step = [c \in Tasks |-> "idle"]
  /\ seen = [c \in Tasks |-> Unread]
  /\ said = [c \in Tasks |-> FALSE]
  /\ change = [c \in Tasks |-> Empty]
  /\ floor = Unread

-----------------------------------------------------------------------------
\* compute_claims: a suspended tenant has no modules at all.
Suspended(s) == s["status"] % 2 = 1
Subscribed(s) == s["subscription"] % 2 = 0
Granted(s) == ~Suspended(s) /\ Subscribed(s)

Becomes(c, s) == step' = [step EXCEPT ![c] = s]

Answers(c, yes) ==
  /\ Becomes(c, "done")
  /\ said' = [said EXCEPT ![c] = yes]

\* Does another call hold a reading of p older than v, and will cache it?
ReadBefore(c, p, v) ==
  \E d \in Tasks \ {c} :
    /\ seen[d][p] < v
    /\ \/ step[d] \in {"save", "set"}
       \/ p = "subscription" /\ step[d] \in Parts \ {"subscription"}
       \/ p = "catalog" /\ step[d] \in {"status", "override"}
       \/ p = "status" /\ step[d] = "override"

\* What c changed is published, by a drop or a fresh entry of the cache.
Published(c) ==
  /\ change' = [change EXCEPT ![c] = Empty]
  /\ floor' =
       IF change[c] = Empty THEN floor
       ELSE LET p == change[c][1] v == change[c][2]
            IN IF ReadBefore(c, p, v) \/ floor[p] > v THEN floor
               ELSE [floor EXCEPT ![p] = v]

-----------------------------------------------------------------------------
\* Tasks begin.
Guard(c) ==
  /\ step[c] = "idle"
  /\ \E s \in {"get", "peek"} : Becomes(c, s)
  /\ UNCHANGED <<truth, saved, cache, age, seen, said, change, floor>>

\* POST /entitlements/refresh, or get_claims without the cache.
Recompute(c) ==
  /\ step[c] = "idle"
  /\ Becomes(c, "subscription")
  /\ UNCHANGED <<truth, saved, cache, age, seen, said, change, floor>>

\* A writer commits its change first.  A webhook or a signup (subscription)
\* goes on to refresh; everyone else drops the cached snapshot first.
Change(c, p) ==
  /\ step[c] = "idle"
  /\ p \in Changing /\ truth[p] < ChangeMax
  /\ truth' = [truth EXCEPT ![p] = @ + 1]
  /\ change' = [change EXCEPT ![c] = <<p, truth[p] + 1>>]
  /\ Becomes(c, IF p = "subscription" THEN "subscription" ELSE "drop")
  /\ UNCHANGED <<saved, cache, age, seen, said, floor>>

DropMisses(c) == \* mutant: the invalidation deletes another key than the guards read
  /\ step[c] = "drop"
  /\ Published(c)
  /\ Becomes(c, IF change[c] # Empty /\ change[c][1] = "catalog" THEN "done"
                ELSE "subscription")
  /\ UNCHANGED <<truth, saved, cache, age, seen, said>>

\* invalidate.  A plan's limits are not recomputed for its subscribers.
Drop(c) ==
  /\ step[c] = "drop"
  /\ cache' = Empty /\ age' = 0
  /\ Published(c)
  /\ Becomes(c, IF change[c] # Empty /\ change[c][1] = "catalog" THEN "done"
                ELSE "subscription")
  /\ UNCHANGED <<truth, saved, seen, said>>

-----------------------------------------------------------------------------
\* The guards.
Get(c) ==
  /\ step[c] = "get"
  /\ IF cache = Empty
     THEN Becomes(c, "subscription") /\ UNCHANGED said
     ELSE Answers(c, Granted(cache))
  /\ UNCHANGED <<truth, saved, cache, age, seen, change, floor>>

\* claims_for of a module service: the cache, or else the saved rows.
Peek(c) ==
  /\ step[c] = "peek"
  /\ IF cache = Empty
     THEN Becomes(c, "table") /\ UNCHANGED said
     ELSE Answers(c, Granted(cache))
  /\ UNCHANGED <<truth, saved, cache, age, seen, change, floor>>

Table(c) ==
  /\ step[c] = "table"
  /\ Answers(c, saved = TRUE)
  /\ UNCHANGED <<truth, saved, cache, age, seen, change, floor>>

-----------------------------------------------------------------------------
\* refresh: four reads, the save, the cache.
Read(c) ==
  /\ step[c] \in Parts
  /\ LET p == step[c]
     IN /\ seen' = [seen EXCEPT ![c][p] = truth[p]]
        /\ Becomes(c, Reading[p])
  /\ UNCHANGED <<truth, saved, cache, age, said, change, floor>>

\* EntitlementRepository.save writes a row per module of the snapshot, and a
\* suspended tenant's snapshot has none.
Save(c) ==
  /\ step[c] = "save"
  /\ saved' = IF Suspended(seen[c]) THEN saved ELSE Subscribed(seen[c])
  /\ Becomes(c, "set")
  /\ UNCHANGED <<truth, cache, age, seen, said, change, floor>>

\* cache.set, and the answer of the guard that started the refresh.
Set(c) ==
  /\ step[c] = "set"
  /\ cache' = seen[c] /\ age' = 0
  /\ Published(c)
  /\ Answers(c, Granted(seen[c]))
  /\ UNCHANGED <<truth, saved, seen>>

Return(c) ==
  /\ step[c] = "done"
  /\ Becomes(c, "idle")
  /\ seen' = [seen EXCEPT ![c] = Unread]
  /\ said' = [said EXCEPT ![c] = FALSE]
  /\ UNCHANGED <<truth, saved, cache, age, change, floor>>

\* The call raises or its process dies; nobody repeats it.
Fail(c) ==
  /\ step[c] \notin {"idle", "done"}
  /\ Becomes(c, "done")
  /\ said' = [said EXCEPT ![c] = FALSE]
  /\ change' = [change EXCEPT ![c] = Empty]
  /\ UNCHANGED <<truth, saved, cache, age, seen, floor>>

NeverExpires == \* mutant: the entry is set without a TTL
  /\ cache # Empty /\ age + 1 < Ttl
  /\ age' = age + 1
  /\ UNCHANGED <<truth, saved, cache, step, seen, said, change, floor>>

\* A cache entry gets older and expires.
AgeEntry ==
  /\ cache # Empty
  /\ IF age + 1 < Ttl
     THEN age' = age + 1 /\ UNCHANGED cache
     ELSE age' = 0 /\ cache' = Empty
  /\ UNCHANGED <<truth, saved, step, seen, said, change, floor>>

Runs(c) == Drop(c) \/ Get(c) \/ Peek(c) \/ Table(c) \/ Read(c) \/ Save(c) \/ Set(c) \/ Return(c)

CacheNext ==
  \/ AgeEntry
  \/ \E c \in Tasks :
       \/ Guard(c) \/ Recompute(c) \/ \E p \in Parts : Change(c, p)
       \/ Runs(c) \/ Fail(c)

CacheSpec == CacheInit /\ [][CacheNext]_cacheVars

\* Time passes, and calls that have begun go on.
CacheFairness == WF_cacheVars(AgeEntry) /\ \A c \in Tasks : WF_cacheVars(Runs(c))

-----------------------------------------------------------------------------
\* "Order matters: write the status first, then invalidate" (admin_tenants.py:
\* 123): a change that was published while no other call held an older reading
\* is never again hidden by the cache, whatever refreshes run afterwards.
QuietChangesShow ==
  cache # Empty => \A p \in Parts : cache[p] >= floor[p]

\* With the types: the cache holds whole snapshots, no older than the TTL.
CacheInv == CacheTypeOK /\ QuietChangesShow

\* "The TTL is the bound" (entitlements_service.py:101): whichever stale
\* snapshots races and failures leave behind, once changes have ceased the
\* cache is before long empty or right, and stays so.
EventuallyCurrent == <>[](cache # Empty => cache = truth)
=============================================================================
