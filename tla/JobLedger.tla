------------------------------ MODULE JobLedger ------------------------------
(***************************************************************************)
(* The job ledger: the table platform.jobs and the SQL functions that are  *)
(* the only code that writes it (enqueue's INSERT, claim_job, finish_job,  *)
(* heartbeat_job, cancel_job, retry_job and reap_expired_leases, in their  *)
(* final versions of migration 0018).  Every function is one transaction,  *)
(* so it is one action.  The module is open: any caller may call any       *)
(* function at any time.  JobSystem adds the real callers.                 *)
(*                                                                         *)
(* Timestamps are kept relative to now(): dueIn is run_after - now(),      *)
(* leaseLeft is locked_until - now().  A past run_after is told apart up   *)
(* to Horizon ticks, an expired lease is -1.                               *)
(***************************************************************************)
EXTENDS Integers, FiniteSets

CONSTANTS
  Jobs,       \* row ids
  Workers,    \* worker ids, one per worker process or drain call
  Modules,    \* sellable modules, each with its own workers
  Kinds,      \* job kinds
  Keys,       \* idempotency keys
  NoKey,      \* idempotency_key IS NULL
  Priorities, \* lower runs first
  Limits,     \* values of max_attempts
  LeaseTime,  \* _lease_seconds, in ticks
  MaxDelay,   \* bound on the distance of run_after from now
  Horizon,    \* bound on the age of run_after that the claim order sees
  SweepMax,   \* _max_rows of reap_expired_leases
  Nobody      \* locked_by IS NULL

ASSUME LedgerAssumption ==
  /\ Modules # {} /\ Kinds # {} /\ Priorities # {}
  /\ NoKey \notin Keys
  /\ Nobody \notin Workers
  /\ Priorities \subseteq Int
  /\ Limits \subseteq Nat \ {0} /\ Limits # {}
  /\ LeaseTime \in Nat \ {0}
  /\ MaxDelay \in Nat
  /\ Horizon \in Nat
  /\ SweepMax \in Nat \ {0}

VARIABLES
  status,    \* status[j], or "absent" before the INSERT
  request,   \* the columns that are set by the INSERT and never change
  attempts,  \* attempts[j]
  dueIn,     \* run_after - now
  holder,    \* locked_by
  leaseLeft, \* locked_until - now; 0 when locked_until IS NULL
  hasError   \* last_error IS NOT NULL

ledgerVars == <<status, request, attempts, dueIn, holder, leaseLeft, hasError>>

-----------------------------------------------------------------------------
Statuses == {"absent", "queued", "running", "succeeded", "failed", "cancelled"}
Live == {"queued", "running"}
Terminal == {"succeeded", "failed", "cancelled"}

Request == [module : Modules, kind : Kinds, key : Keys \cup {NoKey},
            priority : Priorities, limit : Limits]

LedgerTypeOK ==
  /\ status \in [Jobs -> Statuses]
  /\ request \in [Jobs -> Request]
  /\ attempts \in [Jobs -> Nat]
  /\ dueIn \in [Jobs -> -Horizon .. MaxDelay]
  /\ holder \in [Jobs -> Workers \cup {Nobody}]
  /\ leaseLeft \in [Jobs -> -1 .. LeaseTime]
  /\ hasError \in [Jobs -> BOOLEAN]

LedgerInit ==
  /\ status = [j \in Jobs |-> "absent"]
  /\ request = [j \in Jobs |-> CHOOSE r \in Request : TRUE]
  /\ attempts = [j \in Jobs |-> 0]
  /\ dueIn = [j \in Jobs |-> 0]
  /\ holder = [j \in Jobs |-> Nobody]
  /\ leaseLeft = [j \in Jobs |-> 0]
  /\ hasError = [j \in Jobs |-> FALSE]

-----------------------------------------------------------------------------
KeyHoldersQueued(kind, key) == \* mutant: the index predicate forgets 'running'
  {j \in Jobs : /\ status[j] = "queued"
                /\ request[j].kind = kind
                /\ request[j].key = key}

\* The partial unique index jobs_idempotency_live_idx: the live rows that
\* already hold kind and key.
KeyHolders(kind, key) ==
  {j \in Jobs : /\ status[j] \in Live
                /\ request[j].kind = kind
                /\ request[j].key = key}

KeyFree(kind, key) == key # NoKey => KeyHolders(kind, key) = {}

ExhaustedLate(j) == attempts[j] > request[j].limit \* mutant: off by one

Exhausted(j) == attempts[j] >= request[j].limit

ExpiredEarly(mods) == \* mutant: locked_until <= now()
  {j \in Jobs : /\ status[j] = "running"
                /\ leaseLeft[j] <= 0
                /\ request[j].module \in mods}

ExpiredRetryable(mods) == \* mutant: AND attempts < max_attempts
  {j \in Jobs : /\ status[j] = "running"
                /\ leaseLeft[j] < 0
                /\ ~Exhausted(j)
                /\ request[j].module \in mods}

\* Rows whose worker died or stalled: running, with locked_until < now().
Expired(mods) ==
  {j \in Jobs : /\ status[j] = "running"
                /\ leaseLeft[j] < 0
                /\ request[j].module \in mods}

\* The sets of rows one sweep may recover: every expired row, or max of them.
Sweeps(mods, max) ==
  IF Cardinality(Expired(mods)) <= max
  THEN {Expired(mods)}
  ELSE {R \in SUBSET Expired(mods) : Cardinality(R) = max}

SweptToQueue(R) == \* mutant: a sweep never fails a row
  [j \in Jobs |-> IF j \in R THEN "queued" ELSE status[j]]

\* The columns after a sweep of the rows R.
SweptStatus(R) ==
  [j \in Jobs |-> IF j \in R THEN IF Exhausted(j) THEN "failed" ELSE "queued"
                             ELSE status[j]]
SweptHolder(R) == [j \in Jobs |-> IF j \in R THEN Nobody ELSE holder[j]]
SweptLease(R) == [j \in Jobs |-> IF j \in R THEN 0 ELSE leaseLeft[j]]
SweptError(R) == [j \in Jobs |-> j \in R \/ hasError[j]]

\* ORDER BY priority, run_after (rows equal in both are taken in any order).
Before(i, j) ==
  \/ request[i].priority < request[j].priority
  \/ request[i].priority = request[j].priority /\ dueIn[i] < dueIn[j]

\* The rows a claim may take once the rows R have been swept.
Claimable(R, mod, kinds) ==
  LET ready == {j \in Jobs : /\ SweptStatus(R)[j] = "queued"
                             /\ request[j].module = mod
                             /\ request[j].kind \in kinds
                             /\ dueIn[j] <= 0}
  IN {j \in ready : \A i \in ready : ~Before(i, j)}

-----------------------------------------------------------------------------
\* INSERT ... ON CONFLICT DO NOTHING, when it inserts.
Insert(j, r, delay) ==
  /\ status[j] = "absent"
  /\ KeyFree(r.kind, r.key)
  /\ status' = [status EXCEPT ![j] = "queued"]
  /\ request' = [request EXCEPT ![j] = r]
  /\ dueIn' = [dueIn EXCEPT ![j] = delay]
  /\ UNCHANGED <<attempts, holder, leaseLeft, hasError>>

\* claim_job, when a row is claimable: sweep, then take the first row.
Take(w, R, j) ==
  /\ status' = [SweptStatus(R) EXCEPT ![j] = "running"]
  /\ attempts' = [attempts EXCEPT ![j] = @ + 1]
  /\ holder' = [SweptHolder(R) EXCEPT ![j] = w]
  /\ leaseLeft' = [SweptLease(R) EXCEPT ![j] = LeaseTime]
  /\ hasError' = SweptError(R)
  /\ UNCHANGED <<request, dueIn>>

ClaimJob(w, mod, kinds, j) ==
  \E R \in Sweeps(Modules, SweepMax) :
    j \in Claimable(R, mod, kinds) /\ Take(w, R, j)

\* A sweep of the rows R and nothing else.
Sweep(R) ==
  /\ status' = SweptStatus(R)
  /\ holder' = SweptHolder(R)
  /\ leaseLeft' = SweptLease(R)
  /\ hasError' = SweptError(R)
  /\ UNCHANGED <<request, attempts, dueIn>>

\* reap_expired_leases on its own, for one module or for all of them.
Reap(mods, max) == \E R \in Sweeps(mods, max) : Sweep(R)

\* claim_job, when nothing is claimable: the sweep still happens.
ClaimNothing(mod, kinds) ==
  \E R \in Sweeps(Modules, SweepMax) :
    Claimable(R, mod, kinds) = {} /\ Sweep(R)

\* heartbeat_job's WHERE clause, and its effect when the row matches.
BeatMatches(j, w) == holder[j] = w /\ status[j] = "running"

Heartbeat(j, w) ==
  /\ BeatMatches(j, w)
  /\ leaseLeft' = [leaseLeft EXCEPT ![j] = LeaseTime]
  /\ UNCHANGED <<status, request, attempts, dueIn, holder, hasError>>

FinishMatchesRunning(j, w) == status[j] = "running" \* mutant: no worker check

\* finish_job's WHERE clause, and its three branches when the row matches.
FinishMatches(j, w) == holder[j] = w

ReleaseTime(j) == \* mutant: only locked_until is cleared
  /\ leaseLeft' = [leaseLeft EXCEPT ![j] = 0]
  /\ UNCHANGED holder

Release(j) ==
  /\ holder' = [holder EXCEPT ![j] = Nobody]
  /\ leaseLeft' = [leaseLeft EXCEPT ![j] = 0]

FinishSucceeded(j, w) ==
  /\ FinishMatches(j, w)
  /\ status' = [status EXCEPT ![j] = "succeeded"]
  /\ Release(j)
  /\ UNCHANGED <<request, attempts, dueIn, hasError>>

FinishFailed(j, w) ==
  /\ FinishMatches(j, w)
  /\ Exhausted(j)
  /\ status' = [status EXCEPT ![j] = "failed"]
  /\ hasError' = [hasError EXCEPT ![j] = TRUE]
  /\ Release(j)
  /\ UNCHANGED <<request, attempts, dueIn>>

Greatest0(n) == IF n > 0 THEN n ELSE 0 \* greatest(n, 0)

FinishRequeued(j, w, delay) ==
  /\ FinishMatches(j, w)
  /\ ~Exhausted(j)
  /\ status' = [status EXCEPT ![j] = "queued"]
  /\ hasError' = [hasError EXCEPT ![j] = TRUE]
  /\ dueIn' = [dueIn EXCEPT ![j] = Greatest0(delay)]
  /\ Release(j)
  /\ UNCHANGED <<request, attempts>>

\* cancel_job on a queued or running row; any other row is left unchanged.
Cancellable(j) == status[j] \in Live

Cancel(j) ==
  /\ Cancellable(j)
  /\ status' = [status EXCEPT ![j] = "cancelled"]
  /\ hasError' = [hasError EXCEPT ![j] = TRUE]
  /\ Release(j)
  /\ UNCHANGED <<request, attempts, dueIn>>

\* retry_job's UPDATE, which the unique index guards whatever the function
\* saw in its own check.  The only caller passes no _run_after.
Retryable(j) == status[j] \in {"failed", "cancelled"}

Requeue(j) ==
  /\ Retryable(j)
  /\ KeyFree(request[j].kind, request[j].key)
  /\ status' = [status EXCEPT ![j] = "queued"]
  /\ attempts' = [attempts EXCEPT ![j] = 0]
  /\ dueIn' = [dueIn EXCEPT ![j] = 0]
  /\ hasError' = [hasError EXCEPT ![j] = TRUE]
  /\ Release(j)
  /\ UNCHANGED request

\* One tick of the database clock.
Tick ==
  /\ dueIn' = [j \in Jobs |-> IF status[j] \in Live /\ dueIn[j] > -Horizon
                              THEN dueIn[j] - 1 ELSE dueIn[j]]
  /\ leaseLeft' = [j \in Jobs |-> IF status[j] = "running" /\ leaseLeft[j] >= 0
                                  THEN leaseLeft[j] - 1 ELSE leaseLeft[j]]
  /\ UNCHANGED <<status, request, attempts, holder, hasError>>

-----------------------------------------------------------------------------
SomeClaim ==
  \E w \in Workers, m \in Modules, K \in SUBSET Kinds, j \in Jobs : ClaimJob(w, m, K, j)

OtherCall ==
  \/ \E j \in Jobs, r \in Request, delay \in 0 .. MaxDelay : Insert(j, r, delay)
  \/ \E m \in Modules, K \in SUBSET Kinds : ClaimNothing(m, K)
  \/ \E M \in SUBSET Modules, max \in 1 .. SweepMax : Reap(M, max)
  \/ \E j \in Jobs, w \in Workers :
       \/ Heartbeat(j, w)
       \/ FinishSucceeded(j, w)
       \/ FinishFailed(j, w)
       \/ \E delay \in 0 .. MaxDelay : FinishRequeued(j, w, delay)
  \/ \E j \in Jobs : Cancel(j) \/ Requeue(j)
  \/ Tick

LedgerNext == SomeClaim \/ OtherCall

LedgerSpec == LedgerInit /\ [][LedgerNext]_ledgerVars

-----------------------------------------------------------------------------
\* The CHECK constraint jobs_running_has_lease and its converse: a row has a
\* lease exactly while it is running, so no row is claimed but invisible to
\* the reaper, and no finished or requeued row still belongs to a worker.
LeaseIffRunning ==
  \A j \in Jobs : /\ status[j] = "running" <=> holder[j] # Nobody
                  /\ holder[j] = Nobody => leaseLeft[j] = 0

\* De-duplication: at most one live row holds a (kind, idempotency_key),
\* whatever order enqueues, finishes, sweeps and operator retries come in.
OneLiveJobPerKey ==
  \A i, j \in Jobs :
    /\ i # j
    /\ status[i] \in Live /\ status[j] \in Live
    /\ request[i].key # NoKey
    => <<request[i].kind, request[i].key>> # <<request[j].kind, request[j].key>>

\* The attempt budget: a row is never claimed more than limit times between
\* operator retries, it waits in the queue only while attempts remain (no
\* claim can exceed the budget), and it is failed only when none remain.
AttemptsWithinLimit ==
  \A j \in Jobs :
    /\ attempts[j] <= request[j].limit
    /\ status[j] = "queued" => ~Exhausted(j)
    /\ status[j] = "running" => attempts[j] > 0
    /\ status[j] = "failed" => Exhausted(j)
    /\ status[j] = "absent" => attempts[j] = 0

\* Finished rows are settled: no late finish, heartbeat, sweep or cancel
\* rewrites the outcome, and only an operator's retry reopens a failed or
\* cancelled row, with a fresh attempt budget.
SettledStays ==
  \A j \in Jobs :
    status[j] \in Terminal /\ status'[j] # status[j] =>
      /\ status[j] # "succeeded"
      /\ status'[j] = "queued"
      /\ attempts'[j] = 0

TerminalIsSticky == [][SettledStays]_ledgerVars

\* A running row changes hands only after its lease has run out, and the new
\* attempt is counted: no claim takes work from a worker within its lease.
LeaseProtects ==
  \A j \in Jobs :
    /\ status[j] = "running" /\ status'[j] = "running"
    /\ attempts'[j] # attempts[j] \/ holder'[j] # holder[j]
    => leaseLeft[j] < 0 /\ attempts'[j] = attempts[j] + 1

NoTakeoverWithinLease == [][LeaseProtects]_ledgerVars

\* The ledger implements the contract of JobContract: sweeps, claims, late
\* verdicts and operator actions move each job only along its life cycle.
Contract == INSTANCE JobContract
              WITH phase <- status, quota <- [j \in Jobs |-> request[j].limit],
                   tries <- attempts, owner <- holder

ImplementsContract == Contract!Spec
=============================================================================
