------------------------------ MODULE ScanQuota ------------------------------
(***************************************************************************)
(* Grant scans of one tenant: request_scan counts the scans of the month   *)
(* in the job ledger, compares with the plan's limit and enqueues a job    *)
(* under a key that names the minute.  The jobs move as the ledger moves   *)
(* them (modelled in JobLedger); what counts here is their status.         *)
(***************************************************************************)
EXTENDS Integers, FiniteSets

CONSTANTS
  Requests,  \* concurrent requests
  Scans,     \* the tenant's scan jobs
  Limit,     \* scans_per_month
  MaxMinute, \* bound on the clock
  MaxRetries \* bound on the operator's retries

ASSUME ScanAssumption ==
  /\ IsFiniteSet(Requests) /\ Requests # {} /\ IsFiniteSet(Scans)
  /\ Limit \in Nat /\ MaxMinute \in Nat /\ MaxRetries \in Nat

VARIABLES
  minute,
  scan,    \* a job: its status
  key,     \* the minute in its idempotency key
  stage,   \* a request: "idle", or "counted" below the limit
  \* history variables
  beside,  \* a request: another one has enqueued a scan since it began
  retries  \* retries by the operator so far

vars == <<minute, scan, key, stage, beside, retries>>

Live == {"queued", "running"}
Statuses == Live \cup {"succeeded", "failed", "cancelled"}

TypeOK ==
  /\ minute \in 0 .. MaxMinute
  /\ scan \in [Scans -> Statuses \cup {"absent"}]
  /\ key \in [Scans -> 0 .. MaxMinute]
  /\ stage \in [Requests -> {"idle", "counted"}]
  /\ beside \in [Requests -> BOOLEAN]
  /\ retries \in 0 .. MaxRetries
  /\ \A s, t \in Scans :
       scan[s] \in Live /\ scan[t] \in Live /\ key[s] = key[t] => s = t

Init ==
  /\ minute = 0
  /\ scan = [s \in Scans |-> "absent"]
  /\ key = [s \in Scans |-> 0]
  /\ stage = [r \in Requests |-> "idle"]
  /\ beside = [r \in Requests |-> FALSE]
  /\ retries = 0

-----------------------------------------------------------------------------
\* _scans_this_month: cancelled and failed jobs are not counted.
Counted == {s \in Scans : scan[s] \notin {"absent", "cancelled", "failed"}}
Used == Cardinality(Counted)

CountOver(r) == \* mutant: used > limit
  /\ stage[r] = "idle" /\ Used <= Limit
  /\ stage' = [stage EXCEPT ![r] = "counted"]
  /\ beside' = [beside EXCEPT ![r] = FALSE]
  /\ UNCHANGED <<minute, scan, key, retries>>

\* The count and the comparison; at the limit the request is refused.
Count(r) ==
  /\ stage[r] = "idle" /\ Used < Limit
  /\ stage' = [stage EXCEPT ![r] = "counted"]
  /\ beside' = [beside EXCEPT ![r] = FALSE]
  /\ UNCHANGED <<minute, scan, key, retries>>

\* The live job under this minute's key.
Holders == {s \in Scans : scan[s] \in Live /\ key[s] = minute}

Answer(r) == stage' = [stage EXCEPT ![r] = "idle"]

\* enqueue, when it inserts a job.
Enqueue(r, s) ==
  /\ stage[r] = "counted" /\ scan[s] = "absent" /\ Holders = {}
  /\ scan' = [scan EXCEPT ![s] = "queued"]
  /\ key' = [key EXCEPT ![s] = minute]
  /\ Answer(r)
  /\ beside' = [q \in Requests |-> q # r]
  /\ UNCHANGED <<minute, retries>>

\* enqueue, when the job exists: it is returned.  Or the request fails.
EnqueueNothing(r) ==
  /\ stage[r] = "counted"
  /\ Answer(r)
  /\ UNCHANGED <<minute, scan, key, beside, retries>>

-----------------------------------------------------------------------------
Moves(s, from, to) ==
  /\ scan[s] \in from
  /\ \E status \in to : scan' = [scan EXCEPT ![s] = status]

\* The worker's claim, its outcome and the sweep of a lost lease.
Work(s) ==
  /\ \/ Moves(s, {"queued"}, {"running"})
     \/ Moves(s, {"running"}, {"succeeded", "failed", "queued"})
  /\ UNCHANGED <<minute, key, stage, beside, retries>>

Cancel(s) ==
  /\ Moves(s, Live, {"cancelled"})
  /\ UNCHANGED <<minute, key, stage, beside, retries>>

\* retry_job, unless a live job has the key.
Retry(s) ==
  /\ retries < MaxRetries
  /\ \A t \in Scans : scan[t] \in Live => key[t] # key[s]
  /\ Moves(s, {"failed", "cancelled"}, {"queued"})
  /\ retries' = retries + 1
  /\ UNCHANGED <<minute, key, stage, beside>>

Tick ==
  /\ minute < MaxMinute
  /\ minute' = minute + 1
  /\ UNCHANGED <<scan, key, stage, beside, retries>>

Next ==
  \/ \E r \in Requests : Count(r) \/ EnqueueNothing(r) \/ \E s \in Scans : Enqueue(r, s)
  \/ \E s \in Scans : Work(s) \/ Cancel(s) \/ Retry(s)
  \/ Tick

Spec == Init /\ [][Next]_vars

-----------------------------------------------------------------------------
\* See ScanInv.
QuotaStretch == Used <= Limit + Cardinality(Requests) - 1 + retries

\* Types, and one live job per key; and how far the limit of
\* grant_service.py:195 stretches: by the requests that count at the same time,
\* and by the jobs an operator retries after their scan was given back.
ScanInv == TypeOK /\ QuotaStretch
=============================================================================
