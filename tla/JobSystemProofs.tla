--------------------------- MODULE JobSystemProofs ----------------------------
(***************************************************************************)
(* Proofs about JobLedger and JobSystem, for any jobs, queues, workers and *)
(* bounds.  The ledger first: its types, what a lease means, how a job is  *)
(* spent, and that it implements JobContract.  Then the programs, which use*)
(* the ledger only through its functions, so that its theorems are theirs: *)
(* who may write a result, that a running job is somebody's, and that a    *)
(* worker which still beats keeps it.                                      *)
(***************************************************************************)
EXTENDS JobSystem, TLAPS

-----------------------------------------------------------------------------
\* A sweep recovers expired rows only.
LEMMA SweepsExpired ==
  ASSUME NEW mods, NEW max, NEW R \in Sweeps(mods, max)
  PROVE  R \subseteq Expired(mods)
  BY DEF Sweeps

\* A claimed row was waiting, or was running with an expired lease and
\* attempts left, before the claim's own sweep.
LEMMA ClaimedRow ==
  ASSUME NEW R, NEW mod, NEW kinds, NEW j \in Claimable(R, mod, kinds)
  PROVE  /\ j \in Jobs
         /\ j \in R => ~Exhausted(j)
         /\ j \notin R => status[j] = "queued"
  BY DEF Claimable, SweptStatus

-----------------------------------------------------------------------------
\* Every column keeps its type, whoever calls which function in which order.
LEMMA TypeInit == LedgerInit => LedgerTypeOK
  <1> SUFFICES ASSUME LedgerInit PROVE LedgerTypeOK
    OBVIOUS
  <1>1. \E r : r \in Request
    <2>1. PICK m \in Modules, k \in Kinds, p \in Priorities, n \in Limits : TRUE
      BY LedgerAssumption
    <2>2. [module |-> m, kind |-> k, key |-> NoKey, priority |-> p, limit |-> n] \in Request
      BY DEF Request
    <2> QED
      BY <2>2
  <1>2. (CHOOSE r \in Request : TRUE) \in Request
    BY <1>1
  <1> QED
    BY <1>2, LedgerAssumption DEF LedgerInit, LedgerTypeOK, Statuses

LEMMA TypeNext == LedgerTypeOK /\ [LedgerNext]_ledgerVars => LedgerTypeOK'
  <1> SUFFICES ASSUME LedgerTypeOK, [LedgerNext]_ledgerVars PROVE LedgerTypeOK'
    OBVIOUS
  <1> USE LedgerAssumption DEF LedgerTypeOK, Statuses
  <1>1. ASSUME NEW j \in Jobs, NEW r \in Request, NEW delay \in 0 .. MaxDelay,
               Insert(j, r, delay)
        PROVE  LedgerTypeOK'
    BY <1>1 DEF Insert
  <1>2. ASSUME NEW w \in Workers, NEW m \in Modules, NEW K \in SUBSET Kinds,
               NEW j \in Jobs, ClaimJob(w, m, K, j)
        PROVE  LedgerTypeOK'
    BY <1>2 DEF ClaimJob, Take, SweptStatus, SweptHolder, SweptLease, SweptError
  <1>3. ASSUME NEW R, Sweep(R)
        PROVE  LedgerTypeOK'
    BY <1>3 DEF Sweep, SweptStatus, SweptHolder, SweptLease, SweptError
  <1>4. ASSUME NEW j \in Jobs, NEW w \in Workers, Heartbeat(j, w)
        PROVE  LedgerTypeOK'
    BY <1>4 DEF Heartbeat
  <1>5. ASSUME NEW j \in Jobs, NEW w \in Workers,
               FinishSucceeded(j, w) \/ FinishFailed(j, w)
        PROVE  LedgerTypeOK'
    <2>1. CASE FinishSucceeded(j, w)
      BY <2>1 DEF FinishSucceeded, Release
    <2>2. CASE FinishFailed(j, w)
      BY <2>2 DEF FinishFailed, Release
    <2> QED
      BY <1>5, <2>1, <2>2
  <1>6. ASSUME NEW j \in Jobs, NEW w \in Workers, NEW delay \in 0 .. MaxDelay,
               FinishRequeued(j, w, delay)
        PROVE  LedgerTypeOK'
    BY <1>6 DEF FinishRequeued, Release, Greatest0
  <1>7. ASSUME NEW j \in Jobs, Cancel(j) \/ Requeue(j)
        PROVE  LedgerTypeOK'
    <2>1. CASE Cancel(j)
      BY <2>1 DEF Cancel, Release
    <2>2. CASE Requeue(j)
      BY <2>2 DEF Requeue, Release
    <2> QED
      BY <1>7, <2>1, <2>2
  <1>8. CASE Tick
    BY <1>8 DEF Tick
  <1>9. CASE UNCHANGED ledgerVars
    BY <1>9 DEF ledgerVars
  <1> QED
    BY <1>1, <1>2, <1>3, <1>4, <1>5, <1>6, <1>7, <1>8, <1>9
       DEF LedgerNext, SomeClaim, OtherCall, ClaimNothing, Reap

THEOREM TypeCorrect == LedgerSpec => []LedgerTypeOK
  <1> QED
    BY TypeInit, TypeNext, PTL DEF LedgerSpec

-----------------------------------------------------------------------------
\* The inductive invariant.  The three invariants hold each other up: a
\* finish that passes its worker check finds a running row only because of
\* LeaseIffRunning, and a sweep puts back only rows with attempts left, which
\* is what AttemptsWithinLimit says of waiting rows.
LedgerInv ==
  LedgerTypeOK /\ LeaseIffRunning /\ OneLiveJobPerKey /\ AttemptsWithinLimit

\* max_attempts is at least one.
LEMMA BudgetsPositive == \A r \in Request : r.limit \in Nat \ {0}
  BY LedgerAssumption DEF Request

LEMMA InvInit == LedgerInit => LedgerInv
  <1> SUFFICES ASSUME LedgerInit PROVE LedgerInv
    OBVIOUS
  <1>1. LedgerTypeOK
    BY TypeInit
  <1>2. \A j \in Jobs : request[j].limit \in Nat \ {0}
    BY <1>1, BudgetsPositive DEF LedgerTypeOK
  <1> QED
    BY <1>1, <1>2
       DEF LedgerInit, LedgerInv, LeaseIffRunning, OneLiveJobPerKey,
           AttemptsWithinLimit, Live, Exhausted

\* A step that brings no row to life and renames no key keeps keys unique.
LEMMA KeysKept ==
  ASSUME OneLiveJobPerKey,
         UNCHANGED request,
         \A j \in Jobs : status'[j] \in Live => status[j] \in Live
  PROVE  OneLiveJobPerKey'
  BY DEF OneLiveJobPerKey

\* A step that brings one row to life keeps keys unique if its key was free.
LEMMA KeyTaken ==
  ASSUME OneLiveJobPerKey, NEW j \in Jobs,
         KeyFree(request'[j].kind, request'[j].key),
         status[j] \notin Live,
         \A i \in Jobs \ {j} : request'[i] = request[i] /\ status'[i] = status[i]
  PROVE  OneLiveJobPerKey'
  BY DEF OneLiveJobPerKey, KeyFree, KeyHolders

\* The sweep: expired rows go back to the queue or are failed.
LEMMA SweepKeepsInv ==
  ASSUME LedgerInv, NEW R, R \subseteq Expired(Modules), Sweep(R)
  PROVE  LedgerInv'
  <1> USE DEF LedgerInv
  <1>1. LedgerTypeOK'
    BY LedgerAssumption
       DEF Sweep, LedgerTypeOK, Statuses, SweptStatus, SweptHolder,
           SweptLease, SweptError
  <1>2. R \subseteq Jobs /\ \A j \in R : status[j] = "running"
    BY DEF Expired
  <1>3. LeaseIffRunning'
    BY <1>2 DEF Sweep, LedgerTypeOK, LeaseIffRunning, SweptStatus, SweptHolder,
                SweptLease
  <1>4. OneLiveJobPerKey'
    BY <1>2, KeysKept DEF Sweep, SweptStatus, Live
  <1>5. AttemptsWithinLimit'
    BY <1>2 DEF Sweep, AttemptsWithinLimit, SweptStatus, Exhausted
  <1> QED
    BY <1>1, <1>3, <1>4, <1>5

\* The claim: its sweep, and one row that was waiting or has just been swept.
LEMMA TakeKeepsInv ==
  ASSUME LedgerInv, NEW R, R \subseteq Expired(Modules),
         NEW w \in Workers, NEW mod, NEW kinds,
         NEW j \in Claimable(R, mod, kinds), Take(w, R, j)
  PROVE  LedgerInv'
  <1> USE DEF LedgerInv
  <1>1. R \subseteq Jobs /\ \A i \in R : status[i] = "running"
    BY DEF Expired
  <1>2. j \in Jobs /\ (j \in R => ~Exhausted(j)) /\ (j \notin R => status[j] = "queued")
    BY ClaimedRow
  <1>3. ~Exhausted(j)
    BY <1>2 DEF AttemptsWithinLimit
  <1>4. LedgerTypeOK'
    BY <1>2, LedgerAssumption
       DEF Take, LedgerTypeOK, Statuses, SweptStatus, SweptHolder, SweptLease,
           SweptError
  <1>5. LeaseIffRunning'
    BY <1>1, <1>2, LedgerAssumption
       DEF Take, LedgerTypeOK, LeaseIffRunning, SweptStatus, SweptHolder, SweptLease
  <1>6. OneLiveJobPerKey'
    BY <1>1, <1>2, KeysKept DEF Take, SweptStatus, Live
  <1>7. AttemptsWithinLimit'
    <2>1. \A i \in Jobs : attempts[i] \in Nat /\ request[i].limit \in Nat
      BY LedgerAssumption DEF LedgerTypeOK, Request
    <2>2. attempts'[j] = attempts[j] + 1 /\ attempts[j] < request[j].limit
      BY <1>2, <1>3, <2>1 DEF Take, Exhausted, LedgerTypeOK
    <2> QED
      BY <1>1, <1>2, <2>1, <2>2
         DEF Take, AttemptsWithinLimit, SweptStatus, Exhausted, LedgerTypeOK
  <1> QED
    BY <1>4, <1>5, <1>6, <1>7

LEMMA InvNext == LedgerInv /\ [LedgerNext]_ledgerVars => LedgerInv'
  <1> SUFFICES ASSUME LedgerInv, [LedgerNext]_ledgerVars PROVE LedgerInv'
    OBVIOUS
  <1> USE DEF LedgerInv
  <1>0. LedgerTypeOK'
    BY TypeNext
  <1>1. ASSUME NEW j \in Jobs, NEW r \in Request, NEW delay \in 0 .. MaxDelay,
               Insert(j, r, delay)
        PROVE  LedgerInv'
    <2>1. LeaseIffRunning'
      BY <1>1 DEF Insert, LedgerTypeOK, LeaseIffRunning
    <2>2. OneLiveJobPerKey'
      BY <1>1, KeyTaken DEF Insert, LedgerTypeOK, Live
    <2>3. AttemptsWithinLimit'
      BY <1>0, <1>1, BudgetsPositive
         DEF Insert, LedgerTypeOK, AttemptsWithinLimit, Exhausted
    <2> QED
      BY <1>0, <2>1, <2>2, <2>3
  <1>2. ASSUME NEW w \in Workers, NEW m \in Modules, NEW K \in SUBSET Kinds,
               NEW j \in Jobs, ClaimJob(w, m, K, j)
        PROVE  LedgerInv'
    BY <1>2, SweepsExpired, TakeKeepsInv DEF ClaimJob
  <1>3. ASSUME NEW M \in SUBSET Modules, NEW max, Reap(M, max)
        PROVE  LedgerInv'
    <2>1. Expired(M) \subseteq Expired(Modules)
      BY DEF Expired
    <2> QED
      BY <1>3, <2>1, SweepsExpired, SweepKeepsInv DEF Reap
  <1>4. ASSUME NEW m \in Modules, NEW K \in SUBSET Kinds, ClaimNothing(m, K)
        PROVE  LedgerInv'
    BY <1>4, SweepsExpired, SweepKeepsInv DEF ClaimNothing
  <1>5. ASSUME NEW j \in Jobs, NEW w \in Workers, Heartbeat(j, w)
        PROVE  LedgerInv'
    <2>1. LeaseIffRunning'
      BY <1>5, LedgerAssumption DEF Heartbeat, BeatMatches, LedgerTypeOK, LeaseIffRunning
    <2>2. OneLiveJobPerKey' /\ AttemptsWithinLimit'
      BY <1>5 DEF Heartbeat, OneLiveJobPerKey, AttemptsWithinLimit, Exhausted
    <2> QED
      BY <1>0, <2>1, <2>2
  <1>6. ASSUME NEW j \in Jobs, NEW w \in Workers, NEW delay,
               FinishSucceeded(j, w) \/ FinishFailed(j, w) \/ FinishRequeued(j, w, delay)
        PROVE  LedgerInv'
    <2> USE DEF FinishSucceeded, FinishFailed, FinishRequeued, Release
    <2>1. FinishMatches(j, w) /\ status[j] = "running"
      BY <1>6, LedgerAssumption DEF FinishMatches, LeaseIffRunning
    <2>2. LeaseIffRunning'
      BY <1>6, <2>1 DEF LedgerTypeOK, LeaseIffRunning
    <2>3. OneLiveJobPerKey'
      BY <1>6, <2>1, KeysKept DEF Live, LedgerTypeOK
    <2>4. AttemptsWithinLimit'
      BY <1>6, <2>1 DEF AttemptsWithinLimit, Exhausted, LedgerTypeOK
    <2> QED
      BY <1>0, <2>2, <2>3, <2>4
  <1>7. ASSUME NEW j \in Jobs, Cancel(j)
        PROVE  LedgerInv'
    <2>1. LeaseIffRunning'
      BY <1>7 DEF Cancel, Release, LedgerTypeOK, LeaseIffRunning
    <2>2. OneLiveJobPerKey'
      BY <1>7, KeysKept DEF Cancel, Live, LedgerTypeOK
    <2>3. AttemptsWithinLimit'
      BY <1>7 DEF Cancel, AttemptsWithinLimit, Exhausted, LedgerTypeOK
    <2> QED
      BY <1>0, <2>1, <2>2, <2>3
  <1>8. ASSUME NEW j \in Jobs, Requeue(j)
        PROVE  LedgerInv'
    <2>1. LeaseIffRunning'
      BY <1>8 DEF Requeue, Release, LedgerTypeOK, LeaseIffRunning
    <2>2. OneLiveJobPerKey'
      BY <1>8, KeyTaken DEF Requeue, Retryable, Live, LedgerTypeOK
    <2>3. AttemptsWithinLimit'
      BY <1>8, BudgetsPositive
         DEF Requeue, AttemptsWithinLimit, Exhausted, LedgerTypeOK
    <2> QED
      BY <1>0, <2>1, <2>2, <2>3
  <1>9. CASE Tick
    <2>1. LeaseIffRunning'
      BY <1>9 DEF Tick, LedgerTypeOK, LeaseIffRunning
    <2>2. OneLiveJobPerKey' /\ AttemptsWithinLimit'
      BY <1>9 DEF Tick, OneLiveJobPerKey, AttemptsWithinLimit, Exhausted
    <2> QED
      BY <1>0, <2>1, <2>2
  <1>10. CASE UNCHANGED ledgerVars
    BY <1>10 DEF ledgerVars, LedgerTypeOK, LeaseIffRunning, OneLiveJobPerKey,
                 AttemptsWithinLimit, Exhausted
  <1> QED
    BY <1>1, <1>2, <1>3, <1>4, <1>5, <1>6, <1>7, <1>8, <1>9, <1>10 DEF LedgerNext, SomeClaim, OtherCall

\* The invariant holds in every state the open ledger can reach.
THEOREM LedgerInvariant == LedgerSpec => []LedgerInv
  <1> QED
    BY InvInit, InvNext, PTL DEF LedgerSpec

\* A row has a lease exactly while it is running.
THEOREM LeasesAreExact == LedgerSpec => []LeaseIffRunning
  <1>1. LedgerInv => LeaseIffRunning
    BY DEF LedgerInv
  <1> QED
    BY <1>1, LedgerInvariant, PTL

\* No two live rows share a kind and an idempotency key.
THEOREM KeysAreUnique == LedgerSpec => []OneLiveJobPerKey
  <1>1. LedgerInv => OneLiveJobPerKey
    BY DEF LedgerInv
  <1> QED
    BY <1>1, LedgerInvariant, PTL

\* No row is tried more often than its budget allows.
THEOREM BudgetIsKept == LedgerSpec => []AttemptsWithinLimit
  <1>1. LedgerInv => AttemptsWithinLimit
    BY DEF LedgerInv
  <1> QED
    BY <1>1, LedgerInvariant, PTL

-----------------------------------------------------------------------------
\* Under the invariant, a row is exhausted exactly when its budget is used up.
LEMMA ExhaustedExactly ==
  ASSUME LedgerInv, NEW i \in Jobs
  PROVE  /\ Exhausted(i) => attempts[i] = request[i].limit
         /\ ~Exhausted(i) => attempts[i] < request[i].limit
  <1>1. attempts[i] \in Nat /\ request[i].limit \in Nat
    BY BudgetsPositive DEF LedgerInv, LedgerTypeOK
  <1>2. attempts[i] <= request[i].limit
    BY DEF LedgerInv, AttemptsWithinLimit
  <1> QED
    BY <1>1, <1>2 DEF Exhausted

\* What one step does to one row, seen from outside: the rows that an action
\* does not name are left alone, apart from what its sweep does.
LEMMA SweptRowLives ==
  ASSUME LedgerInv, NEW R, R \subseteq Expired(Modules), NEW i \in Jobs,
         status'[i] = SweptStatus(R)[i], holder'[i] = SweptHolder(R)[i],
         attempts'[i] = attempts[i], UNCHANGED request
  PROVE  Contract!Lives(i)
  <1>1. CASE i \in R
    <2>1. status[i] = "running"
      BY <1>1 DEF Expired
    <2>2. holder'[i] = Nobody
      BY <1>1 DEF SweptHolder
    <2>3. CASE Exhausted(i)
      <3>1. status'[i] = "failed" /\ attempts[i] = request[i].limit
        BY <1>1, <2>3, ExhaustedExactly DEF SweptStatus
      <3> QED
        BY <2>1, <2>2, <3>1 DEF Contract!Lives, Contract!GaveUp, Contract!Goes
    <2>4. CASE ~Exhausted(i)
      <3>1. status'[i] = "queued" /\ attempts[i] < request[i].limit
        BY <1>1, <2>4, ExhaustedExactly DEF SweptStatus
      <3> QED
        BY <2>1, <2>2, <3>1 DEF Contract!Lives, Contract!TriedInVain, Contract!Goes
    <2> QED
      BY <2>3, <2>4
  <1>2. CASE i \notin R
    BY <1>2 DEF SweptStatus, SweptHolder, Contract!Lives, Contract!Idle
  <1> QED
    BY <1>1, <1>2

LEMMA TakenRowLives ==
  ASSUME LedgerInv, NEW R, R \subseteq Expired(Modules),
         NEW w \in Workers, NEW mod, NEW kinds,
         NEW j \in Claimable(R, mod, kinds), Take(w, R, j)
  PROVE  Contract!Lives(j)
  <1>1. j \in Jobs /\ (j \in R => ~Exhausted(j)) /\ (j \notin R => status[j] = "queued")
    BY ClaimedRow
  <1>2. status[j] \in {"queued", "running"}
    BY <1>1 DEF Expired
  <1>3. attempts[j] < request[j].limit
    BY <1>1, ExhaustedExactly DEF LedgerInv, AttemptsWithinLimit
  <1>4. /\ status'[j] = "running" /\ attempts'[j] = attempts[j] + 1
        /\ holder'[j] = w /\ UNCHANGED request
    BY <1>1 DEF Take, LedgerInv, LedgerTypeOK, SweptStatus, SweptHolder
  <1> QED
    BY <1>1, <1>2, <1>3, <1>4 DEF Contract!Lives, Contract!Started, Contract!Goes

LEMMA StepLives ==
  ASSUME LedgerInv, [LedgerNext]_ledgerVars
  PROVE  Contract!Next
  <1> SUFFICES ASSUME NEW i \in Jobs PROVE Contract!Lives(i)
    BY DEF Contract!Next
  <1> USE DEF LedgerInv
  <1> DEFINE Untouched ==
        /\ status'[i] = status[i] /\ attempts'[i] = attempts[i]
        /\ holder'[i] = holder[i] /\ request'[i] = request[i]
  <1>0. Untouched => Contract!Lives(i)
    BY DEF Contract!Lives, Contract!Idle
  <1>1. ASSUME NEW j \in Jobs, NEW r \in Request, NEW delay \in 0 .. MaxDelay,
               Insert(j, r, delay)
        PROVE  Contract!Lives(i)
    <2>1. CASE i = j
      <3>1. status[i] = "absent" /\ status'[i] = "queued" /\ attempts'[i] = 0
        BY <1>1, <2>1 DEF Insert, LedgerTypeOK, AttemptsWithinLimit
      <3>2. holder'[i] = Nobody
        BY <1>1, <2>1, <3>1 DEF Insert, LeaseIffRunning
      <3>3. request'[i].limit \in Limits
        BY <1>1, <2>1 DEF Insert, LedgerTypeOK, Request
      <3> QED
        BY <3>1, <3>2, <3>3 DEF Contract!Lives, Contract!Submitted, Contract!Goes
    <2>2. CASE i # j
      BY <1>0, <1>1, <2>2 DEF Insert, LedgerTypeOK
    <2> QED
      BY <2>1, <2>2
  <1>2. ASSUME NEW w \in Workers, NEW m \in Modules, NEW K \in SUBSET Kinds,
               NEW j \in Jobs, ClaimJob(w, m, K, j)
        PROVE  Contract!Lives(i)
    <2>1. PICK R \in Sweeps(Modules, SweepMax) : j \in Claimable(R, m, K) /\ Take(w, R, j)
      BY <1>2 DEF ClaimJob
    <2>2. R \subseteq Expired(Modules)
      BY SweepsExpired
    <2>3. CASE i = j
      BY <2>1, <2>2, <2>3, TakenRowLives
    <2>4. CASE i # j
      <3>1. /\ status'[i] = SweptStatus(R)[i] /\ holder'[i] = SweptHolder(R)[i]
            /\ attempts'[i] = attempts[i] /\ UNCHANGED request
        BY <2>1, <2>4 DEF Take, SweptStatus, SweptHolder, LedgerTypeOK
      <3> QED
        BY <2>2, <3>1, SweptRowLives
    <2> QED
      BY <2>3, <2>4
  <1>3. ASSUME NEW R, R \subseteq Expired(Modules), Sweep(R)
        PROVE  Contract!Lives(i)
    BY <1>3, SweptRowLives DEF Sweep
  <1>4. ASSUME NEW j \in Jobs, NEW w \in Workers, Heartbeat(j, w)
        PROVE  Contract!Lives(i)
    BY <1>0, <1>4 DEF Heartbeat
  <1>5. ASSUME NEW j \in Jobs, NEW w \in Workers, NEW delay,
               FinishSucceeded(j, w) \/ FinishFailed(j, w) \/ FinishRequeued(j, w, delay)
        PROVE  Contract!Lives(i)
    <2> USE DEF FinishSucceeded, FinishFailed, FinishRequeued, Release
    <2>1. CASE i = j
      <3>1. status[i] = "running"
        BY <1>5, <2>1, LedgerAssumption DEF FinishMatches, LeaseIffRunning
      <3>2. holder'[i] = Nobody /\ attempts'[i] = attempts[i] /\ UNCHANGED request
        BY <1>5, <2>1 DEF LedgerTypeOK
      <3>3. CASE FinishSucceeded(j, w)
        BY <2>1, <3>1, <3>2, <3>3
           DEF LedgerTypeOK, Contract!Lives, Contract!Succeeded, Contract!Goes
      <3>4. CASE FinishFailed(j, w)
        <4>1. attempts[i] = request[i].limit
          BY <2>1, <3>4, ExhaustedExactly
        <4> QED
          BY <2>1, <3>1, <3>2, <3>4, <4>1
             DEF LedgerTypeOK, Contract!Lives, Contract!GaveUp, Contract!Goes
      <3>5. CASE FinishRequeued(j, w, delay)
        <4>1. attempts[i] < request[i].limit
          BY <2>1, <3>5, ExhaustedExactly
        <4> QED
          BY <2>1, <3>1, <3>2, <3>5, <4>1
             DEF LedgerTypeOK, Contract!Lives, Contract!TriedInVain, Contract!Goes
      <3> QED
        BY <1>5, <3>3, <3>4, <3>5
    <2>2. CASE i # j
      BY <1>0, <1>5, <2>2 DEF LedgerTypeOK
    <2> QED
      BY <2>1, <2>2
  <1>6. ASSUME NEW j \in Jobs, Cancel(j)
        PROVE  Contract!Lives(i)
    <2>1. CASE i = j
      BY <1>6, <2>1 DEF Cancel, Cancellable, Live, Release, LedgerTypeOK,
                        Contract!Lives, Contract!CalledOff, Contract!Goes
    <2>2. CASE i # j
      BY <1>0, <1>6, <2>2 DEF Cancel, Release, LedgerTypeOK
    <2> QED
      BY <2>1, <2>2
  <1>7. ASSUME NEW j \in Jobs, Requeue(j)
        PROVE  Contract!Lives(i)
    <2>1. CASE i = j
      BY <1>7, <2>1 DEF Requeue, Retryable, Release, LedgerTypeOK,
                        Contract!Lives, Contract!Reopened, Contract!Goes
    <2>2. CASE i # j
      BY <1>0, <1>7, <2>2 DEF Requeue, Release, LedgerTypeOK
    <2> QED
      BY <2>1, <2>2
  <1>8. CASE Tick \/ UNCHANGED ledgerVars
    BY <1>0, <1>8 DEF Tick, ledgerVars
  <1>9. \A M \in SUBSET Modules : Expired(M) \subseteq Expired(Modules)
    BY DEF Expired
  <1>10. ASSUME NEW M \in SUBSET Modules, NEW max, Reap(M, max)
         PROVE  Contract!Lives(i)
    BY <1>3, <1>9, <1>10, SweepsExpired DEF Reap
  <1>11. ASSUME NEW m, NEW K, ClaimNothing(m, K)
         PROVE  Contract!Lives(i)
    BY <1>3, <1>11, SweepsExpired DEF ClaimNothing
  <1> QED
    BY <1>1, <1>2, <1>4, <1>5, <1>6, <1>7, <1>8, <1>10, <1>11 DEF LedgerNext, SomeClaim, OtherCall

\* The ledger implements the contract its callers rely on: a sweep, a claim or
\* a late verdict moves each job only along the life cycle of JobContract.
THEOREM LedgerImplementsContract == LedgerSpec => ImplementsContract
  <1>1. LedgerInit => Contract!Init
    <2> SUFFICES ASSUME LedgerInit PROVE Contract!Init
      OBVIOUS
    <2>1. LedgerTypeOK
      BY TypeInit
    <2>2. [j \in Jobs |-> request[j].limit] \in [Jobs -> Limits]
      BY <2>1 DEF LedgerTypeOK, Request
    <2> QED
      BY <2>2 DEF LedgerInit, Contract!Init
  <1>2. LedgerInv /\ [LedgerNext]_ledgerVars => [Contract!Next]_Contract!vars
    BY StepLives
  <1> QED
    BY <1>1, <1>2, LedgerInvariant, PTL DEF LedgerSpec, ImplementsContract, Contract!Spec

-----------------------------------------------------------------------------
\* What the steps of Contract say of a settled job and of a running one gives
\* the two action properties.
LEMMA LivesSettled ==
  ASSUME NEW i \in Jobs, Contract!Lives(i), status[i] \in Terminal,
         status'[i] # status[i]
  PROVE  status[i] # "succeeded" /\ status'[i] = "queued" /\ attempts'[i] = 0
  BY DEF Terminal, Contract!Lives, Contract!Submitted, Contract!Idle,
         Contract!Started, Contract!Succeeded, Contract!GaveUp,
         Contract!TriedInVain, Contract!CalledOff, Contract!Reopened, Contract!Goes

\* Only an operator's retry reopens a finished row, and never a succeeded one.
THEOREM FinishedStaysFinished == LedgerSpec => TerminalIsSticky
  <1>1. LedgerInv /\ [LedgerNext]_ledgerVars => SettledStays
    BY StepLives, LivesSettled DEF SettledStays, Contract!Next
  <1> QED
    BY <1>1, LedgerInvariant, PTL DEF LedgerSpec, TerminalIsSticky

\* No claim takes a row from a worker whose lease has not run out.
THEOREM LeaseIsRespected == LedgerSpec => NoTakeoverWithinLease
  <1>1. ASSUME LedgerInv, [LedgerNext]_ledgerVars PROVE LeaseProtects
    <2> SUFFICES ASSUME NEW i \in Jobs,
                        status[i] = "running" /\ status'[i] = "running",
                        attempts'[i] # attempts[i] \/ holder'[i] # holder[i]
                 PROVE  leaseLeft[i] < 0 /\ attempts'[i] = attempts[i] + 1
      BY DEF LeaseProtects
    <2> USE <1>1 DEF LedgerInv, LedgerTypeOK
    <2>1. ASSUME NEW w, NEW m, NEW K, NEW j, ClaimJob(w, m, K, j)
          PROVE  leaseLeft[i] < 0 /\ attempts'[i] = attempts[i] + 1
      <3>1. PICK R \in Sweeps(Modules, SweepMax) :
                   j \in Claimable(R, m, K) /\ Take(w, R, j)
        BY <2>1 DEF ClaimJob
      <3>2. j \in Jobs /\ (j \notin R => status[j] = "queued")
        BY <3>1, ClaimedRow
      <3>3. i = j
        <4> SUFFICES ASSUME i # j PROVE FALSE
          OBVIOUS
        <4>1. /\ status'[i] = SweptStatus(R)[i] /\ holder'[i] = SweptHolder(R)[i]
              /\ attempts'[i] = attempts[i]
          BY <3>1 DEF Take, SweptStatus, SweptHolder
        <4> QED
          BY <4>1 DEF SweptStatus, SweptHolder
      <3>4. i \in R
        BY <3>2, <3>3
      <3>5. attempts'[i] = attempts[i] + 1
        BY <3>1, <3>3 DEF Take
      <3> QED
        BY <3>4, <3>5, SweepsExpired DEF Expired
    <2>2. ASSUME NEW R, Sweep(R) PROVE FALSE
      BY <2>2 DEF Sweep, SweptStatus, SweptHolder
    <2>3. ASSUME NEW j \in Jobs, NEW w, NEW delay,
                 FinishSucceeded(j, w) \/ FinishFailed(j, w) \/ FinishRequeued(j, w, delay)
          PROVE  FALSE
      <3>1. status'[j] # "running"
        BY <2>3 DEF FinishSucceeded, FinishFailed, FinishRequeued
      <3>2. i # j
        BY <3>1
      <3> QED
        BY <2>3, <3>2 DEF FinishSucceeded, FinishFailed, FinishRequeued, Release
    <2>4. ASSUME NEW j \in Jobs, NEW w, NEW r, NEW delay,
                 Insert(j, r, delay) \/ Heartbeat(j, w) \/ Cancel(j) \/ Requeue(j)
          PROVE  FALSE
      <3>1. CASE Insert(j, r, delay)
        BY <3>1 DEF Insert
      <3>2. CASE Heartbeat(j, w)
        BY <3>2 DEF Heartbeat
      <3>3. CASE Cancel(j)
        BY <3>3 DEF Cancel, Release
      <3>4. CASE Requeue(j)
        BY <3>4 DEF Requeue, Release
      <3> QED
        BY <2>4, <3>1, <3>2, <3>3, <3>4
    <2>5. ASSUME Tick \/ UNCHANGED ledgerVars PROVE FALSE
      BY <2>5 DEF Tick, ledgerVars
    <2> QED
      BY <1>1, <2>1, <2>2, <2>3, <2>4, <2>5 DEF LedgerNext, SomeClaim, OtherCall, Reap, ClaimNothing
  <1> QED
    BY <1>1, LedgerInvariant, PTL DEF LedgerSpec, NoTakeoverWithinLease

-----------------------------------------------------------------------------
\* What the ledger steps of the programs need: the columns have their types,
\* and a worker that handles or reports has a job.
WorkerInv ==
  /\ LedgerTypeOK
  /\ pc \in [Workers -> {"off", "idle", "handling", "reporting", "shutdown"}]
  /\ job \in [Workers -> Jobs \cup {NoJob}]
  /\ attempt \in [Workers -> Int]
  /\ retrying \in Jobs \cup {NoJob}
  /\ \A w \in Workers : pc[w] \in {"handling", "reporting"} => job[w] \in Jobs

-----------------------------------------------------------------------------
\* A finish call is one of finish_job's branches, or finds no row.
LEMMA FinishIsLedgerCall ==
  ASSUME WorkerInv, NEW w \in Workers, pc[w] = "reporting", Finish(w)
  PROVE  OtherCall \/ UNCHANGED ledgerVars
  <1> DEFINE j == job[w]
  <1>1. j \in Jobs
    BY DEF WorkerInv
  <1>2. Backoff(attempt[w]) \in Int /\ Backoff(attempt[w]) <= MaxDelay
    BY SystemAssumption, LedgerAssumption DEF WorkerInv, Backoff
  <1>3. ASSUME NEW d \in Int, d <= MaxDelay, FinishRequeued(j, w, d)
        PROVE  OtherCall
    <2>1. Greatest0(d) \in 0 .. MaxDelay /\ Greatest0(Greatest0(d)) = Greatest0(d)
      BY <1>3, LedgerAssumption DEF Greatest0
    <2>2. FinishRequeued(j, w, Greatest0(d))
      BY <1>3, <2>1 DEF FinishRequeued
    <2>3. \E delay \in 0 .. MaxDelay : FinishRequeued(j, w, delay)
      BY <2>1, <2>2
    <2> QED
      BY <1>1, <2>3 DEF OtherCall
  <1>4. CASE FinishSucceeded(j, w) \/ FinishFailed(j, w)
    BY <1>1, <1>4 DEF OtherCall
  <1>5. CASE FinishRequeued(j, w, Backoff(attempt[w]))
    BY <1>2, <1>3, <1>5
  <1>6. CASE FinishRequeued(j, w, 0)
    BY <1>3, <1>6, LedgerAssumption
  <1> QED
    BY <1>4, <1>5, <1>6 DEF Finish

\* Every step of the programs is a claim, another call of the ledger or none.
LEMMA StepIsLedgerCall ==
  ASSUME WorkerInv, [Next]_vars
  PROVE  \/ OtherCall
         \/ UNCHANGED ledgerVars
         \/ \E w \in Workers, j \in Jobs : ClaimStep(w, j) \/ ClaimAnswerLost(w, j)
  <1> USE SystemAssumption, LedgerAssumption
  <1>1. ASSUME NEW p \in Producers, ProducerStep(p)
        PROVE  OtherCall \/ UNCHANGED ledgerVars
    <2>1. CASE TryInsert(p)
      <3>1. ASSUME NEW r \in Asks, NEW j \in Jobs, Insert(j, r, 0) PROVE OtherCall
        BY <3>1 DEF OtherCall
      <3> QED
        BY <2>1, <3>1 DEF TryInsert
    <2>2. CASE Notify(p) \/ Lookup(p)
      BY <2>2 DEF Notify, Lookup, EnqueueEnds
    <2> QED
      BY <1>1, <2>1, <2>2 DEF ProducerStep
  <1>2. ASSUME NEW w \in Workers, WorkerStep(w)
        PROVE  \/ OtherCall \/ UNCHANGED ledgerVars
               \/ \E j \in Jobs : ClaimStep(w, j) \/ ClaimAnswerLost(w, j)
    <2>0. WorkerModule[w] \in Modules /\ WorkerKinds[w] \in SUBSET Kinds
      OBVIOUS
    <2>1. CASE \E j \in Jobs : ClaimStep(w, j) \/ ClaimAnswerLost(w, j)
      BY <2>1
    <2>2. CASE ClaimEmpty(w)
      <3>1. ClaimNothing(WorkerModule[w], WorkerKinds[w])
        BY <2>2 DEF ClaimEmpty
      <3> QED
        BY <2>0, <3>1 DEF OtherCall
    <2>3. CASE Progress(w) \/ Beat(w)
      <3>1. job[w] \in Jobs
        BY <2>3 DEF Progress, Beat, BeatDue, WorkerInv
      <3>2. Heartbeat(job[w], w) \/ UNCHANGED ledgerVars
        BY <2>3 DEF Progress, Beat
      <3> QED
        BY <3>1, <3>2 DEF OtherCall
    <2>4. CASE Report(w) \/ ReportRaises(w)
      BY <2>4, FinishIsLedgerCall DEF Report, ReportRaises
    <2>5. CASE \/ StartPoller(w) \/ StartDrain(w) \/ LoopEnds(w) \/ BeatRaises(w)
               \/ HandlerReturns(w) \/ HandlerRaises(w)
               \/ StopSignal(w) \/ Interrupt(w) \/ Crash(w)
      BY <2>5 DEF StartPoller, StartDrain, LoopEnds, BeatRaises, HandlerReturns,
                  HandlerRaises, StopSignal, Interrupt, Crash
    <2> QED
      BY <1>2, <2>1, <2>2, <2>3, <2>4, <2>5 DEF WorkerStep, LoopTurn
  <1>3. CASE OperatorStep
    <2>1. ASSUME NEW j \in Jobs, OpCancel(j) \/ OpRetryCheck(j)
          PROVE  OtherCall \/ UNCHANGED ledgerVars
      <3>1. Cancel(j) \/ UNCHANGED ledgerVars
        BY <2>1 DEF OpCancel, OpRetryCheck
      <3> QED
        BY <3>1 DEF OtherCall
    <2>2. CASE OpRetryUpdate
      <3>1. retrying \in Jobs
        BY <2>2 DEF OpRetryUpdate, WorkerInv
      <3>2. Requeue(retrying) \/ UNCHANGED ledgerVars
        BY <2>2 DEF OpRetryUpdate
      <3> QED
        BY <3>1, <3>2 DEF OtherCall
    <2>3. CASE OpReap
      <3>1. PICK M \in SUBSET Modules, max \in 1 .. SweepMax : Reap(M, max)
        BY <2>3 DEF OpReap
      <3> QED
        BY <3>1 DEF OtherCall
    <2> QED
      BY <1>3, <2>1, <2>2, <2>3 DEF OperatorStep
  <1>4. CASE TimePasses
    BY <1>4 DEF TimePasses, OtherCall
  <1>5. CASE UNCHANGED vars
    BY <1>5 DEF vars
  <1> QED
    BY <1>1, <1>2, <1>3, <1>4, <1>5 DEF Next

LEMMA StepIsLedgerStep ==
  ASSUME WorkerInv, [Next]_vars
  PROVE  [LedgerNext]_ledgerVars
  <1>1. ASSUME NEW w \in Workers, NEW j \in Jobs, ClaimStep(w, j) \/ ClaimAnswerLost(w, j)
        PROVE  SomeClaim
    <2>1. ClaimJob(w, WorkerModule[w], WorkerKinds[w], j)
      BY <1>1 DEF ClaimStep, ClaimAnswerLost, Claims
    <2> QED
      BY <2>1, SystemAssumption DEF SomeClaim
  <1> QED
    BY <1>1, StepIsLedgerCall DEF LedgerNext

-----------------------------------------------------------------------------
LEMMA WorkerInit == Init => WorkerInv
  BY TypeInit DEF Init, WorkerInv

LEMMA WorkerNext == WorkerInv /\ [Next]_vars => WorkerInv'
  <1> SUFFICES ASSUME WorkerInv, [Next]_vars PROVE WorkerInv'
    OBVIOUS
  <1>0. LedgerTypeOK'
    BY StepIsLedgerStep, TypeNext DEF WorkerInv
  <1> USE DEF WorkerInv, DropsJob, Forgets, Leave, BackToLoop, RaiseFromRunOnce
  <1>1. ASSUME NEW p \in Producers, ProducerStep(p)
        PROVE  WorkerInv'
    BY <1>0, <1>1 DEF ProducerStep, TryInsert, Notify, Lookup, EnqueueEnds,
                      workerVars, operatorVars
  <1>2. ASSUME NEW w \in Workers, WorkerStep(w)
        PROVE  WorkerInv'
    <2> USE <1>0 DEF operatorVars
    <2>1. CASE StartPoller(w) \/ StartDrain(w)
      BY <2>1 DEF StartPoller, StartDrain
    <2>2. ASSUME NEW j \in Jobs, ClaimStep(w, j)
          PROVE  WorkerInv'
      <3>1. attempts'[j] \in Int
        BY DEF LedgerTypeOK
      <3>2. pc' \in [Workers -> {"off", "idle", "handling", "reporting", "shutdown"}]
        BY <2>2 DEF ClaimStep
      <3>3. job' = [job EXCEPT ![w] = j] /\ attempt' = [attempt EXCEPT ![w] = attempts'[j]]
        BY <2>2 DEF ClaimStep
      <3>4. \A v \in Workers : pc'[v] \in {"handling", "reporting"} => job'[v] \in Jobs
        BY <2>2, <3>3 DEF ClaimStep
      <3>5. retrying' = retrying
        BY <2>2 DEF ClaimStep
      <3> QED
        BY <3>1, <3>2, <3>3, <3>4, <3>5
    <2>3. ASSUME NEW j \in Jobs, ClaimAnswerLost(w, j)
          PROVE  WorkerInv'
      BY <2>3 DEF ClaimAnswerLost
    <2>4. CASE ClaimEmpty(w)
      BY <2>4 DEF ClaimEmpty, workerVars
    <2>5. CASE LoopEnds(w)
      BY <2>5 DEF LoopEnds
    <2>6. CASE HandlerReturns(w) \/ HandlerRaises(w)
      BY <2>6 DEF HandlerReturns, HandlerRaises
    <2>7. CASE Progress(w)
      BY <2>7 DEF Progress, workerVars
    <2>8. CASE Beat(w) \/ BeatRaises(w)
      BY <2>8 DEF Beat, BeatRaises
    <2>9. CASE Report(w) \/ ReportRaises(w)
      BY <2>9 DEF Report, ReportRaises
    <2>10. CASE StopSignal(w) \/ Crash(w)
      BY <2>10 DEF StopSignal, Crash
    <2>11. CASE Interrupt(w)
      BY <2>11 DEF Interrupt
    <2> QED
      BY <1>2, <2>1, <2>2, <2>3, <2>4, <2>5, <2>6, <2>7, <2>8, <2>9, <2>10, <2>11
         DEF WorkerStep, LoopTurn
  <1>3. CASE OperatorStep
    BY <1>0, <1>3 DEF OperatorStep, OpCancel, OpRetryCheck, OpRetryUpdate, OpReap,
                      workerVars, operatorVars
  <1>4. CASE TimePasses
    BY <1>0, <1>4 DEF TimePasses, operatorVars
  <1>5. CASE UNCHANGED vars
    BY <1>0, <1>5 DEF vars, workerVars, operatorVars
  <1> QED
    BY <1>1, <1>2, <1>3, <1>4, <1>5 DEF Next

THEOREM WorkersHaveJobs == Spec => []WorkerInv
  <1> QED
    BY WorkerInit, WorkerNext, PTL DEF Spec

\* Producers, workers and operators touch the ledger through its functions
\* only, so everything proved of the open ledger holds in the whole system.
THEOREM SystemUsesLedger == Spec => LedgerSpec
  <1>1. Init => LedgerInit
    BY DEF Init
  <1>2. WorkerInv /\ [Next]_vars => [LedgerNext]_ledgerVars
    BY StepIsLedgerStep
  <1> QED
    BY <1>1, <1>2, WorkersHaveJobs, PTL DEF Spec, LedgerSpec

\* The ledger's invariants, in the system that uses it.
THEOREM SystemKeepsLedger ==
  Spec => [](LeaseIffRunning /\ OneLiveJobPerKey /\ AttemptsWithinLimit)
  <1>1. LedgerInv => LeaseIffRunning /\ OneLiveJobPerKey /\ AttemptsWithinLimit
    BY DEF LedgerInv
  <1> QED
    BY <1>1, SystemUsesLedger, LedgerInvariant, PTL

-----------------------------------------------------------------------------
\* A row whose worker is still its holder is on the attempt that worker runs:
\* only a claim by that worker makes it the holder or counts an attempt
\* without taking the row away from it.
LEMMA HolderInit == Init => HolderRunsCurrentAttempt
  BY DEF Init, HolderRunsCurrentAttempt

\* What the ledger's functions do to a row that worker v holds afterwards.
Keeps(v, j) == holder'[j] = v => holder[j] = v /\ attempts'[j] = attempts[j]

LEMMA ClaimOfAnotherKeeps ==
  ASSUME NEW v \in Workers, NEW j \in Jobs, NEW w, w # v,
         NEW m, NEW K, NEW i, ClaimJob(w, m, K, i), LedgerTypeOK
  PROVE  Keeps(v, j)
  <1>1. PICK R \in Sweeps(Modules, SweepMax) : i \in Claimable(R, m, K) /\ Take(w, R, i)
    BY DEF ClaimJob
  <1>2. CASE i = j
    BY <1>1, <1>2 DEF Take, SweptHolder, Keeps
  <1>3. CASE i # j
    BY <1>1, <1>3, LedgerAssumption DEF Take, SweptHolder, Keeps, LedgerTypeOK
  <1> QED
    BY <1>2, <1>3

LEMMA OtherCallKeeps ==
  ASSUME NEW v \in Workers, NEW j \in Jobs, OtherCall, LedgerTypeOK
  PROVE  Keeps(v, j)
  <1> USE LedgerAssumption DEF Keeps, LedgerTypeOK
  <1>1. ASSUME NEW R, Sweep(R) PROVE Keeps(v, j)
    BY <1>1 DEF Sweep, SweptHolder
  <1>2. ASSUME NEW i \in Jobs, Release(i), attempts' = attempts PROVE Keeps(v, j)
    BY <1>2 DEF Release
  <1>3. ASSUME NEW i \in Jobs, Requeue(i) PROVE Keeps(v, j)
    BY <1>3 DEF Requeue, Release
  <1>4. ASSUME NEW i \in Jobs, NEW w, NEW delay,
               \/ FinishSucceeded(i, w) \/ FinishFailed(i, w)
               \/ FinishRequeued(i, w, delay) \/ Cancel(i)
        PROVE  Release(i) /\ attempts' = attempts
    BY <1>4 DEF FinishSucceeded, FinishFailed, FinishRequeued, Cancel
  <1>5. ASSUME NEW i \in Jobs, NEW w, NEW r, NEW delay,
               Insert(i, r, delay) \/ Heartbeat(i, w) \/ Tick
        PROVE  Keeps(v, j)
    BY <1>5 DEF Insert, Heartbeat, Tick
  <1> QED
    BY <1>1, <1>2, <1>3, <1>4, <1>5 DEF OtherCall, Reap, ClaimNothing

\* A worker that is handling or reporting after a step was before the step, on
\* the same attempt, or has claimed the job in that step.
LEMMA BusyWorker ==
  ASSUME WorkerInv, [Next]_vars, NEW v \in Workers,
         pc'[v] \in {"handling", "reporting"}
  PROVE  \/ /\ pc[v] \in {"handling", "reporting"}
            /\ job'[v] = job[v] /\ attempt'[v] = attempt[v]
         \/ \E j \in Jobs : ClaimStep(v, j)
  <1> USE DEF WorkerInv, DropsJob, Forgets, Leave, BackToLoop, RaiseFromRunOnce
  <1>1. ASSUME NEW w \in Workers, WorkerStep(w)
        PROVE  \/ /\ pc[v] \in {"handling", "reporting"}
                  /\ job'[v] = job[v] /\ attempt'[v] = attempt[v]
               \/ \E j \in Jobs : ClaimStep(v, j)
    <2>1. CASE StartPoller(w) \/ StartDrain(w) \/ LoopEnds(w) \/ Report(w) \/ ReportRaises(w)
      BY <2>1 DEF StartPoller, StartDrain, LoopEnds, Report, ReportRaises
    <2>2. CASE HandlerReturns(w) \/ HandlerRaises(w) \/ Beat(w) \/ BeatRaises(w)
      BY <2>2 DEF HandlerReturns, HandlerRaises, Beat, BeatRaises
    <2>3. CASE StopSignal(w) \/ Interrupt(w) \/ Crash(w)
      BY <2>3 DEF StopSignal, Interrupt, Crash
    <2>4. CASE Progress(w) \/ ClaimEmpty(w)
      BY <2>4 DEF Progress, ClaimEmpty, workerVars
    <2>5. ASSUME NEW j \in Jobs, ClaimStep(w, j)
          PROVE  \/ /\ pc[v] \in {"handling", "reporting"}
                    /\ job'[v] = job[v] /\ attempt'[v] = attempt[v]
                 \/ \E i \in Jobs : ClaimStep(v, i)
      <3>1. CASE w = v
        BY <2>5, <3>1
      <3>2. CASE w # v
        BY <2>5, <3>2 DEF ClaimStep
      <3> QED
        BY <3>1, <3>2
    <2>6. ASSUME NEW j \in Jobs, ClaimAnswerLost(w, j)
          PROVE  /\ pc[v] \in {"handling", "reporting"}
                 /\ job'[v] = job[v] /\ attempt'[v] = attempt[v]
      BY <2>6 DEF ClaimAnswerLost
    <2> QED
      BY <1>1, <2>1, <2>2, <2>3, <2>4, <2>5, <2>6 DEF WorkerStep, LoopTurn
  <1>2. CASE \/ \E p \in Producers : ProducerStep(p)
             \/ OperatorStep \/ TimePasses \/ UNCHANGED vars
    BY <1>2 DEF ProducerStep, TryInsert, Notify, Lookup, EnqueueEnds, OperatorStep,
                OpCancel, OpRetryCheck, OpRetryUpdate, OpReap, TimePasses, vars,
                workerVars
  <1> QED
    BY <1>1, <1>2 DEF Next

LEMMA HolderNext ==
  ASSUME WorkerInv, [Next]_vars, HolderRunsCurrentAttempt
  PROVE  HolderRunsCurrentAttempt'
  <1> SUFFICES ASSUME NEW v \in Workers, NEW j \in Jobs,
                      pc'[v] \in {"handling", "reporting"},
                      job'[v] = j, holder'[j] = v
               PROVE  attempt'[v] = attempts'[j]
    BY DEF HolderRunsCurrentAttempt
  <1>1. ASSUME NEW i \in Jobs, ClaimStep(v, i)
        PROVE  attempt'[v] = attempts'[j]
    BY <1>1 DEF ClaimStep, WorkerInv
  <1>2. ASSUME pc[v] \in {"handling", "reporting"},
               job'[v] = job[v], attempt'[v] = attempt[v],
               Keeps(v, j)
        PROVE  attempt'[v] = attempts'[j]
    BY <1>2 DEF Keeps, HolderRunsCurrentAttempt
  <1>3. CASE OtherCall
    BY <1>1, <1>2, <1>3, BusyWorker, OtherCallKeeps DEF WorkerInv
  <1>4. CASE UNCHANGED ledgerVars
    BY <1>1, <1>2, <1>4, BusyWorker DEF ledgerVars, Keeps
  <1>5. ASSUME NEW w \in Workers, NEW i \in Jobs, ClaimStep(w, i) \/ ClaimAnswerLost(w, i)
        PROVE  attempt'[v] = attempts'[j]
    <2>1. ClaimJob(w, WorkerModule[w], WorkerKinds[w], i)
      BY <1>5 DEF ClaimStep, ClaimAnswerLost, Claims
    <2>2. CASE w # v
      BY <1>1, <1>2, <2>1, <2>2, BusyWorker, ClaimOfAnotherKeeps DEF WorkerInv
    <2>3. CASE w = v /\ ClaimAnswerLost(v, i)
      <3>1. pc'[v] \in {"idle", "off"}
        BY <2>3 DEF ClaimAnswerLost, RaiseFromRunOnce, BackToLoop, Leave, WorkerInv
      <3> QED
        BY <3>1
    <2> QED
      BY <1>1, <1>5, <2>2, <2>3
  <1> QED
    BY <1>3, <1>4, <1>5, StepIsLedgerCall

\* Whoever still holds a row is working on the row's current attempt.
THEOREM HoldersAreCurrent == Spec => []HolderRunsCurrentAttempt
  <1> QED
    BY HolderInit, HolderNext, WorkersHaveJobs, PTL DEF Spec

-----------------------------------------------------------------------------
\* A row turns succeeded in a finish call only, and only with a good verdict.
LEMMA OnlyFinishSucceeds ==
  ASSUME LedgerTypeOK, NEW j \in Jobs, status'[j] = "succeeded",
         status[j] # "succeeded", [LedgerNext]_ledgerVars
  PROVE  \E w \in Workers : FinishSucceeded(j, w)
  <1> USE DEF LedgerTypeOK
  <1>1. ASSUME NEW w, NEW m, NEW K, NEW i, ClaimJob(w, m, K, i) PROVE FALSE
    BY <1>1 DEF ClaimJob, Take, SweptStatus
  <1>2. ASSUME NEW R, Sweep(R) PROVE FALSE
    BY <1>2 DEF Sweep, SweptStatus
  <1>3. ASSUME NEW i \in Jobs, NEW w, NEW r, NEW delay,
               \/ Insert(i, r, delay) \/ Heartbeat(i, w) \/ Tick
               \/ UNCHANGED ledgerVars
        PROVE  FALSE
    BY <1>3 DEF Insert, Heartbeat, Tick, ledgerVars
  <1>4. ASSUME NEW i \in Jobs, NEW w, NEW delay,
               \/ FinishFailed(i, w) \/ FinishRequeued(i, w, delay)
               \/ Cancel(i) \/ Requeue(i)
        PROVE  FALSE
    BY <1>4 DEF FinishFailed, FinishRequeued, Cancel, Requeue
  <1>5. ASSUME NEW i \in Jobs, NEW w \in Workers, FinishSucceeded(i, w)
        PROVE  FinishSucceeded(j, w)
    BY <1>5 DEF FinishSucceeded
  <1> QED
    BY <1>1, <1>2, <1>3, <1>4, <1>5
       DEF LedgerNext, SomeClaim, OtherCall, Reap, ClaimNothing

\* No program but a reporting worker makes a row succeed.
LEMMA OnlyReportsSucceed ==
  ASSUME WorkerInv, [Next]_vars, NEW j \in Jobs, NEW v \in Workers,
         FinishSucceeded(j, v), status[j] # "succeeded"
  PROVE  /\ pc[v] = "reporting" /\ verdict[v] = "ok" /\ job[v] = j
         /\ holder[j] = v
  <1> USE DEF WorkerInv, LedgerTypeOK, FinishSucceeded
  <1>0. status'[j] = "succeeded" /\ status'[j] # status[j]
    OBVIOUS
  <1>1. ASSUME NEW w \in Workers, Finish(w), pc[w] = "reporting"
        PROVE  /\ pc[v] = "reporting" /\ verdict[v] = "ok" /\ job[v] = j
               /\ holder[j] = v
    <2>1. FinishSucceeded(job[w], w) /\ verdict[w] = "ok"
      BY <1>0, <1>1 DEF Finish, FinishFailed, FinishRequeued, ledgerVars
    <2>2. job[w] = j
      BY <1>0, <1>1, <2>1
    <2>3. holder[j] = w /\ holder[j] = v
      BY <2>1, <2>2 DEF FinishMatches
    <2> QED
      BY <1>1, <2>1, <2>2, <2>3
  <1>2. ASSUME status' = status \/ (\E w, m, K, i : ClaimJob(w, m, K, i)) \/ (\E R : Sweep(R))
        PROVE  FALSE
    BY <1>0, <1>2 DEF ClaimJob, Take, Sweep, SweptStatus
  <1>3. ASSUME NEW i \in Jobs, NEW r, Insert(i, r, 0) \/ Cancel(i) \/ Requeue(i)
        PROVE  FALSE
    BY <1>0, <1>3 DEF Insert, Cancel, Requeue
  <1>4. ASSUME NEW w \in Workers, WorkerStep(w)
        PROVE  Finish(w) /\ pc[w] = "reporting"
    <2>1. CASE \E i \in Jobs : ClaimStep(w, i) \/ ClaimAnswerLost(w, i)
      BY <1>2, <2>1 DEF ClaimStep, ClaimAnswerLost, Claims
    <2>2. CASE ClaimEmpty(w)
      BY <1>2, <2>2 DEF ClaimEmpty, ClaimNothing
    <2>3. CASE \/ StartPoller(w) \/ StartDrain(w) \/ LoopEnds(w) \/ BeatRaises(w)
               \/ HandlerReturns(w) \/ HandlerRaises(w)
               \/ StopSignal(w) \/ Interrupt(w) \/ Crash(w)
      BY <1>2, <2>3 DEF StartPoller, StartDrain, LoopEnds, BeatRaises, HandlerReturns,
                  HandlerRaises, StopSignal, Interrupt, Crash, ledgerVars
    <2>4. CASE Progress(w) \/ Beat(w)
      BY <1>2, <2>4 DEF Progress, Beat, Heartbeat, ledgerVars
    <2>5. CASE Report(w) \/ ReportRaises(w)
      BY <1>2, <2>5 DEF Report, ReportRaises, ledgerVars
    <2> QED
      BY <1>4, <2>1, <2>2, <2>3, <2>4, <2>5 DEF WorkerStep, LoopTurn
  <1>5. ASSUME NEW p \in Producers, ProducerStep(p) PROVE FALSE
    BY <1>2, <1>3, <1>5
       DEF ProducerStep, TryInsert, Notify, Lookup, EnqueueEnds, ledgerVars
  <1>6. ASSUME OperatorStep PROVE FALSE
    BY <1>2, <1>3, <1>6
       DEF OperatorStep, OpCancel, OpRetryCheck, OpRetryUpdate, OpReap, Reap, ledgerVars
  <1>7. ASSUME TimePasses \/ UNCHANGED vars PROVE FALSE
    BY <1>2, <1>7 DEF TimePasses, Tick, vars, ledgerVars
  <1> QED
    BY <1>1, <1>4, <1>5, <1>6, <1>7 DEF Next

\* "Never let two workers write one job's result": a row becomes succeeded
\* only by the report of its holder, for the attempt the row is on.
THEOREM SuccessIsEarned == Spec => SuccessIsTheHoldersVerdict
  <1>1. ASSUME WorkerInv, HolderRunsCurrentAttempt, [Next]_vars
        PROVE  SuccessHasReporter
    <2> SUFFICES ASSUME NEW j \in Jobs, status'[j] = "succeeded", status[j] # "succeeded"
                 PROVE  \E w \in Workers :
                          /\ holder[j] = w /\ job[w] = j /\ attempt[w] = attempts[j]
                          /\ pc[w] = "reporting" /\ verdict[w] = "ok"
      BY DEF SuccessHasReporter
    <2>1. [LedgerNext]_ledgerVars
      BY <1>1, StepIsLedgerStep
    <2>2. PICK w \in Workers : FinishSucceeded(j, w)
      BY <1>1, <2>1, OnlyFinishSucceeds DEF WorkerInv
    <2>3. /\ pc[w] = "reporting" /\ verdict[w] = "ok" /\ job[w] = j
          /\ holder[j] = w
      BY <1>1, <2>2, OnlyReportsSucceed
    <2> QED
      BY <1>1, <2>3 DEF HolderRunsCurrentAttempt
  <1> QED
    BY <1>1, WorkersHaveJobs, HoldersAreCurrent, PTL DEF Spec, SuccessIsTheHoldersVerdict

-----------------------------------------------------------------------------
\* The variables of the programs keep their types: no count runs past its
\* limit or below zero, and no beat is lost that is not counted.
LEMMA SystemTypeInit == Init => TypeOK
  <1> SUFFICES ASSUME Init PROVE TypeOK
    OBVIOUS
  <1>1. LedgerTypeOK
    BY TypeInit DEF Init
  <1>2. (CHOOSE r \in Request : TRUE) \in Request
    <2>1. PICK m \in Modules, k \in Kinds, p \in Priorities, n \in Limits : TRUE
      BY LedgerAssumption
    <2>2. [module |-> m, kind |-> k, key |-> NoKey, priority |-> p, limit |-> n] \in Request
      BY DEF Request
    <2> QED
      BY <2>2
  <1> QED
    BY <1>1, <1>2, SystemAssumption DEF Init, TypeOK

WorkerTypeOK ==
  /\ pc \in [Workers -> {"off", "idle", "handling", "reporting", "shutdown"}]
  /\ job \in [Workers -> Jobs \cup {NoJob}]
  /\ attempt \in [Workers -> Nat]
  /\ verdict \in [Workers -> {"none", "ok", "error", "unknown"}]
  /\ beat \in [Workers -> -1 .. BeatEvery]
  /\ missed \in [Workers -> 0 .. MissedMax]
  /\ left \in [Workers -> 0 .. DrainJobs]
  /\ stopping \in [Workers -> BOOLEAN]

\* Leaving, going back to the loop and forgetting keep the types.
LEMMA LeavingKeepsTypes ==
  ASSUME WorkerTypeOK, NEW w \in Workers, RaiseFromRunOnce(w) \/ Leave(w) \/ BackToLoop(w)
  PROVE  WorkerTypeOK'
  <1> USE SystemAssumption DEF WorkerTypeOK, DropsJob
  <1>1. CASE Leave(w)
    BY <1>1 DEF Leave, Forgets
  <1>2. CASE BackToLoop(w)
    BY <1>2 DEF BackToLoop
  <1> QED
    BY <1>1, <1>2 DEF RaiseFromRunOnce

LEMMA SystemTypeNext == WorkerInv /\ TypeOK /\ [Next]_vars => TypeOK'
  <1> SUFFICES ASSUME WorkerInv, TypeOK, [Next]_vars PROVE TypeOK'
    OBVIOUS
  <1>0. LedgerTypeOK'
    BY StepIsLedgerStep, TypeNext DEF WorkerInv
  <1> USE <1>0, SystemAssumption DEF TypeOK
  <1>1. ASSUME NEW p \in Producers, ProducerStep(p)
        PROVE  TypeOK'
    <2>1. CASE TryInsert(p)
      BY <2>1 DEF TryInsert, workerVars, operatorVars
    <2>2. CASE Notify(p)
      <3>1. wanted[p].module \in Modules
        BY DEF Request
      <3> QED
        BY <2>2, <3>1 DEF Notify, EnqueueEnds, workerVars, operatorVars
    <2>3. CASE Lookup(p)
      BY <2>3 DEF Lookup, EnqueueEnds, workerVars, operatorVars
    <2> QED
      BY <1>1, <2>1, <2>2, <2>3 DEF ProducerStep
  <1>2. ASSUME NEW w \in Workers, WorkerStep(w)
        PROVE  TypeOK'
    <2> USE DEF producerVars, operatorVars
    <2>1. CASE StartPoller(w) \/ StartDrain(w)
      BY <2>1 DEF StartPoller, StartDrain, DropsJob
    <2>2. ASSUME NEW j \in Jobs, ClaimStep(w, j)
          PROVE  TypeOK'
      <3>1. attempts'[j] \in Nat
        BY DEF LedgerTypeOK
      <3>2. w \notin Pollers => left[w] > 0
        BY <2>2 DEF ClaimStep, LoopOn
      <3> QED
        BY <2>2, <3>1, <3>2 DEF ClaimStep
    <2>3. ASSUME RaiseFromRunOnce(w) \/ Leave(w) \/ BackToLoop(w),
                 UNCHANGED <<producerVars, bell, operatorVars>>
          PROVE  TypeOK'
      <3>1. WorkerTypeOK'
        BY <2>3, LeavingKeepsTypes DEF WorkerTypeOK
      <3> QED
        BY <2>3, <3>1 DEF WorkerTypeOK
    <2>4. CASE \/ \E j \in Jobs : ClaimAnswerLost(w, j)
               \/ LoopEnds(w) \/ Report(w) \/ ReportRaises(w) \/ Crash(w)
      BY ONLY <2>3, <2>4 DEF ClaimAnswerLost, LoopEnds, Report, ReportRaises, Crash
    <2>5. CASE ClaimEmpty(w)
      <3>1. CASE w \in Pollers
        BY <2>5, <3>1 DEF ClaimEmpty, workerVars
      <3>2. CASE w \notin Pollers
        BY ONLY <2>3, <2>5, <3>2 DEF ClaimEmpty
      <3> QED
        BY <3>1, <3>2
    <2>6. CASE HandlerReturns(w) \/ HandlerRaises(w)
      BY <2>6 DEF HandlerReturns, HandlerRaises
    <2>7. CASE Progress(w)
      <3>1. CASE BeatMatches(job[w], w)
        BY <2>7, <3>1 DEF Progress, workerVars
      <3>2. CASE ~BeatMatches(job[w], w)
        BY ONLY <2>3, <2>7, <3>2 DEF Progress
      <3> QED
        BY <3>1, <3>2
    <2>8. CASE Beat(w) \/ BeatRaises(w)
      BY <2>8 DEF Beat, BeatRaises
    <2>9. CASE StopSignal(w)
      BY <2>9 DEF StopSignal
    <2>10. CASE Interrupt(w)
      BY <2>10 DEF Interrupt, Forgets
    <2> QED
      BY <1>2, <2>1, <2>2, <2>3, <2>4, <2>5, <2>6, <2>7, <2>8, <2>9, <2>10
         DEF WorkerStep, LoopTurn
  <1>3. CASE OperatorStep
    BY <1>3 DEF OperatorStep, OpCancel, OpRetryCheck, OpRetryUpdate, OpReap,
                workerVars, producerVars, operatorVars
  <1>4. CASE TimePasses
    BY <1>4 DEF TimePasses, producerVars, operatorVars
  <1>5. CASE UNCHANGED vars
    BY <1>5 DEF vars, workerVars, producerVars, operatorVars
  <1> QED
    BY <1>1, <1>2, <1>3, <1>4, <1>5 DEF Next

LEMMA SystemTypeCorrect == Spec => []TypeOK
  <1> QED
    BY SystemTypeInit, SystemTypeNext, WorkersHaveJobs, PTL DEF Spec

\* 0009_jobs.sql:78 in the running system: every variable of the programs keeps
\* its type, a row has a holder and a lease exactly while it is running, and none
\* is claimed more often than its max_attempts (0018_job_operations.sql:58).
THEOREM RunningRowsAreLeased == Spec => []SystemInv
  <1>1. TypeOK /\ LeaseIffRunning /\ AttemptsWithinLimit => SystemInv
    BY DEF SystemInv
  <1> QED
    BY <1>1, SystemTypeCorrect, SystemKeepsLedger, PTL

-----------------------------------------------------------------------------
\* The cadence of worker.py:45-52: a lease outlasts the heartbeats that may be
\* missed and the one that is not.
CadenceFits == LeaseTime >= (MissedMax + 1) * BeatEvery

\* How long ago a worker's lease was last renewed, at most.
SinceRenewal(w) == missed[w] * BeatEvery + (BeatEvery - beat[w])

\* The inductive invariant behind HealthyWorkerKeepsLease.  While the operator
\* has not touched a job, a worker whose event loop runs still holds the row
\* it works on, its heartbeat task is alive, and what has gone of the lease is
\* accounted for by the cadence; a worker that runs no job has missed nothing.
Beating(w) ==
  /\ holder[job[w]] = w /\ status[job[w]] = "running"
  /\ beat[w] >= 0
  /\ leaseLeft[job[w]] >= 0
  /\ leaseLeft[job[w]] >= LeaseTime - SinceRenewal(w)

HealthInv ==
  /\ retrying # NoJob => opsLeft < OperatorBudget
  /\ \A w \in Workers : pc[w] \notin {"handling", "reporting"} => missed[w] = 0
  /\ \A w \in Workers \ Stallable :
       pc[w] = "handling" /\ opsLeft = OperatorBudget => Beating(w)

\* What a ledger step by anyone else leaves to worker w of the row j it holds
\* within its lease: everything but a tick of the lease.
Spared(j, w) ==
  /\ holder'[j] = w /\ status'[j] = "running"
  /\ leaseLeft'[j] >= leaseLeft[j]

LEMMA SweepSpares ==
  ASSUME LedgerTypeOK, NEW j \in Jobs, NEW w \in Workers,
         holder[j] = w, status[j] = "running", leaseLeft[j] >= 0,
         NEW mods, NEW R, R \subseteq Expired(mods)
  PROVE  /\ j \notin R
         /\ Sweep(R) => Spared(j, w)
         /\ \A v \in Workers, i \in Jobs \ {j} : Take(v, R, i) => Spared(j, w)
  <1>1. j \notin R
    BY DEF Expired, LedgerTypeOK
  <1>2. SweptStatus(R)[j] = "running" /\ SweptHolder(R)[j] = w /\ SweptLease(R)[j] = leaseLeft[j]
    BY <1>1 DEF SweptStatus, SweptHolder, SweptLease
  <1>3. leaseLeft[j] \in Int
    BY DEF LedgerTypeOK
  <1>4. Sweep(R) => Spared(j, w)
    BY <1>2, <1>3 DEF Sweep, Spared
  <1>5. ASSUME NEW v \in Workers, NEW i \in Jobs \ {j}, Take(v, R, i)
        PROVE  Spared(j, w)
    <2>1. /\ status'[j] = SweptStatus(R)[j] /\ holder'[j] = SweptHolder(R)[j]
          /\ leaseLeft'[j] = SweptLease(R)[j]
      BY <1>5 DEF Take, SweptStatus, SweptHolder, SweptLease
    <2> QED
      BY <1>2, <1>3, <2>1 DEF Spared
  <1> QED
    BY <1>1, <1>4, <1>5

LEMMA OthersSpare ==
  ASSUME LedgerTypeOK, NEW j \in Jobs, NEW w \in Workers,
         holder[j] = w, status[j] = "running", leaseLeft[j] >= 0,
         \/ \E m, K : ClaimNothing(m, K)
         \/ \E M, max : Reap(M, max)
         \/ \E v \in Workers, i \in Jobs : Claims(v, i)
         \/ \E i \in Jobs : \E r, delay : Insert(i, r, delay)
         \/ \E i \in Jobs : \E v : Heartbeat(i, v)
         \/ \E v \in Workers \ {w}, i \in Jobs : \E delay :
              FinishSucceeded(i, v) \/ FinishFailed(i, v) \/ FinishRequeued(i, v, delay)
         \/ UNCHANGED ledgerVars
  PROVE  Spared(j, w)
  <1>1. ASSUME NEW mods, NEW max, NEW R \in Sweeps(mods, max), Sweep(R)
        PROVE  Spared(j, w)
    BY <1>1, SweepsExpired, SweepSpares
  <1>2. ASSUME NEW v \in Workers, NEW i \in Jobs, Claims(v, i)
        PROVE  Spared(j, w)
    <2>1. PICK R \in Sweeps(Modules, SweepMax) :
            i \in Claimable(R, WorkerModule[v], WorkerKinds[v]) /\ Take(v, R, i)
      BY <1>2 DEF Claims, ClaimJob
    <2>2. R \subseteq Expired(Modules)
      BY SweepsExpired
    <2>3. j \notin R
      BY <2>2, SweepSpares
    <2>4. i # j
      BY <2>1, <2>3, ClaimedRow
    <2> QED
      BY <2>1, <2>2, <2>4, SweepSpares
  <1>3. ASSUME NEW i \in Jobs, NEW r, NEW delay, Insert(i, r, delay)
        PROVE  Spared(j, w)
    BY <1>3 DEF Insert, Spared, LedgerTypeOK
  <1>4. ASSUME NEW i \in Jobs, NEW v, Heartbeat(i, v)
        PROVE  Spared(j, w)
    BY <1>4, LedgerAssumption DEF Heartbeat, Spared, LedgerTypeOK
  <1>5. ASSUME NEW v \in Workers \ {w}, NEW i \in Jobs, NEW delay,
               FinishSucceeded(i, v) \/ FinishFailed(i, v) \/ FinishRequeued(i, v, delay)
        PROVE  Spared(j, w)
    <2>1. i # j
      BY <1>5 DEF FinishSucceeded, FinishFailed, FinishRequeued, FinishMatches
    <2> QED
      BY <1>5, <2>1 DEF FinishSucceeded, FinishFailed, FinishRequeued, Release, Spared, LedgerTypeOK
  <1>6. CASE UNCHANGED ledgerVars
    BY <1>6 DEF ledgerVars, Spared, LedgerTypeOK
  <1> QED
    BY <1>1, <1>2, <1>3, <1>4, <1>5, <1>6 DEF ClaimNothing, Reap

\* The cadence in numbers.
LEMMA SinceRenewalBounds ==
  ASSUME TypeOK, NEW w \in Workers, beat[w] >= 0
  PROVE  /\ SinceRenewal(w) \in 0 .. (MissedMax + 1) * BeatEvery
         /\ missed[w] * BeatEvery \in Nat
  <1> DEFINE k == missed[w]
  <1>1. k \in 0 .. MissedMax /\ beat[w] \in 0 .. BeatEvery /\ BeatEvery \in Nat /\ MissedMax \in Nat
    BY SystemAssumption DEF TypeOK
  <1>2. k * BeatEvery \in Nat /\ (MissedMax - k) * BeatEvery \in Nat
    BY <1>1
  <1>3. (MissedMax + 1) * BeatEvery = k * BeatEvery + (MissedMax - k) * BeatEvery + BeatEvery
    BY <1>1
  <1> HIDE DEF k
  <1>4. k * BeatEvery + (BeatEvery - beat[w]) \in 0 .. (MissedMax + 1) * BeatEvery
    BY <1>1, <1>2, <1>3
  <1> QED
    BY <1>2, <1>4 DEF SinceRenewal, k

LEMMA HealthInit == Init => HealthInv
  BY DEF Init, HealthInv

\* The first two parts: what counts an operator's action, and who counts beats.
LEMMA CountsNext ==
  ASSUME TypeOK, HealthInv, [Next]_vars
  PROVE  /\ retrying' # NoJob => opsLeft' < OperatorBudget
         /\ \A w \in Workers : pc'[w] \notin {"handling", "reporting"} => missed'[w] = 0
         /\ opsLeft' <= opsLeft
  <1> USE SystemAssumption DEF HealthInv, operatorVars
  <1>1. TypeOK /\ HealthInv
    OBVIOUS
  <1>2. ASSUME NEW w \in Workers, WorkerStep(w)
        PROVE  \A v \in Workers : pc'[v] \notin {"handling", "reporting"} => missed'[v] = 0
    <2> USE DEF TypeOK
    <2>1. ASSUME RaiseFromRunOnce(w) \/ Leave(w) \/ BackToLoop(w)
          PROVE  \A v \in Workers : pc'[v] \notin {"handling", "reporting"} => missed'[v] = 0
      BY <2>1 DEF RaiseFromRunOnce, Leave, BackToLoop, Forgets
    <2>2. CASE StartPoller(w) \/ StartDrain(w)
      BY <2>2 DEF StartPoller, StartDrain, FreshId
    <2>3. ASSUME NEW j \in Jobs, ClaimStep(w, j)
          PROVE  \A v \in Workers : pc'[v] \notin {"handling", "reporting"} => missed'[v] = 0
      BY <2>3 DEF ClaimStep
    <2>4. CASE \/ \E j \in Jobs : ClaimAnswerLost(w, j)
               \/ LoopEnds(w) \/ Report(w) \/ ReportRaises(w) \/ Crash(w)
      BY ONLY <2>1, <2>4 DEF ClaimAnswerLost, LoopEnds, Report, ReportRaises, Crash
    <2>5. CASE ClaimEmpty(w) \/ Progress(w)
      BY <2>1, <2>5 DEF ClaimEmpty, Progress, workerVars
    <2>6. CASE HandlerReturns(w) \/ HandlerRaises(w) \/ StopSignal(w)
      BY <2>6 DEF HandlerReturns, HandlerRaises, StopSignal
    <2>7. CASE Beat(w) \/ BeatRaises(w)
      BY <2>7 DEF Beat, BeatRaises, BeatDue
    <2>8. CASE Interrupt(w)
      BY <2>8 DEF Interrupt, Forgets
    <2> QED
      BY <1>2, <2>2, <2>3, <2>4, <2>5, <2>6, <2>7, <2>8 DEF WorkerStep, LoopTurn
  <1>3. ASSUME NEW w \in Workers, WorkerStep(w) PROVE UNCHANGED operatorVars
    BY <1>3 DEF WorkerStep, LoopTurn, StartPoller, StartDrain, LoopEnds, ClaimEmpty,
                ClaimStep, ClaimAnswerLost, HandlerReturns, HandlerRaises, Progress,
                Beat, BeatRaises, Report, ReportRaises, StopSignal, Interrupt, Crash
  <1>4. CASE \E p \in Producers : ProducerStep(p)
    BY <1>4 DEF ProducerStep, TryInsert, Notify, Lookup, EnqueueEnds, workerVars, TypeOK
  <1>5. CASE OperatorStep
    BY <1>5 DEF OperatorStep, OpCancel, OpRetryCheck, OpRetryUpdate, OpReap, workerVars, TypeOK
  <1>6. CASE TimePasses \/ UNCHANGED vars
    BY <1>6 DEF TimePasses, vars, workerVars, TypeOK
  <1> QED
    BY <1>2, <1>3, <1>4, <1>5, <1>6 DEF Next, TypeOK

\* A step that is not worker v's leaves v as it is, and the row v holds within
\* its lease to v, unless an operator acts or time passes.
LEMMA NotMineSpares ==
  ASSUME WorkerInv, TypeOK, HealthInv, opsLeft' = OperatorBudget, opsLeft = OperatorBudget,
         NEW v \in Workers, pc[v] = "handling", Beating(v),
         \/ \E p \in Producers : ProducerStep(p)
         \/ \E w \in Workers \ {v} : WorkerStep(w)
         \/ OperatorStep \/ UNCHANGED vars
  PROVE  /\ job'[v] = job[v] /\ missed'[v] = missed[v] /\ beat'[v] = beat[v]
         /\ Spared(job[v], v)
  <1> DEFINE Same == job'[v] = job[v] /\ missed'[v] = missed[v] /\ beat'[v] = beat[v]
  <1>0. /\ LedgerTypeOK /\ job[v] \in Jobs /\ holder[job[v]] = v
        /\ status[job[v]] = "running" /\ leaseLeft[job[v]] >= 0
    BY DEF WorkerInv, Beating
  <1>1. ASSUME UNCHANGED ledgerVars PROVE Spared(job[v], v)
    BY <1>0, <1>1, OthersSpare
  <1>2. CASE \E p \in Producers : ProducerStep(p)
    <2>1. Same
      BY <1>2 DEF ProducerStep, TryInsert, Notify, Lookup, EnqueueEnds, workerVars
    <2>2. (\E i \in Jobs : \E r, delay : Insert(i, r, delay)) \/ UNCHANGED ledgerVars
      BY <1>2 DEF ProducerStep, TryInsert, Notify, Lookup, EnqueueEnds
    <2> QED
      BY <1>0, <2>1, <2>2, OthersSpare
  <1>3. CASE OperatorStep
    <2>1. OpReap
      BY <1>3, SystemAssumption DEF OperatorStep, OpCancel, OpRetryCheck, OpRetryUpdate, HealthInv
    <2>2. \E M, max : Reap(M, max)
      BY <2>1 DEF OpReap
    <2>3. Same
      BY <2>1 DEF OpReap, workerVars
    <2> QED
      BY <1>0, <2>2, <2>3, OthersSpare
  <1>4. ASSUME NEW w \in Workers \ {v}, WorkerStep(w)
        PROVE  Same /\ Spared(job[v], v)
    <2>1. Same
      <3> USE DEF TypeOK, DropsJob, Forgets, Leave, BackToLoop, RaiseFromRunOnce
      <3>1. CASE StartPoller(w) \/ StartDrain(w) \/ LoopTurn(w) \/ Report(w) \/ ReportRaises(w)
        BY <3>1 DEF StartPoller, StartDrain, LoopTurn, LoopEnds, ClaimEmpty, ClaimStep,
                    ClaimAnswerLost, Report, ReportRaises, workerVars
      <3>2. CASE HandlerReturns(w) \/ HandlerRaises(w) \/ Progress(w) \/ Beat(w) \/ BeatRaises(w)
        BY <3>2 DEF HandlerReturns, HandlerRaises, Progress, Beat, BeatRaises, workerVars
      <3>3. CASE StopSignal(w) \/ Interrupt(w) \/ Crash(w)
        BY <3>3 DEF StopSignal, Interrupt, Crash
      <3> QED
        BY <1>4, <3>1, <3>2, <3>3 DEF WorkerStep
    <2>2. CASE \E j \in Jobs : ClaimStep(w, j) \/ ClaimAnswerLost(w, j)
      <3>1. \E j \in Jobs : Claims(w, j)
        BY <2>2 DEF ClaimStep, ClaimAnswerLost
      <3>2. Spared(job[v], v)
        BY <1>0, <3>1, OthersSpare
      <3> QED
        BY <2>1, <3>2
    <2>3. CASE ClaimEmpty(w)
      <3>1. ClaimNothing(WorkerModule[w], WorkerKinds[w])
        BY <2>3 DEF ClaimEmpty
      <3> QED
        BY <1>0, <2>1, <3>1, OthersSpare
    <2>4. CASE Progress(w) \/ Beat(w)
      <3>1. Heartbeat(job[w], w) \/ UNCHANGED ledgerVars
        BY <2>4 DEF Progress, Beat
      <3>2. job[w] \in Jobs
        BY <2>4 DEF Progress, Beat, BeatDue, WorkerInv
      <3> QED
        BY <1>0, <2>1, <3>1, <3>2, OthersSpare
    <2>5. CASE Report(w) \/ ReportRaises(w)
      <3>1. job[w] \in Jobs
        BY <2>5 DEF Report, ReportRaises, WorkerInv
      <3>2. \/ UNCHANGED ledgerVars
            \/ \E delay : \/ FinishSucceeded(job[w], w) \/ FinishFailed(job[w], w)
                          \/ FinishRequeued(job[w], w, delay)
        BY <2>5 DEF Report, ReportRaises, Finish
      <3> QED
        BY <1>0, <2>1, <3>1, <3>2, OthersSpare
    <2>6. CASE \/ StartPoller(w) \/ StartDrain(w) \/ LoopEnds(w) \/ BeatRaises(w)
               \/ HandlerReturns(w) \/ HandlerRaises(w)
               \/ StopSignal(w) \/ Interrupt(w) \/ Crash(w)
      <3>1. UNCHANGED ledgerVars
        BY <2>6 DEF StartPoller, StartDrain, LoopEnds, BeatRaises, HandlerReturns,
                    HandlerRaises, StopSignal, Interrupt, Crash
      <3> QED
        BY <1>1, <2>1, <3>1
    <2> QED
      BY <1>4, <2>2, <2>3, <2>4, <2>5, <2>6 DEF WorkerStep, LoopTurn
  <1>5. CASE UNCHANGED vars
    <2>1. UNCHANGED ledgerVars /\ Same
      BY <1>5 DEF vars, workerVars
    <2> QED
      BY <1>1, <2>1
  <1> QED
    BY <1>2, <1>3, <1>4, <1>5

\* Worker v's own steps: a claim and an accepted heartbeat start the account
\* again, a heartbeat that raises takes one interval from it.
LEMMA MineBeats ==
  ASSUME WorkerInv, TypeOK, HealthInv, NEW v \in Workers, WorkerStep(v),
         pc[v] = "handling" => Beating(v),
         pc'[v] = "handling", TypeOK', CadenceFits
  PROVE  Beating(v)'
  <1> USE SystemAssumption, LedgerAssumption
  <1>0. \/ \E j \in Jobs : ClaimStep(v, j)
        \/ Progress(v) \/ Beat(v) \/ BeatRaises(v) \/ StopSignal(v)
    BY DEF TypeOK, WorkerStep, LoopTurn, StartPoller, StartDrain, LoopEnds, ClaimEmpty,
           ClaimAnswerLost, HandlerReturns, HandlerRaises, Report, ReportRaises,
           Interrupt, Crash, Leave, BackToLoop, RaiseFromRunOnce, workerVars
  <1>1. ASSUME NEW j \in Jobs, ClaimStep(v, j) PROVE Beating(v)'
    <2>1. job'[v] = j /\ missed'[v] = 0 /\ beat'[v] = BeatEvery
      BY <1>1 DEF ClaimStep, HealthInv, TypeOK
    <2>2. holder'[j] = v /\ status'[j] = "running" /\ leaseLeft'[j] = LeaseTime
      BY <1>1 DEF ClaimStep, Claims, ClaimJob, Take, SweptStatus, SweptHolder, SweptLease
    <2> QED
      BY <2>1, <2>2 DEF Beating, SinceRenewal
  <1>2. ASSUME pc[v] = "handling"
        PROVE  /\ job[v] \in Jobs /\ BeatMatches(job[v], v)
               /\ SinceRenewal(v) \in Nat /\ Beating(v)
    <2>1. Beating(v) /\ job[v] \in Jobs
      BY <1>2 DEF WorkerInv
    <2>2. beat[v] >= 0
      BY <2>1 DEF Beating
    <2>3. SinceRenewal(v) \in 0 .. (MissedMax + 1) * BeatEvery
      BY <2>2, SinceRenewalBounds
    <2> QED
      BY <2>1, <2>3 DEF Beating, BeatMatches
  <1>3. CASE Progress(v)
    <2>1. Heartbeat(job[v], v) /\ UNCHANGED workerVars
      BY <1>2, <1>3 DEF Progress
    <2>2. leaseLeft'[job[v]] = LeaseTime /\ UNCHANGED <<holder, status, job, missed, beat>>
      BY <1>2, <1>3, <2>1 DEF Progress, Heartbeat, TypeOK, LedgerTypeOK, workerVars
    <2> QED
      BY <1>2, <1>3, <2>2 DEF Progress, Beating, SinceRenewal
  <1>4. CASE Beat(v)
    <2>1. pc[v] = "handling"
      BY <1>4 DEF Beat
    <2>2. Heartbeat(job[v], v) /\ beat'[v] = BeatEvery /\ missed'[v] = 0 /\ job' = job
      BY <1>2, <1>4, <2>1 DEF Beat, TypeOK
    <2>3. leaseLeft'[job[v]] = LeaseTime /\ UNCHANGED <<holder, status>>
      BY <1>2, <2>1, <2>2 DEF Heartbeat, TypeOK, LedgerTypeOK
    <2> QED
      BY <1>2, <2>1, <2>2, <2>3 DEF Beating, SinceRenewal
  <1>5. CASE BeatRaises(v)
    <2>1. /\ pc[v] = "handling" /\ beat[v] = 0 /\ beat'[v] = BeatEvery
          /\ missed'[v] = missed[v] + 1 /\ missed[v] \in Nat
          /\ UNCHANGED <<holder, status, leaseLeft, job>>
      BY <1>5 DEF BeatRaises, BeatDue, TypeOK, ledgerVars
    <2>2. (missed[v] + 1) * BeatEvery = missed[v] * BeatEvery + BeatEvery
      BY <2>1
    <2>3. SinceRenewal(v)' = SinceRenewal(v)
      BY <2>1, <2>2 DEF SinceRenewal
    <2> QED
      BY <1>2, <2>1, <2>3 DEF Beating
  <1>6. CASE StopSignal(v)
    BY <1>2, <1>6 DEF StopSignal, ledgerVars, Beating, SinceRenewal
  <1> QED
    BY <1>0, <1>1, <1>3, <1>4, <1>5, <1>6

\* A tick takes one from the lease and counts as one.
LEMMA TickBeats ==
  ASSUME WorkerInv, TypeOK, TypeOK', NEW v \in Workers \ Stallable, TimePasses,
         pc[v] = "handling", Beating(v), CadenceFits
  PROVE  Beating(v)'
  <1>1. /\ beat[v] > 0 /\ beat'[v] = beat[v] - 1 /\ beat'[v] >= 0
        /\ missed' = missed /\ job' = job
    BY DEF TimePasses, BeatDue, Beating, TypeOK
  <1>2. /\ job[v] \in Jobs /\ leaseLeft[job[v]] \in Int /\ LeaseTime \in Int
        /\ leaseLeft'[job[v]] = leaseLeft[job[v]] - 1
        /\ UNCHANGED <<holder, status>>
    BY LedgerAssumption DEF TimePasses, Tick, Beating, WorkerInv, LedgerTypeOK
  <1>3. SinceRenewal(v) \in 0 .. (MissedMax + 1) * BeatEvery /\ missed[v] * BeatEvery \in Nat
    BY <1>1, SinceRenewalBounds DEF Beating
  <1>4. SinceRenewal(v)' \in 0 .. (MissedMax + 1) * BeatEvery
    <2>1. missed[v] * BeatEvery + (BeatEvery - (beat[v] - 1)) \in 0 .. (MissedMax + 1) * BeatEvery
      <3>1. /\ TypeOK' /\ beat'[v] >= 0
        BY <1>1, SystemAssumption DEF TypeOK
      <3>2. missed'[v] \in 0 .. MissedMax /\ beat'[v] \in 0 .. BeatEvery /\ BeatEvery \in Nat /\ MissedMax \in Nat
        BY <3>1, SystemAssumption DEF TypeOK
      <3>3. (MissedMax - missed[v]) * BeatEvery \in Nat
        BY <3>2, <1>1
      <3>4. (MissedMax + 1) * BeatEvery = missed[v] * BeatEvery + (MissedMax - missed[v]) * BeatEvery + BeatEvery
        BY <3>2, <1>1
      <3> QED
        BY <1>1, <1>3, <3>2, <3>3, <3>4
    <2> QED
      BY <1>1, <2>1 DEF SinceRenewal
  <1>5. SinceRenewal(v)' = SinceRenewal(v) + 1
    BY <1>1, <1>3, SystemAssumption DEF SinceRenewal, TypeOK
  <1>6. leaseLeft'[job[v]] >= LeaseTime - SinceRenewal(v)'
    BY <1>2, <1>3, <1>5 DEF Beating
  <1>7. leaseLeft'[job[v]] >= 0
    BY <1>2, <1>4, <1>6, SystemAssumption DEF CadenceFits
  <1> QED
    BY <1>1, <1>2, <1>6, <1>7 DEF Beating

LEMMA HealthNext ==
  ASSUME WorkerInv, TypeOK, TypeOK', HealthInv, [Next]_vars, CadenceFits
  PROVE  HealthInv'
  <1> SUFFICES ASSUME NEW v \in Workers \ Stallable, pc'[v] = "handling", opsLeft' = OperatorBudget
               PROVE  Beating(v)'
    BY CountsNext DEF HealthInv
  <1>1. opsLeft = OperatorBudget
    BY CountsNext, SystemAssumption DEF TypeOK
  <1>2. pc[v] = "handling" => Beating(v)
    BY <1>1 DEF HealthInv
  <1>3. CASE WorkerStep(v)
    BY <1>2, <1>3, MineBeats
  <1>4. CASE TimePasses
    <2>1. pc[v] = "handling"
      BY <1>4 DEF TimePasses
    <2> QED
      BY <1>2, <1>4, <2>1, TickBeats
  <1>5. ASSUME \/ \E p \in Producers : ProducerStep(p)
               \/ \E w \in Workers \ {v} : WorkerStep(w)
               \/ OperatorStep \/ UNCHANGED vars
        PROVE  Beating(v)'
    <2>1. pc[v] = "handling"
      BY <1>5 DEF ProducerStep, TryInsert, Notify, Lookup, EnqueueEnds, workerVars, vars,
             OperatorStep, OpCancel, OpRetryCheck, OpRetryUpdate, OpReap, TypeOK,
             WorkerStep, LoopTurn, StartPoller, StartDrain, LoopEnds, ClaimEmpty,
             ClaimStep, ClaimAnswerLost, HandlerReturns, HandlerRaises, Progress,
             Beat, BeatRaises, Report, ReportRaises, StopSignal, Interrupt, Crash,
             Leave, BackToLoop, RaiseFromRunOnce
    <2>2. /\ job'[v] = job[v] /\ missed'[v] = missed[v] /\ beat'[v] = beat[v]
          /\ Spared(job[v], v)
      BY <1>1, <1>2, <1>5, <2>1, NotMineSpares
    <2>3. SinceRenewal(v)' = SinceRenewal(v)
      BY <2>2 DEF SinceRenewal
    <2>4. /\ leaseLeft[job[v]] \in Int /\ leaseLeft'[job[v]] \in Int
          /\ LeaseTime \in Int /\ SinceRenewal(v) \in Int
      <3>1. job[v] \in Jobs /\ beat[v] >= 0
        BY <1>2, <2>1 DEF WorkerInv, Beating
      <3>2. SinceRenewal(v) \in 0 .. (MissedMax + 1) * BeatEvery
        BY <3>1, SinceRenewalBounds
      <3> QED
        BY <3>1, <3>2, LedgerAssumption DEF TypeOK, LedgerTypeOK
    <2> QED
      BY <1>2, <2>1, <2>2, <2>3, <2>4 DEF Beating, Spared
  <1> QED
    BY <1>3, <1>4, <1>5 DEF Next

\* worker.py:45-52: if the lease outlasts MissedMax + 1 heartbeat intervals, a
\* worker whose event loop runs and that misses no more than MissedMax
\* heartbeats in a row keeps the lease of the job it works on for as long as it
\* works, whatever other workers, sweeps and producers do.
THEOREM CadenceProtects ==
  ASSUME CadenceFits
  PROVE  Spec => []HealthyWorkerKeepsLease
  <1>1. WorkerInv /\ TypeOK /\ TypeOK' /\ HealthInv /\ [Next]_vars => HealthInv'
    BY HealthNext
  <1>2. HealthInv /\ TypeOK => HealthyWorkerKeepsLease
    BY SystemAssumption DEF HealthInv, HealthyWorkerKeepsLease, Beating, TypeOK
  <1> QED
    BY <1>1, <1>2, HealthInit, SystemTypeCorrect, WorkersHaveJobs, PTL DEF Spec
=============================================================================
