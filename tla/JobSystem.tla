------------------------------ MODULE JobSystem ------------------------------
(***************************************************************************)
(* The job ledger with the programs that call it: producers (enqueue and   *)
(* the doorbell), worker processes (Worker.run_forever and Worker.drain,   *)
(* with run_once, the handler and the background heartbeat task), and the  *)
(* operator (cancel, retry, reap).  Every await on the database is a step  *)
(* of its own, so anything may happen between two of them.                 *)
(***************************************************************************)
EXTENDS JobLedger

CONSTANTS
  Pollers,        \* workers that are long-lived processes (run_forever)
  Onces,          \* workers that are processes started with --once (drain);
                  \* every other worker is a call of the drain endpoint
  WorkerModule,   \* the module a worker's JobRepository is bound to
  WorkerKinds,    \* the kinds a worker is restricted to (all: Kinds)
  Handled,        \* kinds that have a registered handler
  DrainJobs,      \* max_jobs of a drain
  BeatEvery,      \* HEARTBEAT_SECONDS, in ticks
  MissedMax,      \* bound on consecutive heartbeats lost to a failing database
  Stallable,      \* workers whose event loop a handler may block
  Mortal,         \* workers that may crash or be shut down
  BackoffBase, BackoffCap, \* _backoff, in ticks
  Producers,      \* concurrent callers of enqueue
  Asks,           \* the requests they make
  BellMax,        \* bound on undelivered doorbell messages of a module
  Scheduled,      \* whether an external scheduler calls the drain endpoint
  OperatorBudget, \* bound on the operator's cancels and retries
  NoJob

ASSUME SystemAssumption ==
  /\ Pollers \subseteq Workers /\ Onces \subseteq Workers \ Pollers
  /\ Stallable \subseteq Workers /\ Mortal \subseteq Workers
  /\ WorkerModule \in [Workers -> Modules]
  /\ WorkerKinds \in [Workers -> SUBSET Kinds]
  /\ Handled \subseteq Kinds
  /\ DrainJobs \in Nat \ {0} /\ BeatEvery \in Nat \ {0}
  /\ MissedMax \in Nat /\ BellMax \in Nat /\ OperatorBudget \in Nat
  /\ BackoffBase \in Nat /\ BackoffCap \in 0 .. MaxDelay
  /\ Asks \subseteq Request
  /\ Scheduled \in BOOLEAN
  /\ NoJob \notin Jobs

VARIABLES
  pc,       \* a worker: off, idle, handling, reporting, or shutdown: gone
            \* after a CancelledError that left its job behind
  job,      \* the job run_once claimed
  attempt,  \* job.attempts, as read by the claim
  verdict,  \* what run_once is about to report: ok, error or unknown kind
  beat,     \* ticks to the next background heartbeat; -1: the task returned
  missed,   \* consecutive heartbeats that raised
  left,     \* jobs a drain may still run
  stopping, \* Worker._stopping
  ask,      \* a producer: ready, notifying or lookup
  wanted,   \* the request a producer is enqueueing
  bell,     \* undelivered doorbell messages per module
  retrying, \* the row of an operator's retry between its check and its UPDATE
  opsLeft   \* what remains of OperatorBudget

workerVars == <<pc, job, attempt, verdict, beat, missed, left, stopping>>
producerVars == <<ask, wanted>>
operatorVars == <<retrying, opsLeft>>
vars == <<ledgerVars, workerVars, producerVars, bell, operatorVars>>

TypeOK ==
  /\ LedgerTypeOK
  /\ pc \in [Workers -> {"off", "idle", "handling", "reporting", "shutdown"}]
  /\ job \in [Workers -> Jobs \cup {NoJob}]
  /\ attempt \in [Workers -> Nat]
  /\ verdict \in [Workers -> {"none", "ok", "error", "unknown"}]
  /\ beat \in [Workers -> -1 .. BeatEvery]
  /\ missed \in [Workers -> 0 .. MissedMax]
  /\ left \in [Workers -> 0 .. DrainJobs]
  /\ stopping \in [Workers -> BOOLEAN]
  /\ ask \in [Producers -> {"ready", "notifying", "lookup"}]
  /\ wanted \in [Producers -> Request]
  /\ bell \in [Modules -> 0 .. BellMax]
  /\ retrying \in Jobs \cup {NoJob}
  /\ opsLeft \in 0 .. OperatorBudget

Init ==
  /\ LedgerInit
  /\ pc = [w \in Workers |-> "off"]
  /\ job = [w \in Workers |-> NoJob]
  /\ attempt = [w \in Workers |-> 0]
  /\ verdict = [w \in Workers |-> "none"]
  /\ beat = [w \in Workers |-> 0]
  /\ missed = [w \in Workers |-> 0]
  /\ left = [w \in Workers |-> 0]
  /\ stopping = [w \in Workers |-> FALSE]
  /\ ask = [p \in Producers |-> "ready"]
  /\ wanted = [p \in Producers |-> CHOOSE r \in Request : TRUE]
  /\ bell = [m \in Modules |-> 0]
  /\ retrying = NoJob
  /\ opsLeft = OperatorBudget

-----------------------------------------------------------------------------
\* Producers: JobRepository.enqueue and JobNotifier.

\* The INSERT, which either inserts or hits the unique index.
TryInsert(p) ==
  /\ ask[p] = "ready"
  /\ \E r \in Asks :
       /\ wanted' = [wanted EXCEPT ![p] = r]
       /\ \/ /\ \E j \in Jobs : Insert(j, r, 0)
             /\ ask' = [ask EXCEPT ![p] = "notifying"]
          \/ /\ ~KeyFree(r.kind, r.key)
             /\ ask' = [ask EXCEPT ![p] = "lookup"]
             /\ UNCHANGED ledgerVars
  /\ UNCHANGED <<workerVars, bell, operatorVars>>

EnqueueEnds(p) ==
  /\ ask' = [ask EXCEPT ![p] = "ready"]
  /\ UNCHANGED <<ledgerVars, workerVars, wanted, operatorVars>>

\* The doorbell after an INSERT: published, or lost, which is swallowed.
Notify(p) ==
  /\ ask[p] = "notifying"
  /\ LET m == wanted[p].module
     IN \/ /\ bell[m] < BellMax
           /\ bell' = [bell EXCEPT ![m] = @ + 1]
        \/ UNCHANGED bell
  /\ EnqueueEnds(p)

\* The live row the SELECT after a conflict finds.
Found(r) == {j \in KeyHolders(r.kind, r.key) : request[j].module = r.module}

\* That SELECT: enqueue returns the row it finds, or raises RuntimeError when
\* it finds none.  Either way enqueue is over and the ledger is as it was.
Lookup(p) ==
  /\ ask[p] = "lookup"
  /\ EnqueueEnds(p)
  /\ UNCHANGED bell

-----------------------------------------------------------------------------
\* Workers.

\* What is gone with a process besides the job it ran.
Forgets(w) ==
  /\ verdict' = [verdict EXCEPT ![w] = "none"]
  /\ beat' = [beat EXCEPT ![w] = 0]
  /\ missed' = [missed EXCEPT ![w] = 0]
  /\ left' = [left EXCEPT ![w] = 0]
  /\ stopping' = [stopping EXCEPT ![w] = FALSE]

DropsJob(w) ==
  /\ job' = [job EXCEPT ![w] = NoJob]
  /\ attempt' = [attempt EXCEPT ![w] = 0]

\* The process or the drain call is over; its id is never used again.
Leave(w) ==
  /\ pc' = [pc EXCEPT ![w] = "off"]
  /\ DropsJob(w)
  /\ Forgets(w)

\* default_worker_id never repeats: a new process takes an id no row carries.
FreshId(w) == pc[w] \in {"off", "shutdown"} /\ \A j \in Jobs : holder[j] # w

StartPoller(w) ==
  /\ w \in Pollers
  /\ FreshId(w)
  /\ pc' = [pc EXCEPT ![w] = "idle"]
  /\ DropsJob(w)
  /\ UNCHANGED <<ledgerVars, verdict, beat, missed, left, stopping,
                 producerVars, bell, operatorVars>>

\* A drain: a process started by hand, or a call of the drain endpoint, by the
\* doorbell (whose queue may deliver a message again) or by a scheduler.
StartDrain(w) ==
  /\ w \notin Pollers
  /\ FreshId(w)
  /\ LET m == WorkerModule[w]
     IN \/ /\ w \notin Onces /\ bell[m] > 0
           /\ \/ bell' = [bell EXCEPT ![m] = @ - 1]
              \/ UNCHANGED bell
        \/ (w \in Onces \/ Scheduled) /\ UNCHANGED bell
  /\ pc' = [pc EXCEPT ![w] = "idle"]
  /\ left' = [left EXCEPT ![w] = DrainJobs]
  /\ DropsJob(w)
  /\ UNCHANGED <<ledgerVars, verdict, beat, missed, stopping,
                 producerVars, operatorVars>>

\* SIGTERM or SIGINT of a worker process: Worker.stop sets a flag.
StopSignal(w) ==
  /\ w \in Mortal /\ w \in Pollers \cup Onces
  /\ pc[w] \notin {"off", "shutdown"} /\ ~stopping[w]
  /\ stopping' = [stopping EXCEPT ![w] = TRUE]
  /\ UNCHANGED <<ledgerVars, pc, job, attempt, verdict, beat, missed, left,
                 producerVars, bell, operatorVars>>

\* run_once returns; the loop looks at its condition again.
BackToLoop(w) ==
  /\ pc' = [pc EXCEPT ![w] = "idle"]
  /\ DropsJob(w)
  /\ verdict' = [verdict EXCEPT ![w] = "none"]
  /\ beat' = [beat EXCEPT ![w] = 0]
  /\ missed' = [missed EXCEPT ![w] = 0]
  /\ UNCHANGED <<left, stopping>>

\* An exception out of run_once: run_forever logs it and goes on, drain does not.
RaiseFromRunOnce(w) == IF w \in Pollers THEN BackToLoop(w) ELSE Leave(w)

LoopOnForever(w) == w \in Pollers \/ left[w] > 0 \* mutant: while True

\* The loop condition: run_forever looks at the stop flag, drain at its counter
\* (and at the wall clock, see LoopEnds).
LoopOn(w) == IF w \in Pollers THEN ~stopping[w] ELSE left[w] > 0

\* run_forever after stop(), or drain at max_jobs or, once it has run a job,
\* at max_seconds.
LoopEnds(w) ==
  /\ pc[w] = "idle"
  /\ IF w \in Pollers THEN ~LoopOn(w) ELSE left[w] < DrainJobs
  /\ Leave(w)
  /\ UNCHANGED <<ledgerVars, producerVars, bell, operatorVars>>

Claims(w, j) == ClaimJob(w, WorkerModule[w], WorkerKinds[w], j)

\* run_once: the claim returns a row and its handler, if any, is started.
ClaimStep(w, j) ==
  /\ pc[w] = "idle"
  /\ LoopOn(w)
  /\ Claims(w, j)
  /\ job' = [job EXCEPT ![w] = j]
  /\ attempt' = [attempt EXCEPT ![w] = attempts'[j]]
  /\ left' = [left EXCEPT ![w] = IF w \in Pollers THEN @ ELSE @ - 1]
  /\ IF request[j].kind \in Handled
     THEN /\ pc' = [pc EXCEPT ![w] = "handling"]
          /\ beat' = [beat EXCEPT ![w] = BeatEvery]
          /\ UNCHANGED verdict
     ELSE /\ pc' = [pc EXCEPT ![w] = "reporting"]
          /\ verdict' = [verdict EXCEPT ![w] = "unknown"]
          /\ UNCHANGED beat
  /\ UNCHANGED <<missed, stopping, producerVars, bell, operatorVars>>

\* run_once: nothing to claim.  A poller sleeps, a drain returns.
ClaimEmpty(w) ==
  /\ pc[w] = "idle"
  /\ LoopOn(w)
  /\ ClaimNothing(WorkerModule[w], WorkerKinds[w])
  /\ IF w \in Pollers THEN UNCHANGED workerVars ELSE Leave(w)
  /\ UNCHANGED <<producerVars, bell, operatorVars>>

\* The claim commits but its answer is lost: the row waits for the reaper.
ClaimAnswerLost(w, j) ==
  /\ pc[w] = "idle"
  /\ LoopOn(w)
  /\ Claims(w, j)
  /\ RaiseFromRunOnce(w)
  /\ UNCHANGED <<producerVars, bell, operatorVars>>

\* The handler returns; the finally block cancels the heartbeat task, if it
\* has not returned by itself.
HandlerReturns(w) ==
  /\ pc[w] = "handling"
  /\ pc' = [pc EXCEPT ![w] = "reporting"]
  /\ verdict' = [verdict EXCEPT ![w] = "ok"]
  /\ beat' = [beat EXCEPT ![w] = IF @ = -1 THEN -1 ELSE 0]
  /\ UNCHANGED <<ledgerVars, job, attempt, missed, left, stopping, producerVars,
                 bell, operatorVars>>

\* The handler raises: run_once reports it inside the try statement, so the
\* heartbeat task is alive until the report is over.
HandlerRaises(w) ==
  /\ pc[w] = "handling"
  /\ pc' = [pc EXCEPT ![w] = "reporting"]
  /\ verdict' = [verdict EXCEPT ![w] = "error"]
  /\ UNCHANGED <<ledgerVars, job, attempt, beat, missed, left, stopping,
                 producerVars, bell, operatorVars>>

\* JobContext.progress: renews the lease, or raises JobLost out of the handler.
Progress(w) ==
  /\ pc[w] = "handling"
  /\ IF BeatMatches(job[w], w)
     THEN Heartbeat(job[w], w) /\ UNCHANGED workerVars
     ELSE BackToLoop(w) /\ UNCHANGED ledgerVars
  /\ UNCHANGED <<producerVars, bell, operatorVars>>

\* The heartbeat task's sleep is over.
BeatDue(w) ==
  /\ \/ pc[w] = "handling"
     \/ pc[w] = "reporting" /\ verdict[w] = "error"
  /\ beat[w] = 0

\* Worker._heartbeat: accepted, or rejected, upon which the task returns.
Beat(w) ==
  /\ BeatDue(w)
  /\ IF BeatMatches(job[w], w)
     THEN /\ Heartbeat(job[w], w)
          /\ beat' = [beat EXCEPT ![w] = BeatEvery]
          /\ missed' = [missed EXCEPT ![w] = 0]
     ELSE /\ beat' = [beat EXCEPT ![w] = -1]
          /\ UNCHANGED <<ledgerVars, missed>>
  /\ UNCHANGED <<pc, job, attempt, verdict, left, stopping, producerVars, bell,
                 operatorVars>>

BeatRaisesAndEnds(w) == \* mutant: the task does not survive the exception
  /\ BeatDue(w)
  /\ missed[w] < MissedMax
  /\ beat' = [beat EXCEPT ![w] = -1]
  /\ missed' = [missed EXCEPT ![w] = @ + 1]
  /\ UNCHANGED <<ledgerVars, pc, job, attempt, verdict, left, stopping,
                 producerVars, bell, operatorVars>>

\* Worker._heartbeat, when the call raises: logged, and the task sleeps again.
BeatRaises(w) ==
  /\ BeatDue(w)
  /\ missed[w] < MissedMax
  /\ beat' = [beat EXCEPT ![w] = BeatEvery]
  /\ missed' = [missed EXCEPT ![w] = @ + 1]
  /\ UNCHANGED <<ledgerVars, pc, job, attempt, verdict, left, stopping,
                 producerVars, bell, operatorVars>>

\* _backoff: exponential from BackoffBase, capped.
Backoff(n) ==
  LET d == BackoffBase * 2 ^ (IF n > 1 THEN n - 1 ELSE 0)
  IN IF d < BackoffCap THEN d ELSE BackoffCap

\* JobRepository.finish: the ledger's answer is not looked at.
Finish(w) ==
  LET j == job[w]
  IN \/ ~FinishMatches(j, w) /\ UNCHANGED ledgerVars
     \/ verdict[w] = "ok" /\ FinishSucceeded(j, w)
     \/ verdict[w] # "ok" /\ FinishFailed(j, w)
     \/ verdict[w] = "error" /\ FinishRequeued(j, w, Backoff(attempt[w]))
     \/ verdict[w] = "unknown" /\ FinishRequeued(j, w, 0)

Report(w) ==
  /\ pc[w] = "reporting"
  /\ Finish(w)
  /\ BackToLoop(w)
  /\ UNCHANGED <<producerVars, bell, operatorVars>>

\* The finish call raises, before or after the ledger took it.
ReportRaises(w) ==
  /\ pc[w] = "reporting"
  /\ Finish(w) \/ UNCHANGED ledgerVars
  /\ RaiseFromRunOnce(w)
  /\ UNCHANGED <<producerVars, bell, operatorVars>>

\* CancelledError out of the handler: the lease is left to expire.
Interrupt(w) ==
  /\ w \in Mortal
  /\ pc[w] = "handling"
  /\ pc' = [pc EXCEPT ![w] = "shutdown"]
  /\ Forgets(w)
  /\ UNCHANGED <<job, attempt>>
  /\ UNCHANGED <<ledgerVars, producerVars, bell, operatorVars>>

\* The process dies anywhere, or the platform kills the function.
Crash(w) ==
  /\ w \in Mortal
  /\ pc[w] \notin {"off", "shutdown"}
  /\ Leave(w)
  /\ UNCHANGED <<ledgerVars, producerVars, bell, operatorVars>>

-----------------------------------------------------------------------------
\* The operator (routers/admin_jobs.py).

OpCancel(j) ==
  /\ opsLeft > 0
  /\ retrying # j
  /\ Cancel(j)
  /\ opsLeft' = opsLeft - 1
  /\ UNCHANGED <<workerVars, producerVars, bell, retrying>>

\* retry_job up to its check for a live row with the same key, which answers
\* superseded.  Otherwise it goes on, holding the lock of the row.
OpRetryCheck(j) ==
  /\ opsLeft > 0 /\ retrying = NoJob
  /\ Retryable(j)
  /\ opsLeft' = opsLeft - 1
  /\ retrying' = IF KeyFree(request[j].kind, request[j].key) THEN j ELSE NoJob
  /\ UNCHANGED <<ledgerVars, workerVars, producerVars, bell>>

\* Its UPDATE: the unique index has the last word, and may raise.
OpRetryUpdate ==
  /\ retrying # NoJob
  /\ \/ Requeue(retrying)
     \/ /\ ~KeyFree(request[retrying].kind, request[retrying].key)
        /\ UNCHANGED ledgerVars
  /\ retrying' = NoJob
  /\ UNCHANGED <<workerVars, producerVars, bell, opsLeft>>

OpReap ==
  /\ \E M \in {Modules} \cup {{m} : m \in Modules}, max \in 1 .. SweepMax :
       Reap(M, max)
  /\ UNCHANGED <<workerVars, producerVars, bell, operatorVars>>

-----------------------------------------------------------------------------
\* Time passes.  A heartbeat that is due runs first, unless a handler blocks
\* the event loop.
TimePasses ==
  /\ \A w \in Workers \ Stallable : ~BeatDue(w)
  /\ Tick
  /\ beat' = [w \in Workers |-> IF beat[w] > 0 THEN beat[w] - 1 ELSE beat[w]]
  /\ UNCHANGED <<pc, job, attempt, verdict, missed, left, stopping, producerVars,
                 bell, operatorVars>>

ProducerStep(p) == TryInsert(p) \/ Notify(p) \/ Lookup(p)

LoopTurn(w) ==
  \/ LoopEnds(w) \/ ClaimEmpty(w)
  \/ \E j \in Jobs : ClaimStep(w, j) \/ ClaimAnswerLost(w, j)

WorkerStep(w) ==
  \/ StartPoller(w) \/ StartDrain(w) \/ LoopTurn(w)
  \/ HandlerReturns(w) \/ HandlerRaises(w)
  \/ Progress(w) \/ Beat(w) \/ BeatRaises(w)
  \/ Report(w) \/ ReportRaises(w)
  \/ StopSignal(w) \/ Interrupt(w) \/ Crash(w)

OperatorStep ==
  \/ \E j \in Jobs : OpCancel(j) \/ OpRetryCheck(j)
  \/ OpRetryUpdate
  \/ OpReap

Next ==
  \/ \E p \in Producers : ProducerStep(p)
  \/ \E w \in Workers : WorkerStep(w)
  \/ OperatorStep
  \/ TimePasses

Spec == Init /\ [][Next]_vars

\* What a deployment keeps doing: workers are started, loops go on, handlers
\* come to an end, calls return or raise, and time passes.  Nothing is assumed
\* of producers, operators, signals or crashes.
WorkerFairness(w) ==
  /\ WF_vars(StartPoller(w)) /\ WF_vars(StartDrain(w))
  /\ WF_vars(LoopTurn(w))
  /\ WF_vars(HandlerReturns(w) \/ HandlerRaises(w))
  /\ WF_vars(Beat(w) \/ BeatRaises(w))
  /\ WF_vars(Report(w) \/ ReportRaises(w))

FairSpec == Spec /\ WF_vars(TimePasses) /\ \A w \in Workers : WorkerFairness(w)

-----------------------------------------------------------------------------
\* Types, and the constraint jobs_running_has_lease (0009_jobs.sql:78) with its
\* converse: no row is running without a holder and a lease, and no finished,
\* requeued or cancelled row still belongs to a worker.  And max_attempts bounds the
\* attempts of every row, whatever is lost, reclaimed, retried or reported late.
SystemInv == TypeOK /\ LeaseIffRunning /\ AttemptsWithinLimit

\* "Never let two workers write one job's result" (worker.py:12): whoever
\* still holds the row holds it for the very attempt it is running, so a
\* verdict can only be recorded for the attempt that produced it -- across
\* stalls, takeovers, cancels, operator retries and recycled processes.
HolderRunsCurrentAttempt ==
  \A w \in Workers, j \in Jobs :
    pc[w] \in {"handling", "reporting"} /\ job[w] = j /\ holder[j] = w =>
      attempt[w] = attempts[j]

\* A row becomes succeeded only by the report of the worker that holds it, of
\* a handler that returned, for the attempt the row is on.
SuccessHasReporter ==
  \A j \in Jobs :
    status'[j] = "succeeded" /\ status[j] # "succeeded" =>
      \E w \in Workers :
        /\ holder[j] = w /\ job[w] = j /\ attempt[w] = attempts[j]
        /\ pc[w] = "reporting" /\ verdict[w] = "ok"

SuccessIsTheHoldersVerdict == [][SuccessHasReporter]_vars

\* The heartbeat cadence (worker.py:45-52): a worker whose event loop runs and
\* that misses no more than MissedMax consecutive heartbeats never loses the
\* lease of the job it is running, unless an operator cancels the job.
HealthyWorkerKeepsLease ==
  \A w \in Workers \ Stallable :
    pc[w] = "handling" =>
      \/ status[job[w]] = "cancelled" \/ opsLeft < OperatorBudget
      \/ holder[job[w]] = w /\ leaseLeft[job[w]] >= 0

\* "Never lose a job" (worker.py:9): whatever crashes, stalls, lost answers,
\* failing handlers and operator actions come, an accepted job comes to an end.
EveryJobSettles ==
  \A j \in Jobs : status[j] = "queued" ~> status[j] \in Terminal

\* Graceful shutdown: a process told to stop ends its loop, also when it was
\* told in the middle of a job.
StoppedWorkerLeaves ==
  \A w \in Pollers : stopping[w] ~> pc[w] \in {"off", "shutdown"}
=============================================================================
