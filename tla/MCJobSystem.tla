----------------------------- MODULE MCJobSystem -----------------------------
(***************************************************************************)
(* Instances of JobSystem for TLC, and what comments and documentation say *)
(* of the job system and the code does not do: each formula is refuted     *)
(* when it is added to a cfg that README.md names; it also tells the       *)
(* counterexamples' stories.                                               *)
(***************************************************************************)
EXTENDS JobSystem, TLC

CONSTANTS j1, j2, w1, w2, mGrants, mContracts, kScan, kOther, x

Ask(m, k, n) == [module |-> m, kind |-> k, key |-> x, priority |-> 1, limit |-> n]

\* One kind of request, with an idempotency key: every enqueue may collide.
ScanTwice == {Ask(mGrants, kScan, 2)}
ScanOnce == {Ask(mGrants, kScan, 1)}

\* A kind no handler is registered for.
BothTwice == ScanTwice \cup {Ask(mGrants, kOther, 2)}

AllGrants == [w \in Workers |-> mGrants]
AllKinds == [w \in Workers |-> Kinds]

JobSymmetry == Permutations(Jobs)

-----------------------------------------------------------------------------
\* worker.py:12, 0018:145: a lost lease stops the handler, by the heartbeat if
\* by nothing else.  (_heartbeat only returns: nobody cancels the handler.)
LostLeaseStopsHandler ==
  \A w \in Workers : ~(pc[w] = "reporting" /\ verdict[w] = "ok" /\ beat[w] = -1)

\* worker.py:234: a job of a kind without handler is failed without retrying.
\* (finish_job requeues any failure while attempts remain.)
UnknownKindNotRetried ==
  \A j \in Jobs : request[j].kind \notin Handled /\ status[j] = "queued" =>
    attempts[j] = 0

\* worker.py:266: an interrupted attempt is left to expire so that the job is
\* retried rather than failed.  (On the last attempt the sweep fails it.)
InterruptedIsNotFailed ==
  \A w \in Workers :
    pc[w] = "shutdown" /\ attempt[w] = attempts[job[w]] =>
      status[job[w]] # "failed"

\* grant_service.py:244: a job has an error for the user when it failed.
\* (finish_job no longer clears last_error of an earlier attempt.)
SucceededHasNoError == \A j \in Jobs : status[j] = "succeeded" => ~hasError[j]

\* jobs.py:128: enqueue returns the live job that holds the key.  (It may be
\* gone, or belong to another module, when the SELECT looks for it.)
EnqueueReturnsAJob ==
  \A p \in Producers : ask[p] = "lookup" => Found(wanted[p]) # {}

\* worker_main.py:10: a signal stops the loop after the current job.
\* (drain, which --once runs, does not look at the flag.)
StopEndsTheLoop ==
  [][\A w \in Workers :
       pc[w] = "idle" /\ stopping[w] => pc'[w] \notin {"handling", "reporting"}]_vars

\* 0018:207: retry_job detects a collision with a live row and reports it, so
\* its UPDATE never violates the index.  (The check does not lock the key.)
RetryNeverCollides ==
  retrying # NoJob => KeyFree(request[retrying].kind, request[retrying].key)
=============================================================================
