----------------------------- MODULE JobContract -----------------------------
(***************************************************************************)
(* What the job ledger promises whoever enqueues a job, without leases,    *)
(* clocks, sweeps, keys or modules: each job lives its own life, is run by *)
(* one owner at a time, is tried at most quota times, and stays finished.  *)
(* One step of the ledger may move several jobs (a claim first sweeps), so *)
(* a step moves every job along its own life cycle or leaves it alone.     *)
(***************************************************************************)
EXTENDS Integers

CONSTANTS Jobs, Workers, Limits, Nobody

VARIABLES
  phase, \* the job's status, as its owner reads it
  quota, \* how often it may be tried
  tries, \* how often it has been tried since it was (re)queued by a person
  owner  \* the worker whose verdict on it counts

vars == <<phase, quota, tries, owner>>

Init ==
  /\ phase = [j \in Jobs |-> "absent"]
  /\ quota \in [Jobs -> Limits]
  /\ tries = [j \in Jobs |-> 0]
  /\ owner = [j \in Jobs |-> Nobody]

-----------------------------------------------------------------------------
Goes(j, from, to) == phase[j] \in from /\ phase'[j] = to

Idle(j) == phase'[j] = phase[j] /\ tries'[j] = tries[j] /\ owner'[j] = owner[j]

Submitted(j) ==
  Goes(j, {"absent"}, "queued") /\ tries'[j] = 0 /\ owner'[j] = Nobody

\* A try begins, also when the last owner has gone quiet.
Started(j) ==
  /\ Goes(j, {"queued", "running"}, "running")
  /\ tries[j] < quota[j]
  /\ tries'[j] = tries[j] + 1
  /\ owner'[j] \in Workers

Succeeded(j) ==
  Goes(j, {"running"}, "succeeded") /\ tries'[j] = tries[j] /\ owner'[j] = Nobody

GaveUp(j) ==
  /\ Goes(j, {"running"}, "failed")
  /\ tries[j] = quota[j]
  /\ tries'[j] = tries[j] /\ owner'[j] = Nobody

TriedInVain(j) ==
  /\ Goes(j, {"running"}, "queued")
  /\ tries[j] < quota[j]
  /\ tries'[j] = tries[j] /\ owner'[j] = Nobody

CalledOff(j) ==
  /\ Goes(j, {"queued", "running"}, "cancelled")
  /\ tries'[j] = tries[j] /\ owner'[j] = Nobody

Reopened(j) ==
  Goes(j, {"failed", "cancelled"}, "queued") /\ tries'[j] = 0 /\ owner'[j] = Nobody

Lives(j) ==
  \/ Submitted(j) /\ quota'[j] \in Limits
  \/ /\ quota'[j] = quota[j]
     /\ \/ Idle(j) \/ Started(j) \/ Succeeded(j) \/ GaveUp(j)
        \/ TriedInVain(j) \/ CalledOff(j) \/ Reopened(j)

Next == \A j \in Jobs : Lives(j)

Spec == Init /\ [][Next]_vars
=============================================================================
