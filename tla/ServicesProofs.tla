----------------------------- MODULE ServicesProofs -----------------------------
(***************************************************************************)
(* Proofs about LlmBreaker, for any callers, threshold, number of attempts *)
(* and recovery time; EntitlementCache, for any calls, lifetime and        *)
(* changes; and Enrichment, for any notices, texts, batches and failures.  *)
(*                                                                         *)
(* BreakerInv is inductive: it adds to the type the two facts that tie the *)
(* counters to what happened.  The failure count is the streak of calls    *)
(* given up, cut off below the threshold while the circuit is closed; and  *)
(* the cooldown left and the time since the last trip make up the recovery *)
(* time.                                                                   *)
(*                                                                         *)
(* CacheIndInv: no reading that a call holds and will cache is older than  *)
(* what was published of its part, and a call that has changed the         *)
(* subscription reads it no older than its change.                         *)
(*                                                                         *)
(* EnrichIndInv: an answer that was paid is stored, lost or about to be    *)
(* stored, and of the batches that have seen no stored answer each may pay *)
(* once more (AnswersAccounted); what a batch has selected is the notice's *)
(* own text unless the feed has changed it.                                *)
(***************************************************************************)
EXTENDS LlmBreaker, EntitlementCache, Enrichment, FiniteSetTheorems, WellFoundedInduction, TLAPS

LEMMA InitIInv == Init => BreakerInv
<1> SUFFICES ASSUME Init PROVE BreakerInv
  OBVIOUS
<1>1. TypeOK
  <2>1. open \in BOOLEAN /\ provider \in {"up", "flaky", "down"}
    BY Zenon DEF Init
  <2>2. /\ failures \in Nat /\ cooling \in 0 .. Recovery /\ streak \in 0 .. Threshold
        /\ calm \in 0 .. Recovery
        /\ attempt \in [Calls -> 0 .. MaxAttempts]
    BY BreakerAssumption DEF Init
  <2> QED BY <2>1, <2>2, Zenon DEF TypeOK
<1>2. OpensWhenEarned
  <2>1. ~open
    BY DEF Init
  <2>2. failures = Least(streak, Threshold - 1)
    BY BreakerAssumption DEF Init, Least
  <2> QED BY <2>1, <2>2 DEF OpensWhenEarned
<1>3. Cooldown
  BY BreakerAssumption DEF Init, Cooldown
<1> QED BY <1>1, <1>2, <1>3 DEF BreakerInv

LEMMA EnterIInv == ASSUME NEW c \in Calls, BreakerInv, Enter(c) PROVE BreakerInv'
  BY BreakerAssumption
  DEF BreakerInv, TypeOK, OpensWhenEarned, Cooldown, Enter, Idle, Sets, Least

LEMMA HalfOpenIInv == ASSUME NEW c \in Calls, BreakerInv, HalfOpen(c) PROVE BreakerInv'
<1>1. TypeOK'
  <2>1. attempt' \in [Calls -> 0 .. MaxAttempts]
    BY BreakerAssumption DEF HalfOpen, Sets, BreakerInv, TypeOK
  <2>2. open' \in BOOLEAN /\ provider' \in {"up", "flaky", "down"}
    BY Zenon DEF HalfOpen, BreakerInv, TypeOK
  <2>3. /\ failures' \in Nat /\ cooling' \in 0 .. Recovery /\ streak' \in 0 .. Threshold
        /\ calm' \in 0 .. Recovery
    BY BreakerAssumption DEF HalfOpen, BreakerInv, TypeOK
  <2> QED BY <2>1, <2>2, <2>3, Zenon DEF TypeOK
<1>2. OpensWhenEarned'
  <2>1. ~open'
    BY DEF HalfOpen
  <2>2. failures' = Least(streak', Threshold - 1)
    BY BreakerAssumption DEF HalfOpen, BreakerInv, TypeOK, OpensWhenEarned, Least
  <2> QED BY <2>1, <2>2 DEF OpensWhenEarned
<1>3. Cooldown'
  BY BreakerAssumption DEF HalfOpen, BreakerInv, TypeOK, Cooldown
<1> QED BY <1>1, <1>2, <1>3 DEF BreakerInv

LEMMA RetryIInv == ASSUME NEW c \in Calls, BreakerInv, Retry(c) PROVE BreakerInv'
  BY BreakerAssumption
  DEF BreakerInv, TypeOK, OpensWhenEarned, Cooldown, Retry, Sets, Least

LEMMA SucceedIInv == ASSUME NEW c \in Calls, BreakerInv, Succeed(c) PROVE BreakerInv'
<1>1. TypeOK'
  <2>1. attempt' \in [Calls -> 0 .. MaxAttempts]
    BY BreakerAssumption DEF Succeed, Sets, BreakerInv, TypeOK
  <2>2. open' \in BOOLEAN /\ provider' \in {"up", "flaky", "down"}
    BY Zenon DEF Succeed, BreakerInv, TypeOK
  <2>3. /\ failures' \in Nat /\ cooling' \in 0 .. Recovery /\ streak' \in 0 .. Threshold
        /\ calm' \in 0 .. Recovery
    BY BreakerAssumption DEF Succeed, BreakerInv, TypeOK
  <2> QED BY <2>1, <2>2, <2>3, Zenon DEF TypeOK
<1>2. OpensWhenEarned'
  <2>1. ~open'
    BY DEF Succeed
  <2>2. failures' = Least(streak', Threshold - 1)
    BY BreakerAssumption DEF Succeed, BreakerInv, TypeOK, OpensWhenEarned, Least
  <2> QED BY <2>1, <2>2 DEF OpensWhenEarned
<1>3. Cooldown'
  BY BreakerAssumption DEF Succeed, BreakerInv, TypeOK, Cooldown
<1> QED BY <1>1, <1>2, <1>3 DEF BreakerInv

LEMMA RejectIInv == ASSUME NEW c \in Calls, BreakerInv, Reject(c) PROVE BreakerInv'
  BY BreakerAssumption
  DEF BreakerInv, TypeOK, OpensWhenEarned, Cooldown, Reject, Idle, Sets, Least

\* A call given up keeps the invariant: at the threshold it opens the circuit
\* and starts the cooldown anew, below it count and streak both go up by one.
LEMMA GiveUpIInv == ASSUME NEW c \in Calls, BreakerInv, GiveUp(c) PROVE BreakerInv'
<1> USE BreakerAssumption DEF BreakerInv, TypeOK, OpensWhenEarned, Cooldown
<1>1. failures' = failures + 1 /\ streak' = Least(streak + 1, Threshold)
  BY DEF GiveUp, GivenUp
<1>2. attempt' \in [Calls -> 0 .. MaxAttempts] /\ provider' = provider
  BY DEF GiveUp, GivenUp, Sets
<1>3. CASE failures' >= Threshold
  <2>1. streak' = Threshold
    BY <1>1, <1>3 DEF Least
  <2>2. open' = TRUE /\ cooling' = Recovery /\ calm' = 0
    BY <1>3, <2>1 DEF GiveUp, GivenUp
  <2> QED BY <1>1, <1>2, <1>3, <2>1, <2>2
<1>4. CASE ~(failures' >= Threshold)
  <2>1. ~open /\ open' = open /\ cooling' = cooling
    BY <1>1, <1>4 DEF GiveUp
  <2>2. failures = streak /\ streak' = streak + 1 /\ streak' < Threshold
    BY <1>1, <1>4, <2>1 DEF Least
  <2>3. calm' = calm
    BY <2>2 DEF GiveUp, GivenUp
  <2> QED BY <1>1, <1>2, <2>1, <2>2, <2>3 DEF Least
<1> QED BY <1>3, <1>4

LEMMA TickIInv == BreakerInv /\ Tick => BreakerInv'
  BY BreakerAssumption
  DEF BreakerInv, TypeOK, OpensWhenEarned, Cooldown, Tick, Least

LEMMA NextIInv == BreakerInv /\ [Next]_vars => BreakerInv'
<1> SUFFICES ASSUME BreakerInv, [Next]_vars PROVE BreakerInv'
  OBVIOUS
<1>1. ASSUME NEW c \in Calls, Admit(c) PROVE BreakerInv'
  BY <1>1, EnterIInv, HalfOpenIInv DEF Admit
<1>2. ASSUME NEW c \in Calls, Answer(c) PROVE BreakerInv'
  BY <1>2, RetryIInv, SucceedIInv, GiveUpIInv, RejectIInv DEF Answer
<1>3. CASE Tick
  BY <1>3, TickIInv
<1>4. CASE Provider
  BY <1>4 DEF Provider, BreakerInv, TypeOK, OpensWhenEarned, Cooldown, Least
<1>5. CASE UNCHANGED vars
  BY <1>5 DEF vars, BreakerInv, TypeOK, OpensWhenEarned, Cooldown, Least
<1> QED BY <1>1, <1>2, <1>3, <1>4, <1>5 DEF Next

\* The breaker's fields keep their types, the circuit opens exactly when
\* failure_threshold calls in a row were given up, or one was after a cooldown,
\* and the cooldown runs from the last of them.
THEOREM OpeningIsEarned == Spec => []BreakerInv
<1> QED BY InitIInv, NextIInv, PTL DEF Spec

\* No call is let in within recovery_seconds of the last trip, unless one
\* succeeded in between.
THEOREM OutagesFailFast == Spec => FailsFast
<1>1. Init => BreakerInv
  BY InitIInv
<1>2. BreakerInv /\ [Next]_vars => BreakerInv'
  BY NextIInv
<1>3. BreakerInv /\ [Next]_vars => [LetsInWhenCalm]_vars
  <2> SUFFICES ASSUME BreakerInv, Next, NEW d \in Calls, Idle(d), attempt'[d] # 0
               PROVE  calm = Recovery
    BY DEF LetsInWhenCalm
  <2>1. ASSUME NEW c \in Calls, Admit(c) PROVE cooling = 0
    BY <2>1 DEF Admit, Enter, HalfOpen, BreakerInv, Cooldown
  <2>2. ASSUME NEW c \in Calls, Answer(c) PROVE FALSE
    <3>1. ASSUME Retry(c) PROVE FALSE
      <4>1. c # d
        BY <3>1, BreakerAssumption DEF Retry, Idle
      <4> QED BY <3>1, <4>1 DEF Retry, Sets, Idle, BreakerInv, TypeOK
    <3>2. ASSUME attempt' = [attempt EXCEPT ![c] = 0] PROVE FALSE
      BY <3>2 DEF Idle, BreakerInv, TypeOK
    <3> QED BY <2>2, <3>1, <3>2 DEF Answer, Succeed, GiveUp, Reject, Sets
  <2>3. ~Tick /\ ~Provider
    BY DEF Tick, Provider, Idle
  <2>4. cooling = 0
    BY <2>1, <2>2, <2>3 DEF Next
  <2> QED BY <2>4, BreakerAssumption DEF BreakerInv, TypeOK, Cooldown
<1>4. Spec => [][LetsInWhenCalm]_vars
  BY <1>1, <1>2, <1>3, PTL DEF Spec
<1> QED BY <1>4 DEF FailsFast

-----------------------------------------------------------------------------
\* A call holds a reading of p, and will cache it.
Holding(c, p) ==
  \/ step[c] \in {"save", "set"}
  \/ p = "subscription" /\ step[c] \in Parts \ {"subscription"}
  \/ p = "catalog" /\ step[c] \in {"status", "override"}
  \/ p = "status" /\ step[c] = "override"

\* No reading that is held, and no snapshot, is older than what was published, and
\* a call that has changed the subscription reads it no older than its change.
ReadingsAreFresh ==
  /\ \A p \in Parts : floor[p] <= truth[p]
  /\ \A c \in Tasks, p \in Parts : Holding(c, p) => seen[c][p] >= floor[p]
  /\ \A c \in Tasks : change[c] # Empty =>
       /\ change[c][1] \in Parts /\ change[c][2] <= truth[change[c][1]]
       /\ change[c][1] = "subscription" \/ step[c] = "drop"
       /\ Holding(c, change[c][1]) => seen[c][change[c][1]] >= change[c][2]

\* The inductive invariant of EntitlementCache.
CacheIndInv == CacheInv /\ ReadingsAreFresh

LEMMA CacheTypes ==
  ASSUME CacheIndInv
  PROVE  /\ truth \in Snapshot /\ floor \in Snapshot /\ Unread \in Snapshot
         /\ \A c \in Tasks : seen[c] \in Snapshot
         /\ \A s \in Snapshot, p \in Parts : s[p] \in 0 .. ChangeMax /\ s[p] \in Int
         /\ ChangeMax \in Nat /\ Ttl \in Nat /\ Ttl >= 1
         /\ \A c \in Tasks : change[c] # Empty =>
              change[c][1] \in Parts /\ change[c][2] \in 1 .. ChangeMax /\ change[c][2] \in Int
         /\ \A c \in Tasks : step[c] \in Parts \cup {"idle", "get", "peek", "table", "save", "set", "drop", "done"}
  <1>1. ChangeMax \in Nat /\ Ttl \in Nat /\ Ttl >= 1
    BY CacheAssumption
  <1>2. truth \in Snapshot /\ floor \in Snapshot /\ \A c \in Tasks : seen[c] \in Snapshot
    BY DEF CacheIndInv, CacheInv, CacheTypeOK
  <1>3. Unread \in Snapshot
    BY <1>1 DEF Unread, Snapshot
  <1>4. \A s \in Snapshot, p \in Parts : s[p] \in 0 .. ChangeMax /\ s[p] \in Int
    BY <1>1 DEF Snapshot
  <1>5. \A c \in Tasks : change[c] # Empty => change[c] \in Parts \X (1 .. ChangeMax)
    BY DEF CacheIndInv, CacheInv, CacheTypeOK
  <1>6. \A c \in Tasks : step[c] \in Parts \cup {"idle", "get", "peek", "table", "save", "set", "drop", "done"}
    BY DEF CacheIndInv, CacheInv, CacheTypeOK
  <1> QED
    BY <1>1, <1>2, <1>3, <1>4, <1>5, <1>6

\* A step of call c that publishes nothing, holds no more than what it held and
\* reads nothing new.
LEMMA NothingNew ==
  ASSUME CacheIndInv, CacheTypeOK', NEW c \in Tasks, NEW s, Becomes(c, s),
         UNCHANGED <<truth, floor>>, cache' = cache \/ cache' = Empty,
         \A d \in Tasks : d # c => seen'[d] = seen[d] /\ change'[d] = change[d],
         \A p \in Parts : Holding(c, p)' => Holding(c, p) /\ seen'[c] = seen[c],
         \/ change'[c] = Empty
         \/ change'[c] = change[c] /\ step[c] # "drop"
  PROVE  CacheIndInv'
  <1>1. \A d \in Tasks : d # c => step'[d] = step[d]
    BY DEF Becomes, CacheIndInv, CacheInv, CacheTypeOK
  <1>2. QuietChangesShow'
    BY DEF CacheIndInv, CacheInv, QuietChangesShow
  <1>3. \A d \in Tasks, p \in Parts : Holding(d, p)' => Holding(d, p) /\ seen'[d] = seen[d]
    BY <1>1 DEF Holding
  <1>4. \A d \in Tasks, p \in Parts : Holding(d, p)' => seen'[d][p] >= floor'[p]
    BY <1>3 DEF CacheIndInv, ReadingsAreFresh
  <1>5. ASSUME NEW d \in Tasks, change'[d] # Empty
        PROVE  /\ change'[d][1] \in Parts /\ change'[d][2] <= truth'[change'[d][1]]
               /\ change'[d][1] = "subscription" \/ step'[d] = "drop"
               /\ Holding(d, change[d][1])' => seen'[d][change'[d][1]] >= change'[d][2]
    <2>1. change'[d] = change[d]
      BY <1>5
    <2>2. /\ change[d][1] \in Parts /\ change[d][2] <= truth[change[d][1]]
          /\ change[d][1] = "subscription" \/ step[d] = "drop"
          /\ Holding(d, change[d][1]) => seen[d][change[d][1]] >= change[d][2]
      BY <1>5, <2>1 DEF CacheIndInv, ReadingsAreFresh
    <2>3. change'[d][1] = "subscription" \/ step'[d] = "drop"
      BY <2>1, <2>2, <1>1, <1>5
    <2>4. Holding(d, change[d][1])' => seen'[d][change'[d][1]] >= change'[d][2]
      BY <2>1, <2>2, <1>3
    <2> QED
      BY <2>1, <2>2, <2>3, <2>4
  <1>6. \A p \in Parts : floor'[p] <= truth'[p]
    BY DEF CacheIndInv, ReadingsAreFresh
  <1> QED
    BY <1>2, <1>4, <1>5, <1>6 DEF CacheIndInv, CacheInv, ReadingsAreFresh

\* What is published is not newer than the truth, and what is held by others and
\* not newer than it was changed is as new.
LEMMA Publishes ==
  ASSUME CacheIndInv, NEW c \in Tasks, Published(c)
  PROVE  /\ floor' \in Snapshot
         /\ \A p \in Parts : floor[p] <= floor'[p] /\ floor'[p] <= truth[p]
         /\ \A d \in Tasks \ {c}, p \in Parts : Holding(d, p) => seen[d][p] >= floor'[p]
         /\ \A p \in Parts : floor'[p] = floor[p] \/ (change[c] # Empty /\ change[c] = <<p, floor'[p]>>)
         /\ change' \in [Tasks -> (Parts \X (1 .. ChangeMax)) \cup {Empty}]
         /\ change'[c] = Empty /\ \A d \in Tasks : d # c => change'[d] = change[d]
  <1>1. /\ change \in [Tasks -> (Parts \X (1 .. ChangeMax)) \cup {Empty}]
        /\ change' = [change EXCEPT ![c] = Empty]
    BY DEF CacheIndInv, CacheInv, CacheTypeOK, Published
  <1>2. /\ change' \in [Tasks -> (Parts \X (1 .. ChangeMax)) \cup {Empty}]
        /\ change'[c] = Empty /\ \A d \in Tasks : d # c => change'[d] = change[d]
    BY <1>1
  <1>3. \A p \in Parts : floor[p] <= truth[p] /\ floor[p] \in Int
    BY CacheTypes DEF CacheIndInv, ReadingsAreFresh
  <1>4. \A d \in Tasks, p \in Parts : Holding(d, p) => seen[d][p] >= floor[p]
    BY DEF CacheIndInv, ReadingsAreFresh
  <1>5. CASE floor' = floor
    BY <1>2, <1>3, <1>4, <1>5, CacheTypes
  <1>6. CASE floor' # floor
    <2> DEFINE q == change[c][1]
               v == change[c][2]
    <2>1. change[c] # Empty /\ ~ReadBefore(c, q, v) /\ ~(floor[q] > v) /\ floor' = [floor EXCEPT ![q] = v]
      BY <1>6 DEF Published
    <2>2. q \in Parts /\ v \in 1 .. ChangeMax /\ v <= truth[q] /\ v \in Int /\ change[c] = <<q, v>>
      BY <2>1, <1>1, CacheTypes DEF CacheIndInv, ReadingsAreFresh
    <2>3. \A d \in Tasks \ {c} : Holding(d, q) => ~(seen[d][q] < v)
      BY <2>1 DEF ReadBefore, Holding
    <2>4. \A d \in Tasks \ {c} : Holding(d, q) => seen[d][q] >= v
      BY <2>2, <2>3, CacheTypes
    <2> HIDE DEF q, v
    <2>5. floor'[q] = v /\ \A p \in Parts : p # q => floor'[p] = floor[p]
      BY <2>1, <2>2, CacheTypes DEF Snapshot
    <2>6. floor' \in Snapshot
      BY <2>1, <2>2, CacheTypes DEF Snapshot
    <2>7. floor[q] <= v
      BY <2>1, <2>2, <1>3
    <2>8. \A p \in Parts : floor[p] <= floor'[p] /\ floor'[p] <= truth[p]
      BY <2>2, <2>5, <2>7, <1>3
    <2>9. \A d \in Tasks \ {c}, p \in Parts : Holding(d, p) => seen[d][p] >= floor'[p]
      BY <2>4, <2>5, <1>4
    <2> QED
      BY <1>2, <2>1, <2>2, <2>5, <2>6, <2>8, <2>9
  <1> QED
    BY <1>5, <1>6

\* A step that moves call c and publishes what it changed.
LEMMA PublishingStep ==
  ASSUME CacheIndInv, NEW c \in Tasks, Published(c), NEW s, Becomes(c, s), s \in {"done", "subscription"},
         UNCHANGED <<truth, seen, saved>>,
         cache' = Empty \/ (cache' = seen[c] /\ step[c] = "set"), age' = 0,
         said' \in [Tasks -> BOOLEAN]
  PROVE  CacheIndInv'
  <1>1. /\ step \in [Tasks -> Parts \cup {"idle", "get", "peek", "table", "save", "set", "drop", "done"}]
        /\ saved \in BOOLEAN \cup {Empty} /\ seen \in [Tasks -> Snapshot] /\ truth \in Snapshot
    BY DEF CacheIndInv, CacheInv, CacheTypeOK
  <1>2. step'[c] = s /\ \A d \in Tasks : d # c => step'[d] = step[d]
    BY <1>1 DEF Becomes
  <1>3. CacheTypeOK'
    <2>1. step' \in [Tasks -> Parts \cup {"idle", "get", "peek", "table", "save", "set", "drop", "done"}]
      BY <1>1 DEF Becomes, Parts
    <2>2. age' \in 0 .. Ttl - 1
      BY CacheTypes
    <2>3. cache' \in Snapshot \cup {Empty}
      BY <1>1
    <2> QED
      BY <1>1, <2>1, <2>2, <2>3, Publishes DEF CacheTypeOK
  <1>4. \A p \in Parts : ~Holding(c, p)'
    BY <1>2 DEF Holding, Parts
  <1>5. \A d \in Tasks, p \in Parts : Holding(d, p)' => d # c /\ Holding(d, p)
    BY <1>2, <1>4 DEF Holding
  <1>6. \A d \in Tasks, p \in Parts : Holding(d, p)' => seen'[d][p] >= floor'[p]
    BY <1>5, Publishes
  <1>7. QuietChangesShow'
    <2> SUFFICES ASSUME cache' = seen[c], step[c] = "set", NEW p \in Parts PROVE seen[c][p] >= floor'[p]
      BY DEF QuietChangesShow
    <2>1. \A q \in Parts : Holding(c, q)
      BY DEF Holding
    <2>2. seen[c][p] >= floor[p]
      BY <2>1 DEF CacheIndInv, ReadingsAreFresh
    <2>3. ASSUME change[c] # Empty, change[c] = <<p, floor'[p]>> PROVE seen[c][p] >= floor'[p]
      <3>1. change[c][1] = p /\ change[c][2] = floor'[p]
        BY <2>3
      <3>2. Holding(c, change[c][1]) => seen[c][change[c][1]] >= change[c][2]
        BY <2>3 DEF CacheIndInv, ReadingsAreFresh
      <3> QED
        BY <2>1, <3>1, <3>2
    <2> QED
      BY <2>2, <2>3, Publishes
  <1>8. ASSUME NEW d \in Tasks, change'[d] # Empty
        PROVE  /\ change'[d][1] \in Parts /\ change'[d][2] <= truth'[change'[d][1]]
               /\ change'[d][1] = "subscription" \/ step'[d] = "drop"
               /\ Holding(d, change[d][1])' => seen'[d][change'[d][1]] >= change'[d][2]
    <2>1. d # c /\ change'[d] = change[d] /\ step'[d] = step[d]
      BY <1>8, <1>2, Publishes
    <2>2. /\ change[d][1] \in Parts /\ change[d][2] <= truth[change[d][1]]
          /\ change[d][1] = "subscription" \/ step[d] = "drop"
          /\ Holding(d, change[d][1]) => seen[d][change[d][1]] >= change[d][2]
      BY <1>8, <2>1 DEF CacheIndInv, ReadingsAreFresh
    <2> QED
      BY <2>1, <2>2, <1>5
  <1>9. \A p \in Parts : floor'[p] <= truth'[p]
    BY Publishes
  <1> QED
    BY <1>3, <1>6, <1>7, <1>8, <1>9 DEF CacheIndInv, CacheInv, ReadingsAreFresh

-----------------------------------------------------------------------------
LEMMA CacheMoves ==
  ASSUME CacheIndInv, NEW c \in Tasks, NEW s, Becomes(c, s),
         s \in Parts \cup {"idle", "get", "peek", "table", "save", "set", "drop", "done"}
  PROVE  /\ step' \in [Tasks -> Parts \cup {"idle", "get", "peek", "table", "save", "set", "drop", "done"}]
         /\ step'[c] = s /\ \A d \in Tasks : d # c => step'[d] = step[d]
         /\ \A d \in Tasks, p \in Parts : d # c => Holding(d, p)' = Holding(d, p)
  BY DEF Becomes, CacheIndInv, CacheInv, CacheTypeOK, Holding

\* A call that moves on and changes at most its answer.
LEMMA MovesOn ==
  ASSUME CacheIndInv, NEW c \in Tasks, NEW s, Becomes(c, s),
         s \in {"idle", "get", "peek", "table", "subscription", "done"}, step[c] # "drop",
         said' \in [Tasks -> BOOLEAN], UNCHANGED <<truth, saved, cache, age, seen, change, floor>>
  PROVE  CacheIndInv'
  <1>1. s \in Parts \cup {"idle", "get", "peek", "table", "save", "set", "drop", "done"}
    BY DEF Parts
  <1>2. CacheTypeOK'
    BY <1>1, CacheMoves DEF CacheIndInv, CacheInv, CacheTypeOK
  <1>3. \A p \in Parts : ~Holding(c, p)'
    BY <1>1, CacheMoves DEF Holding, Parts
  <1> QED
    BY <1>2, <1>3, NothingNew

LEMMA SaidIsAnswer ==
  ASSUME CacheIndInv, NEW c \in Tasks, NEW b \in BOOLEAN, Answers(c, b)
  PROVE  said' \in [Tasks -> BOOLEAN] /\ Becomes(c, "done")
  BY DEF Answers, CacheIndInv, CacheInv, CacheTypeOK

LEMMA GuardsKeep ==
  ASSUME CacheIndInv, NEW c \in Tasks, Guard(c) \/ Recompute(c) \/ Get(c) \/ Peek(c) \/ Table(c)
  PROVE  CacheIndInv'
  <1>1. said \in [Tasks -> BOOLEAN] /\ UNCHANGED <<truth, saved, cache, age, seen, change, floor>>
        /\ step[c] # "drop"
    BY DEF Guard, Recompute, Get, Peek, Table, CacheIndInv, CacheInv, CacheTypeOK
  <1>2. \A s \in Snapshot \cup {Empty} : Granted(s) \in BOOLEAN
    BY DEF Granted
  <1>3. CASE Guard(c) \/ Recompute(c)
    <2>1. /\ \E s \in {"get", "peek", "subscription"} : Becomes(c, s)
          /\ said' = said
      BY <1>3 DEF Guard, Recompute
    <2>2. PICK s \in {"get", "peek", "subscription"} : Becomes(c, s)
      BY <2>1
    <2>3. s \in {"idle", "get", "peek", "table", "subscription", "done"} /\ said' \in [Tasks -> BOOLEAN]
      BY <1>1, <2>1
    <2> QED
      BY <1>1, <2>2, <2>3, MovesOn
  <1>4. CASE Get(c) \/ Peek(c) \/ Table(c)
    <2>1. CASE \E b \in BOOLEAN : Answers(c, b)
      <3>1. said' \in [Tasks -> BOOLEAN] /\ Becomes(c, "done")
        BY <2>1, SaidIsAnswer
      <3> QED
        BY <1>1, <3>1, MovesOn
    <2>2. CASE /\ \E s \in {"subscription", "table"} : Becomes(c, s)
               /\ said' = said
      <3>1. PICK s \in {"subscription", "table"} : Becomes(c, s)
        BY <2>2
      <3>2. s \in {"idle", "get", "peek", "table", "subscription", "done"} /\ said' \in [Tasks -> BOOLEAN]
        BY <1>1, <2>2
      <3> QED
        BY <1>1, <3>1, <3>2, MovesOn
    <2>3. (saved = TRUE) \in BOOLEAN /\ Granted(cache) \in BOOLEAN
      BY DEF Granted
    <2>4. CASE Table(c)
      BY <2>1, <2>3, <2>4 DEF Table
    <2>5. CASE Get(c) \/ Peek(c)
      BY <2>1, <2>2, <2>3, <2>5 DEF Get, Peek
    <2> QED
      BY <1>4, <2>4, <2>5
  <1> QED
    BY <1>3, <1>4

LEMMA ChangeKeeps ==
  ASSUME CacheIndInv, NEW c \in Tasks, NEW p \in Parts, Change(c, p)
  PROVE  CacheIndInv'
  <1> DEFINE s == IF p = "subscription" THEN "subscription" ELSE "drop"
  <1>1. /\ step[c] = "idle" /\ truth[p] < ChangeMax
        /\ truth' = [truth EXCEPT ![p] = @ + 1]
        /\ change' = [change EXCEPT ![c] = <<p, truth[p] + 1>>]
        /\ Becomes(c, s) /\ UNCHANGED <<saved, cache, age, seen, said, floor>>
    BY DEF Change
  <1>2. s \in Parts \cup {"idle", "get", "peek", "table", "save", "set", "drop", "done"}
    BY DEF Parts
  <1>3. step'[c] = s /\ \A d \in Tasks : d # c => step'[d] = step[d]
    BY <1>1, <1>2, CacheMoves
  <1>4. truth[p] \in 0 .. ChangeMax /\ ChangeMax \in Nat /\ truth[p] + 1 \in 1 .. ChangeMax
    BY <1>1, CacheTypes
  <1>5. truth' \in Snapshot /\ \A q \in Parts : truth[q] <= truth'[q]
    <2>1. truth' \in Snapshot
      BY <1>1, <1>4, CacheTypes DEF Snapshot
    <2>2. truth'[p] = truth[p] + 1 /\ \A q \in Parts : q # p => truth'[q] = truth[q]
      BY <1>1, CacheTypes DEF Snapshot
    <2> QED
      BY <2>1, <2>2, <1>4, CacheTypes
  <1>6. CacheTypeOK'
    BY <1>1, <1>2, <1>4, <1>5, CacheMoves DEF CacheIndInv, CacheInv, CacheTypeOK
  <1>7. change'[c] = <<p, truth[p] + 1>> /\ truth'[p] = truth[p] + 1
        /\ \A d \in Tasks : d # c => change'[d] = change[d]
    BY <1>1, CacheTypes DEF CacheIndInv, CacheInv, CacheTypeOK, Snapshot
  <1>8. \A q \in Parts : ~Holding(c, q)'
    BY <1>3 DEF Holding, Parts
  <1>9. QuietChangesShow'
    BY <1>1 DEF CacheIndInv, CacheInv, QuietChangesShow
  <1>10. \A d \in Tasks, q \in Parts : Holding(d, q)' => seen'[d][q] >= floor'[q]
    BY <1>1, <1>2, <1>8, CacheMoves DEF CacheIndInv, ReadingsAreFresh
  <1>11. \A q \in Parts : floor'[q] <= truth'[q]
    BY <1>1, <1>5, CacheTypes DEF CacheIndInv, ReadingsAreFresh
  <1>12. ASSUME NEW d \in Tasks, change'[d] # Empty
         PROVE  /\ change'[d][1] \in Parts /\ change'[d][2] <= truth'[change'[d][1]]
                /\ change'[d][1] = "subscription" \/ step'[d] = "drop"
                /\ Holding(d, change[d][1])' => seen'[d][change'[d][1]] >= change'[d][2]
    <2>1. CASE d = c
      <3>1. change'[d][1] = p /\ change'[d][2] = truth'[p] /\ truth'[p] <= truth'[p]
        BY <2>1, <1>7, <1>4
      <3> QED
        BY <2>1, <3>1, <1>3, <1>8
    <2>2. CASE d # c
      <3>1. change'[d] = change[d] /\ step'[d] = step[d] /\ seen'[d] = seen[d] /\ change[d] # Empty
        BY <2>2, <1>12, <1>7, <1>3, <1>1
      <3>2. change[d][1] \in Parts /\ change[d][2] \in Int
        BY <3>1, CacheTypes
      <3>3. /\ change[d][2] <= truth[change[d][1]]
            /\ change[d][1] = "subscription" \/ step[d] = "drop"
            /\ Holding(d, change[d][1]) => seen[d][change[d][1]] >= change[d][2]
        BY <3>1 DEF CacheIndInv, ReadingsAreFresh
      <3>4. change[d][2] <= truth'[change[d][1]]
        BY <3>2, <3>3, <1>5, CacheTypes
      <3>5. Holding(d, change[d][1])' => Holding(d, change[d][1])
        BY <3>1 DEF Holding
      <3> QED
        BY <3>1, <3>2, <3>3, <3>4, <3>5
    <2> QED
      BY <2>1, <2>2
  <1> QED
    BY <1>6, <1>9, <1>10, <1>11, <1>12 DEF CacheIndInv, CacheInv, ReadingsAreFresh

LEMMA DropKeeps ==
  ASSUME CacheIndInv, NEW c \in Tasks, Drop(c)
  PROVE  CacheIndInv'
  <1> DEFINE s == IF change[c] # Empty /\ change[c][1] = "catalog" THEN "done" ELSE "subscription"
  <1>1. /\ Published(c) /\ Becomes(c, s) /\ s \in {"done", "subscription"}
        /\ cache' = Empty /\ age' = 0 /\ UNCHANGED <<truth, saved, seen, said>>
    BY DEF Drop
  <1>2. said' \in [Tasks -> BOOLEAN]
    BY <1>1 DEF CacheIndInv, CacheInv, CacheTypeOK
  <1> HIDE DEF s
  <1> QED
    BY <1>1, <1>2, PublishingStep

LEMMA SetKeeps ==
  ASSUME CacheIndInv, NEW c \in Tasks, Set(c)
  PROVE  CacheIndInv'
  <1>1. /\ Published(c) /\ cache' = seen[c] /\ age' = 0 /\ step[c] = "set"
        /\ UNCHANGED <<truth, saved, seen>> /\ Answers(c, Granted(seen[c]))
    BY DEF Set
  <1>2. Granted(seen[c]) \in BOOLEAN
    BY DEF Granted
  <1>3. said' \in [Tasks -> BOOLEAN] /\ Becomes(c, "done")
    BY <1>1, <1>2, SaidIsAnswer
  <1> QED
    BY <1>1, <1>3, PublishingStep

LEMMA ReadKeeps ==
  ASSUME CacheIndInv, NEW c \in Tasks, Read(c)
  PROVE  CacheIndInv'
  <1> DEFINE p == step[c]
  <1>1. /\ p \in Parts /\ seen' = [seen EXCEPT ![c][p] = truth[p]] /\ Becomes(c, Reading[p])
        /\ UNCHANGED <<truth, saved, cache, age, said, change, floor>>
    BY DEF Read
  <1>2. /\ Reading[p] \in Parts \cup {"idle", "get", "peek", "table", "save", "set", "drop", "done"}
        /\ Reading[p] \in {"catalog", "status", "override", "save"} /\ Reading[p] # "drop"
    BY <1>1 DEF Reading, Parts
  <1>3. step'[c] = Reading[p] /\ \A d \in Tasks : d # c => step'[d] = step[d]
    BY <1>1, <1>2, CacheMoves
  <1>4. \A q \in Parts : Holding(c, q)' => q = p \/ Holding(c, q)
    BY <1>1, <1>3 DEF Holding, Reading, Parts
  <1>s. seen \in [Tasks -> Snapshot] /\ seen[c] \in Snapshot /\ truth[p] \in 0 .. ChangeMax
    BY <1>1, CacheTypes DEF CacheIndInv, CacheInv, CacheTypeOK
  <1>5. /\ seen'[c][p] = truth[p] /\ \A q \in Parts : q # p => seen'[c][q] = seen[c][q]
        /\ \A d \in Tasks : d # c => seen'[d] = seen[d]
        /\ seen' \in [Tasks -> Snapshot]
    <2> DEFINE new == [seen[c] EXCEPT ![p] = truth[p]]
    <2>1. seen' = [seen EXCEPT ![c] = new]
      BY <1>1
    <2>2. new \in Snapshot /\ new[p] = truth[p] /\ \A q \in Parts : q # p => new[q] = seen[c][q]
      BY <1>1, <1>s DEF Snapshot
    <2> HIDE DEF new
    <2> QED
      BY <2>1, <2>2, <1>s
  <1>6. CacheTypeOK'
    BY <1>1, <1>2, <1>5, CacheMoves DEF CacheIndInv, CacheInv, CacheTypeOK
  <1>7. QuietChangesShow'
    BY <1>1 DEF CacheIndInv, CacheInv, QuietChangesShow
  <1>8. \A q \in Parts : floor[q] <= truth[q] /\ truth[q] \in Int /\ floor[q] \in Int
    BY CacheTypes DEF CacheIndInv, ReadingsAreFresh
  <1> HIDE DEF p
  <1>9. ASSUME NEW d \in Tasks, NEW q \in Parts, Holding(d, q)'
        PROVE  seen'[d][q] >= floor'[q]
    <2>1. CASE d = c /\ q = p
      BY <2>1, <1>5, <1>8, <1>1
    <2>2. CASE ~(d = c /\ q = p)
      <3>1. Holding(d, q) /\ seen'[d][q] = seen[d][q]
        BY <2>2, <1>9, <1>4, <1>5, <1>3 DEF Holding
      <3> QED
        BY <3>1, <1>1 DEF CacheIndInv, ReadingsAreFresh
    <2> QED
      BY <2>1, <2>2
  <1>10. ASSUME NEW d \in Tasks, change'[d] # Empty
         PROVE  /\ change'[d][1] \in Parts /\ change'[d][2] <= truth'[change'[d][1]]
                /\ change'[d][1] = "subscription" \/ step'[d] = "drop"
                /\ Holding(d, change[d][1])' => seen'[d][change'[d][1]] >= change'[d][2]
    <2>1. change'[d] = change[d] /\ truth' = truth /\ change[d][2] \in Int /\ change[d][1] \in Parts
      BY <1>1, <1>10, CacheTypes
    <2>2. /\ change[d][1] \in Parts /\ change[d][2] <= truth[change[d][1]]
          /\ change[d][1] = "subscription" \/ step[d] = "drop"
          /\ Holding(d, change[d][1]) => seen[d][change[d][1]] >= change[d][2]
      BY <1>10, <2>1 DEF CacheIndInv, ReadingsAreFresh
    <2>3. change[d][1] = "subscription" \/ step'[d] = "drop"
      BY <2>2, <1>3, <1>1 DEF Parts, p
    <2>4. ASSUME Holding(d, change[d][1])' PROVE seen'[d][change[d][1]] >= change[d][2]
      <3>1. CASE d = c /\ change[d][1] = p
        BY <3>1, <1>5, <2>2, <2>1, <1>8
      <3>2. CASE ~(d = c /\ change[d][1] = p)
        <4>1. Holding(d, change[d][1])
          BY <3>2, <2>4, <2>1, <1>4, <1>3 DEF Holding
        <4>2. seen'[d][change[d][1]] = seen[d][change[d][1]]
          BY <3>2, <2>1, <1>5
        <4> QED
          BY <4>1, <4>2, <2>2
      <3> QED
        BY <3>1, <3>2
    <2> QED
      BY <2>1, <2>2, <2>3, <2>4
  <1> QED
    BY <1>1, <1>6, <1>7, <1>8, <1>9, <1>10 DEF CacheIndInv, CacheInv, ReadingsAreFresh

LEMMA SaveKeeps ==
  ASSUME CacheIndInv, NEW c \in Tasks, Save(c)
  PROVE  CacheIndInv'
  <1>1. step[c] = "save" /\ Becomes(c, "set") /\ UNCHANGED <<truth, cache, age, seen, said, change, floor>>
    BY DEF Save
  <1>2. saved' \in BOOLEAN \cup {Empty}
    BY DEF Save, Subscribed, CacheIndInv, CacheInv, CacheTypeOK
  <1>3. CacheTypeOK'
    BY <1>1, <1>2, CacheMoves DEF CacheIndInv, CacheInv, CacheTypeOK
  <1>4. \A p \in Parts : Holding(c, p)
    BY <1>1 DEF Holding
  <1> QED
    BY <1>1, <1>3, <1>4, NothingNew

LEMMA ReturnKeeps ==
  ASSUME CacheIndInv, NEW c \in Tasks, Return(c)
  PROVE  CacheIndInv'
  <1>1. step[c] = "done" /\ Becomes(c, "idle") /\ UNCHANGED <<truth, saved, cache, age, change, floor>>
        /\ seen' = [seen EXCEPT ![c] = Unread] /\ said' = [said EXCEPT ![c] = FALSE]
    BY DEF Return
  <1>2. CacheTypeOK'
    BY <1>1, CacheMoves, CacheTypes DEF CacheIndInv, CacheInv, CacheTypeOK
  <1>3. \A p \in Parts : ~Holding(c, p)'
    <2>1. step'[c] = "idle"
      BY <1>1, CacheMoves
    <2> QED
      BY <2>1 DEF Holding, Parts
  <1>4. \A d \in Tasks : d # c => seen'[d] = seen[d] /\ change'[d] = change[d]
    BY <1>1 DEF CacheIndInv, CacheInv, CacheTypeOK
  <1> QED
    BY <1>1, <1>2, <1>3, <1>4, NothingNew

LEMMA FailKeeps ==
  ASSUME CacheIndInv, NEW c \in Tasks, Fail(c)
  PROVE  CacheIndInv'
  <1>1. Becomes(c, "done") /\ UNCHANGED <<truth, saved, cache, age, seen, floor>>
        /\ said' = [said EXCEPT ![c] = FALSE] /\ change' = [change EXCEPT ![c] = Empty]
    BY DEF Fail
  <1>2. CacheTypeOK'
    BY <1>1, CacheMoves DEF CacheIndInv, CacheInv, CacheTypeOK
  <1>3. \A p \in Parts : ~Holding(c, p)'
    <2>1. step'[c] = "done"
      BY <1>1, CacheMoves
    <2> QED
      BY <2>1 DEF Holding, Parts
  <1>4. change'[c] = Empty /\ \A d \in Tasks : d # c => seen'[d] = seen[d] /\ change'[d] = change[d]
    BY <1>1 DEF CacheIndInv, CacheInv, CacheTypeOK
  <1> QED
    BY <1>1, <1>2, <1>3, <1>4, NothingNew

\* A step that moves no call.
LEMMA CallsStay ==
  ASSUME CacheIndInv, CacheTypeOK', UNCHANGED <<truth, step, seen, change, floor>>,
         cache' = cache \/ cache' = Empty
  PROVE  CacheIndInv'
  <1>1. QuietChangesShow'
    BY DEF CacheIndInv, CacheInv, QuietChangesShow
  <1>2. ReadingsAreFresh'
    BY DEF CacheIndInv, ReadingsAreFresh, Holding
  <1> QED
    BY <1>1, <1>2 DEF CacheIndInv, CacheInv

LEMMA AgeKeeps ==
  ASSUME CacheIndInv, AgeEntry
  PROVE  CacheIndInv'
  <1>1. UNCHANGED <<truth, saved, step, seen, said, change, floor>> /\ (cache' = cache \/ cache' = Empty)
    BY DEF AgeEntry
  <1>2. age' \in 0 .. Ttl - 1
    <2>1. age \in 0 .. Ttl - 1 /\ Ttl \in Nat /\ Ttl >= 1
      BY CacheTypes DEF CacheIndInv, CacheInv, CacheTypeOK
    <2> QED
      BY <2>1 DEF AgeEntry
  <1>3. CacheTypeOK'
    BY <1>1, <1>2 DEF CacheIndInv, CacheInv, CacheTypeOK
  <1> QED
    BY <1>1, <1>3, CallsStay

-----------------------------------------------------------------------------
LEMMA CacheInitially == CacheInit => CacheIndInv
  <1> SUFFICES ASSUME CacheInit PROVE CacheIndInv
    OBVIOUS
  <1>1. Unread \in Snapshot /\ 0 \in 0 .. Ttl - 1
    BY CacheAssumption DEF Unread, Snapshot
  <1>2. CacheTypeOK
    BY <1>1 DEF CacheInit, CacheTypeOK
  <1>3. QuietChangesShow
    BY DEF CacheInit, QuietChangesShow
  <1>4. ReadingsAreFresh
    <2>1. \A c \in Tasks, p \in Parts : ~Holding(c, p)
      BY DEF CacheInit, Holding, Parts
    <2>2. \A p \in Parts : floor[p] <= truth[p]
      BY DEF CacheInit, Unread
    <2>3. \A c \in Tasks : change[c] = Empty
      BY DEF CacheInit
    <2> QED
      BY <2>1, <2>2, <2>3 DEF ReadingsAreFresh
  <1> QED
    BY <1>2, <1>3, <1>4 DEF CacheIndInv, CacheInv

LEMMA CacheFollows ==
  ASSUME CacheIndInv, [CacheNext]_cacheVars
  PROVE  CacheIndInv'
  <1>1. CASE UNCHANGED cacheVars
    <2>1. CacheTypeOK'
      BY <1>1 DEF cacheVars, CacheIndInv, CacheInv, CacheTypeOK
    <2> QED
      BY <1>1, <2>1, CallsStay DEF cacheVars
  <1>2. CASE CacheNext
    BY <1>2, AgeKeeps, GuardsKeep, ChangeKeeps, DropKeeps, ReadKeeps, SaveKeeps, SetKeeps, ReturnKeeps,
       FailKeeps
    DEF CacheNext, Runs
  <1> QED
    BY <1>1, <1>2

\* A change that was published while no other call held an older reading is never
\* again hidden by the cache, in any order of the calls' statements and whichever
\* of them fail (admin_tenants.py:123, entitlements_service.py:62-94).
THEOREM PublishedChangesShow == CacheSpec => []CacheInv
  <1>1. CacheIndInv => CacheInv
    BY DEF CacheIndInv
  <1> QED
    BY <1>1, CacheInitially, CacheFollows, PTL DEF CacheSpec

-----------------------------------------------------------------------------
Phases == {"next", "ask", "meter", "refused", "store", "write"}

\* Batches that are about to ask for t, and those that have an answer to store.
ToAsk(t) == {b \in Batches : At(b, "ask") /\ CurrentText(b) = t}
ToStore(t) == {b \in Batches : (At(b, "meter") \/ At(b, "store")) /\ CurrentText(b) = t}

EnrichShapes ==
  /\ EnrichTypeOK /\ overtaken \subseteq Notices
  /\ paid \in [Texts -> Nat] /\ lost \in [Texts -> Nat]

\* An answer that was paid is stored, lost or about to be stored; who has looked the
\* text up before it was stored may pay for it once more.
AnswersAccounted ==
  \A t \in Texts :
    /\ t \notin cached => paid[t] <= lost[t] + Cardinality(ToStore(t))
    /\ paid[t] + Cardinality(ToAsk(t)) <= lost[t] + Cardinality(Batches)

\* What a batch has selected is the notice's text unless the feed has changed it.
SelectedIsOwn ==
  \A b \in Batches : \A s \in selected[b] : s[2] = note[s[1]] \/ s[1] \in overtaken

AnswersAreReadable ==
  \A b \in Batches : At(b, "meter") \/ At(b, "store") => CurrentText(b) \notin Unreadable

\* The inductive invariant of Enrichment.
EnrichIndInv ==
  /\ EnrichShapes /\ AnswersAccounted /\ SelectedIsOwn /\ AnswersAreReadable
  /\ \A n \in Notices : inferred[n] \notin {NoText, note[n]} => n \in overtaken

-----------------------------------------------------------------------------
LEMMA EarliestIsOne ==
  ASSUME NEW S, S \subseteq Nat, S # {}
  PROVE  Earliest(S) \in S
  <1> DEFINE R == OpToRel(<, Nat)
  <1>1. IsWellFoundedOn(R, Nat)
    BY NatLessThanWellFounded
  <1> HIDE DEF R
  <1>2. \E x \in S : \A y \in S : ~ (<<y, x>> \in R)
    BY <1>1, WFMin
  <1>3. \E x \in S : \A y \in S : ~ (y < x)
    BY <1>2 DEF OpToRel, R
  <1>4. \E x \in S : \A y \in S : x <= y
    BY <1>3
  <1> QED
    BY <1>4 DEF Earliest

LEMMA NoticesAreNumbers ==
  /\ Cardinality(Notices) \in Nat /\ Notices = 1 .. Cardinality(Notices) /\ Notices \subseteq Nat
  /\ Cardinality(Batches) \in Nat /\ 0 \notin Notices
  <1>1. Cardinality(Notices) \in Nat /\ Cardinality(Batches) \in Nat
    BY EnrichmentAssumption, FS_CardinalityType
  <1>2. Notices = 1 .. Cardinality(Notices)
    BY EnrichmentAssumption
  <1> QED
    BY <1>1, <1>2

\* Of what a batch has selected, the notice it is at, and its text.
NoticeOf(S) == Earliest({s[1] : s \in S})
TextOf(S) == (CHOOSE s \in S : s[1] = NoticeOf(S))[2]

LEMMA CurrentIs ==
  ASSUME NEW b \in Batches
  PROVE  /\ CurrentNotice(b) = NoticeOf(selected[b]) /\ CurrentText(b) = TextOf(selected[b])
         /\ CurrentNotice(b)' = NoticeOf(selected'[b]) /\ CurrentText(b)' = TextOf(selected'[b])
         /\ Current(b) = <<NoticeOf(selected[b]), TextOf(selected[b])>>
  BY DEF CurrentNotice, CurrentText, Current, NoticeOf, TextOf

LEMMA CurrentIsSelected ==
  ASSUME NEW S \in SUBSET (Notices \X Texts), S # {}
  PROVE  NoticeOf(S) \in Notices /\ TextOf(S) \in Texts /\ <<NoticeOf(S), TextOf(S)>> \in S
  <1> DEFINE N == {s[1] : s \in S}
  <1>1. N \subseteq Notices /\ N # {}
    OBVIOUS
  <1> HIDE DEF N
  <1>2. Earliest(N) \in N
    BY <1>1, EarliestIsOne, NoticesAreNumbers
  <1>3. NoticeOf(S) \in N
    BY <1>2 DEF N, NoticeOf
  <1>4. \E s \in S : s[1] = NoticeOf(S)
    BY <1>3 DEF N
  <1>5. PICK s \in S : s[1] = NoticeOf(S) /\ s[2] = TextOf(S)
    BY <1>4 DEF TextOf
  <1>6. s = <<NoticeOf(S), TextOf(S)>>
    BY <1>5
  <1> QED
    BY <1>5, <1>6

LEMMA EnrichTypes ==
  ASSUME EnrichShapes
  PROVE  /\ number \in [Batches -> 0 .. Cardinality(Notices)]
         /\ selected \in [Batches -> SUBSET (Notices \X Texts)] /\ phase \in [Batches -> Phases]
         /\ note \in [Notices -> Texts] /\ inferred \in [Notices -> Texts \cup {NoText}]
         /\ cached \subseteq Texts \ Unreadable /\ keys \subseteq 1 .. Cardinality(Notices)
         /\ strays \subseteq {b \in Batches : number[b] # 0} /\ overtaken \subseteq Notices
         /\ paid \in [Texts -> Nat] /\ lost \in [Texts -> Nat]
  BY DEF EnrichShapes, EnrichTypeOK, Phases

LEMMA EnrichShapesAre ==
  ASSUME number' \in [Batches -> 0 .. Cardinality(Notices)],
         selected' \in [Batches -> SUBSET (Notices \X Texts)], phase' \in [Batches -> Phases],
         note' \in [Notices -> Texts], inferred' \in [Notices -> Texts \cup {NoText}],
         cached' \subseteq Texts \ Unreadable, keys' \subseteq 1 .. Cardinality(Notices),
         strays' \subseteq {b \in Batches : number'[b] # 0}, overtaken' \subseteq Notices,
         paid' \in [Texts -> Nat], lost' \in [Texts -> Nat]
  PROVE  EnrichShapes'
  BY DEF EnrichShapes, EnrichTypeOK, Phases

\* Only batch b may have moved.
OnlyMoves(b) ==
  \A d \in Batches : d # b =>
    number'[d] = number[d] /\ selected'[d] = selected[d] /\ phase'[d] = phase[d]

LEMMA OthersStay ==
  ASSUME NEW b \in Batches, OnlyMoves(b), NEW d \in Batches, d # b
  PROVE  /\ \A s : At(d, s)' = At(d, s)
         /\ CurrentText(d)' = CurrentText(d) /\ CurrentNotice(d)' = CurrentNotice(d)
         /\ \A t \in Texts : (d \in ToAsk(t)' <=> d \in ToAsk(t)) /\ (d \in ToStore(t)' <=> d \in ToStore(t))
  <1>1. number'[d] = number[d] /\ selected'[d] = selected[d] /\ phase'[d] = phase[d]
    BY DEF OnlyMoves
  <1>2. \A s : At(d, s)' = At(d, s)
    BY <1>1 DEF At
  <1>3. CurrentText(d)' = CurrentText(d) /\ CurrentNotice(d)' = CurrentNotice(d)
    BY <1>1, CurrentIs
  <1>4. ASSUME NEW t \in Texts
        PROVE  (d \in ToAsk(t)' <=> d \in ToAsk(t)) /\ (d \in ToStore(t)' <=> d \in ToStore(t))
    BY <1>2, <1>3 DEF ToAsk, ToStore
  <1> QED
    BY <1>2, <1>3, <1>4

\* Where batch b is counted.
LEMMA CountedWhere ==
  ASSUME NEW b \in Batches, NEW t
  PROVE  /\ b \in ToAsk(t) <=>
              number[b] # 0 /\ selected[b] # {} /\ phase[b] = "ask" /\ TextOf(selected[b]) = t
         /\ b \in ToStore(t) <=>
              number[b] # 0 /\ selected[b] # {} /\ phase[b] \in {"meter", "store"} /\ TextOf(selected[b]) = t
         /\ b \in ToAsk(t)' <=>
              number'[b] # 0 /\ selected'[b] # {} /\ phase'[b] = "ask" /\ TextOf(selected'[b]) = t
         /\ b \in ToStore(t)' <=>
              number'[b] # 0 /\ selected'[b] # {} /\ phase'[b] \in {"meter", "store"} /\ TextOf(selected'[b]) = t
  BY CurrentIs DEF ToAsk, ToStore, At

LEMMA BatchSets ==
  ASSUME NEW S \in SUBSET Batches, NEW T \in SUBSET Batches, S \subseteq T
  PROVE  Cardinality(S) \in Nat /\ Cardinality(T) \in Nat /\ Cardinality(S) <= Cardinality(T)
         /\ IsFiniteSet(S) /\ IsFiniteSet(T) /\ Cardinality(T) <= Cardinality(Batches)
  BY FS_Subset, FS_CardinalityType, EnrichmentAssumption

LEMMA ToAskToStore ==
  ASSUME NEW t
  PROVE  /\ ToAsk(t) \in SUBSET Batches /\ ToStore(t) \in SUBSET Batches
         /\ ToAsk(t)' \in SUBSET Batches /\ ToStore(t)' \in SUBSET Batches
         /\ ToAsk(t) \cap ToStore(t) = {} /\ ToAsk(t)' \cap ToStore(t)' = {}
  BY DEF ToAsk, ToStore, At

\* One batch fewer at least.
LEMMA OneBatchFewer ==
  ASSUME NEW S \in SUBSET Batches, NEW T \in SUBSET Batches, NEW b \in T, S \subseteq T \ {b}
  PROVE  Cardinality(S) + 1 <= Cardinality(T) /\ Cardinality(S) \in Nat /\ Cardinality(T) \in Nat
  <1>1. IsFiniteSet(T) /\ Cardinality(T) \in Nat
    BY BatchSets
  <1>2. Cardinality(T \ {b}) = Cardinality(T) - 1 /\ IsFiniteSet(T \ {b})
    BY <1>1, FS_RemoveElement
  <1>3. Cardinality(S) <= Cardinality(T \ {b}) /\ Cardinality(S) \in Nat
    BY <1>2, BatchSets
  <1> QED
    BY <1>1, <1>2, <1>3

\* A step of one batch that pays for nothing and begins to ask for nothing.
LEMMA AccountStays ==
  ASSUME EnrichIndInv, NEW b \in Batches, OnlyMoves(b), cached \subseteq cached',
         paid' = paid, lost' \in [Texts -> Nat],
         \A t \in Texts : lost[t] <= lost'[t] /\ (b \in ToAsk(t)' => b \in ToAsk(t)),
         \A t \in Texts \ cached' : b \in ToStore(t) => b \in ToStore(t)' \/ lost[t] + 1 <= lost'[t]
  PROVE  AnswersAccounted'
  <1> SUFFICES ASSUME NEW t \in Texts
               PROVE  /\ t \notin cached' => paid[t] <= lost'[t] + Cardinality(ToStore(t)')
                      /\ paid[t] + Cardinality(ToAsk(t)') <= lost'[t] + Cardinality(Batches)
    BY DEF AnswersAccounted
  <1>0. /\ paid[t] \in Nat /\ lost[t] \in Nat /\ lost'[t] \in Nat /\ lost[t] <= lost'[t]
        /\ t \notin cached => paid[t] <= lost[t] + Cardinality(ToStore(t))
        /\ paid[t] + Cardinality(ToAsk(t)) <= lost[t] + Cardinality(Batches)
    BY EnrichTypes DEF EnrichIndInv, AnswersAccounted
  <1>1. ToAsk(t)' \subseteq ToAsk(t)
    <2> SUFFICES ASSUME NEW d \in Batches, d \in ToAsk(t)' PROVE d \in ToAsk(t)
      BY ToAskToStore
    <2> QED
      BY OthersStay
  <1>2. Cardinality(ToAsk(t)') <= Cardinality(ToAsk(t)) /\ Cardinality(ToAsk(t)) \in Nat
        /\ Cardinality(ToAsk(t)') \in Nat
    BY <1>1, BatchSets, ToAskToStore
  <1>3. ASSUME t \notin cached' PROVE paid[t] <= lost'[t] + Cardinality(ToStore(t)')
    <2>1. ToStore(t) \ {b} \subseteq ToStore(t)'
      <3> SUFFICES ASSUME NEW d \in Batches, d \in ToStore(t), d # b PROVE d \in ToStore(t)'
        BY ToAskToStore
      <3> QED
        BY OthersStay
    <2>2. paid[t] <= lost[t] + Cardinality(ToStore(t))
      BY <1>3, <1>0
    <2>3. CASE b \in ToStore(t) => b \in ToStore(t)'
      <3>1. ToStore(t) \subseteq ToStore(t)'
        BY <2>1, <2>3
      <3>2. Cardinality(ToStore(t)) <= Cardinality(ToStore(t)') /\ Cardinality(ToStore(t)) \in Nat
            /\ Cardinality(ToStore(t)') \in Nat
        BY <3>1, BatchSets, ToAskToStore
      <3> QED
        BY <3>2, <2>2, <1>0
    <2>4. CASE b \in ToStore(t) /\ lost[t] + 1 <= lost'[t]
      <3>1. Cardinality(ToStore(t)) <= Cardinality(ToStore(t)') + 1 /\ Cardinality(ToStore(t)) \in Nat
            /\ Cardinality(ToStore(t)') \in Nat
        <4>1. IsFiniteSet(ToStore(t)) /\ IsFiniteSet(ToStore(t)')
          BY BatchSets, ToAskToStore
        <4>2. Cardinality(ToStore(t) \ {b}) = Cardinality(ToStore(t)) - 1
          BY <4>1, <2>4, FS_RemoveElement
        <4>3. Cardinality(ToStore(t) \ {b}) <= Cardinality(ToStore(t)')
          BY <2>1, <4>1, FS_Subset
        <4> QED
          BY <4>1, <4>2, <4>3, FS_CardinalityType
      <3> QED
        BY <3>1, <2>2, <2>4, <1>0
    <2> QED
      BY <2>3, <2>4, <1>3
  <1>4. paid[t] + Cardinality(ToAsk(t)') <= lost'[t] + Cardinality(Batches)
    BY <1>0, <1>2, NoticesAreNumbers
  <1> QED
    BY <1>3, <1>4

\* What a step of one batch keeps, but for the account.
LEMMA OneBatchMoves ==
  ASSUME EnrichIndInv, EnrichShapes', AnswersAccounted', NEW b \in Batches, OnlyMoves(b),
         UNCHANGED <<note, overtaken>>,
         \A s \in selected'[b] : s \in selected[b] \/ s[2] = note[s[1]],
         At(b, "meter")' \/ At(b, "store")' => CurrentText(b)' \notin Unreadable,
         \/ inferred' = inferred
         \/ /\ selected[b] # {}
            /\ inferred' = [inferred EXCEPT ![CurrentNotice(b)] = CurrentText(b)]
  PROVE  EnrichIndInv'
  <1>0. EnrichShapes /\ SelectedIsOwn /\ AnswersAreReadable
    BY DEF EnrichIndInv
  <1>1. SelectedIsOwn'
    <2> SUFFICES ASSUME NEW d \in Batches, NEW s \in selected'[d]
                 PROVE  s[2] = note'[s[1]] \/ s[1] \in overtaken'
      BY DEF SelectedIsOwn
    <2>1. s \in selected[d] \/ s[2] = note[s[1]]
      BY DEF OnlyMoves
    <2> QED
      BY <2>1, <1>0 DEF SelectedIsOwn
  <1>2. AnswersAreReadable'
    <2> SUFFICES ASSUME NEW d \in Batches, At(d, "meter")' \/ At(d, "store")'
                 PROVE  CurrentText(d)' \notin Unreadable
      BY DEF AnswersAreReadable
    <2>1. CASE d = b
      BY <2>1
    <2>2. CASE d # b
      BY <2>2, <1>0, OthersStay DEF AnswersAreReadable
    <2> QED
      BY <2>1, <2>2
  <1>3. ASSUME NEW n \in Notices, inferred'[n] \notin {NoText, note'[n]} PROVE n \in overtaken'
    <2>1. CASE inferred'[n] = inferred[n]
      BY <2>1, <1>3 DEF EnrichIndInv
    <2>2. CASE inferred'[n] # inferred[n]
      <3>1. selected[b] # {} /\ n = CurrentNotice(b) /\ inferred'[n] = CurrentText(b)
        BY <2>2, <1>0, EnrichTypes
      <3>2. selected[b] \in SUBSET (Notices \X Texts)
        BY <1>0, EnrichTypes
      <3>3. <<NoticeOf(selected[b]), TextOf(selected[b])>> \in selected[b]
        BY <3>1, <3>2, CurrentIsSelected
      <3>4. <<n, CurrentText(b)>> \in selected[b]
        BY <3>1, <3>3, CurrentIs
      <3>5. CurrentText(b) = note[n] \/ n \in overtaken
        BY <3>4, <1>0 DEF SelectedIsOwn
      <3> QED
        BY <3>1, <3>5, <1>3
    <2> QED
      BY <2>1, <2>2
  <1> QED
    BY <1>1, <1>2, <1>3 DEF EnrichIndInv

-----------------------------------------------------------------------------
\* What batch b is at.
LEMMA OfABatch ==
  ASSUME EnrichIndInv, NEW b \in Batches
  PROVE  /\ EnrichShapes
         /\ number[b] \in 0 .. Cardinality(Notices) /\ selected[b] \in SUBSET (Notices \X Texts)
         /\ phase[b] \in Phases
         /\ selected[b] # {} =>
              /\ CurrentNotice(b) \in Notices /\ CurrentText(b) \in Texts /\ Current(b) \in selected[b]
         /\ \A s \in Phases : At(b, s) <=> number[b] # 0 /\ selected[b] # {} /\ phase[b] = s
         /\ CurrentText(b) = TextOf(selected[b])
  <1>1. EnrichShapes
    BY DEF EnrichIndInv
  <1>2. number[b] \in 0 .. Cardinality(Notices) /\ selected[b] \in SUBSET (Notices \X Texts)
        /\ phase[b] \in Phases
    BY <1>1, EnrichTypes
  <1>3. selected[b] # {} =>
          /\ CurrentNotice(b) \in Notices /\ CurrentText(b) \in Texts /\ Current(b) \in selected[b]
    BY <1>2, CurrentIs, CurrentIsSelected
  <1> QED
    BY <1>1, <1>2, <1>3, CurrentIs DEF At

\* A batch that goes to another statement of the same notice.
LEMMA GoesToMoves ==
  ASSUME EnrichIndInv, NEW b \in Batches, NEW s \in Phases, GoesTo(b, s), UNCHANGED <<number, selected>>
  PROVE  /\ OnlyMoves(b) /\ phase' \in [Batches -> Phases] /\ phase'[b] = s
         /\ CurrentText(b)' = CurrentText(b)
         /\ \A t : /\ b \in ToAsk(t)' <=> number[b] # 0 /\ selected[b] # {} /\ s = "ask" /\ CurrentText(b) = t
                   /\ b \in ToStore(t)' <=>
                        number[b] # 0 /\ selected[b] # {} /\ s \in {"meter", "store"} /\ CurrentText(b) = t
                   /\ b \in ToAsk(t) <=>
                        number[b] # 0 /\ selected[b] # {} /\ phase[b] = "ask" /\ CurrentText(b) = t
                   /\ b \in ToStore(t) <=>
                        number[b] # 0 /\ selected[b] # {} /\ phase[b] \in {"meter", "store"} /\ CurrentText(b) = t
         /\ \A u \in Phases : At(b, u)' <=> number[b] # 0 /\ selected[b] # {} /\ s = u
  <1>1. phase \in [Batches -> Phases]
    BY EnrichTypes DEF EnrichIndInv
  <1>2. phase' \in [Batches -> Phases] /\ phase'[b] = s /\ \A d \in Batches : d # b => phase'[d] = phase[d]
    BY <1>1 DEF GoesTo
  <1>3. OnlyMoves(b)
    BY <1>2 DEF OnlyMoves
  <1>4. CurrentText(b)' = CurrentText(b) /\ CurrentText(b) = TextOf(selected[b]) /\ selected' = selected
        /\ number' = number
    BY CurrentIs
  <1>5. \A u \in Phases : At(b, u)' <=> number[b] # 0 /\ selected[b] # {} /\ s = u
    BY <1>2 DEF At
  <1> QED
    BY <1>2, <1>3, <1>4, <1>5, CountedWhere

\* A batch that leaves a notice, with its facts or without.
LEMMA DropsMoves ==
  ASSUME EnrichIndInv, NEW b \in Batches, Drops(b), UNCHANGED number
  PROVE  /\ OnlyMoves(b) /\ phase' \in [Batches -> Phases]
         /\ selected' \in [Batches -> SUBSET (Notices \X Texts)] /\ selected'[b] \subseteq selected[b]
         /\ \A t : b \notin ToAsk(t)' /\ b \notin ToStore(t)'
         /\ ~At(b, "meter")' /\ ~At(b, "store")'
  <1>1. /\ phase \in [Batches -> Phases] /\ selected \in [Batches -> SUBSET (Notices \X Texts)]
        /\ "next" \in Phases
    BY EnrichTypes DEF EnrichIndInv, Phases
  <1>2. phase' = [phase EXCEPT ![b] = "next"] /\ selected' = [selected EXCEPT ![b] = @ \ {Current(b)}]
    BY DEF Drops, GoesTo
  <1>3. /\ phase' \in [Batches -> Phases] /\ phase'[b] = "next"
        /\ selected' \in [Batches -> SUBSET (Notices \X Texts)] /\ selected'[b] \subseteq selected[b]
        /\ \A d \in Batches : d # b => phase'[d] = phase[d] /\ selected'[d] = selected[d]
    BY <1>1, <1>2
  <1>4. OnlyMoves(b)
    BY <1>3 DEF OnlyMoves
  <1>5. \A t : b \notin ToAsk(t)' /\ b \notin ToStore(t)'
    BY <1>3, CountedWhere
  <1>6. ~At(b, "meter")' /\ ~At(b, "store")'
    BY <1>3 DEF At
  <1> QED
    BY <1>3, <1>4, <1>5, <1>6

\* A batch that goes on and changes neither a row nor the account, except for the cache.
LEMMA GoesOnFree ==
  ASSUME EnrichIndInv, NEW b \in Batches, NEW s \in Phases, GoesTo(b, s),
         UNCHANGED <<note, inferred, keys, number, selected, strays, account>>,
         cached \subseteq cached', cached' \subseteq Texts \ Unreadable,
         s = "ask" => At(b, "ask"), s \in {"meter", "store"} => CurrentText(b) \notin Unreadable,
         At(b, "meter") \/ At(b, "store") => s \in {"meter", "store"} \/ CurrentText(b) \in cached'
  PROVE  EnrichIndInv'
  <1>1. EnrichShapes /\ paid' = paid /\ lost' = lost /\ overtaken' = overtaken
    BY DEF EnrichIndInv, account
  <1>2. EnrichShapes'
    BY <1>1, EnrichTypes, GoesToMoves, EnrichShapesAre
  <1>3. AnswersAccounted'
    <2>1. lost' \in [Texts -> Nat] /\ \A t \in Texts : lost[t] \in Nat /\ lost[t] <= lost'[t]
      BY <1>1, EnrichTypes
    <2>2. \A t \in Texts : b \in ToAsk(t)' => b \in ToAsk(t)
      BY GoesToMoves DEF At
    <2>3. \A t \in Texts \ cached' : b \in ToStore(t) => b \in ToStore(t)'
      BY GoesToMoves DEF At
    <2> QED
      BY <1>1, <2>1, <2>2, <2>3, GoesToMoves, AccountStays
  <1>4. At(b, "meter")' \/ At(b, "store")' => CurrentText(b)' \notin Unreadable
    BY GoesToMoves DEF Phases
  <1>5. OnlyMoves(b) /\ \A r \in selected'[b] : r \in selected[b]
    BY GoesToMoves
  <1> QED
    BY <1>1, <1>2, <1>3, <1>4, <1>5, OneBatchMoves

\* A batch that leaves a notice.
LEMMA DropsFree ==
  ASSUME EnrichIndInv, NEW b \in Batches, Drops(b), selected[b] # {}, number[b] # 0,
         UNCHANGED <<note, cached, keys, number, strays, paid, overtaken>>,
         lost' \in [Texts -> Nat], \A t \in Texts : lost[t] <= lost'[t],
         At(b, "meter") \/ At(b, "store") => lost[CurrentText(b)] + 1 <= lost'[CurrentText(b)],
         \/ inferred' = inferred
         \/ inferred' = [inferred EXCEPT ![CurrentNotice(b)] = CurrentText(b)]
  PROVE  EnrichIndInv'
  <1>1. EnrichShapes /\ CurrentNotice(b) \in Notices /\ CurrentText(b) \in Texts
    BY OfABatch
  <1>2. inferred' \in [Notices -> Texts \cup {NoText}]
    BY <1>1, EnrichTypes
  <1>3. EnrichShapes'
    BY <1>1, <1>2, EnrichTypes, DropsMoves, EnrichShapesAre
  <1>4. AnswersAccounted'
    <2>1. \A t \in Texts : b \in ToStore(t) => lost[t] + 1 <= lost'[t]
      BY DEF ToStore
    <2>2. OnlyMoves(b) /\ \A t \in Texts : b \notin ToAsk(t)'
      BY DropsMoves
    <2> QED
      BY <2>1, <2>2, AccountStays
  <1>5. /\ OnlyMoves(b) /\ \A r \in selected'[b] : r \in selected[b]
        /\ ~At(b, "meter")' /\ ~At(b, "store")'
    BY DropsMoves
  <1> QED
    BY <1>3, <1>4, <1>5, OneBatchMoves

-----------------------------------------------------------------------------
LEMMA LookUpKeeps ==
  ASSUME EnrichIndInv, NEW b \in Batches, LookUp(b)
  PROVE  EnrichIndInv'
  <1>1. /\ EnrichShapes /\ number[b] # 0 /\ selected[b] # {} /\ phase[b] = "next"
        /\ UNCHANGED <<note, inferred, cached, keys, number, selected, strays, account>>
        /\ CurrentText(b) \in Texts
    BY OfABatch DEF LookUp, At, rowVars
  <1>2. ~At(b, "meter") /\ ~At(b, "store") /\ cached \subseteq Texts \ Unreadable
    BY <1>1, EnrichTypes DEF At
  <1>3. CASE CurrentText(b) \in cached
    <2>1. GoesTo(b, "write") /\ "write" \in Phases
      BY <1>3 DEF LookUp, Phases
    <2> QED
      BY <1>1, <1>2, <2>1, GoesOnFree
  <1>4. CASE CurrentText(b) \notin cached
    <2>1. GoesTo(b, "ask") /\ "ask" \in Phases
      BY <1>4 DEF LookUp, Phases
    <2>2. paid' = paid /\ lost' = lost /\ overtaken' = overtaken
      BY <1>1 DEF account
    <2>3. EnrichShapes'
      BY <1>1, <2>1, <2>2, EnrichTypes, GoesToMoves, EnrichShapesAre
    <2>4. ASSUME NEW t \in Texts
          PROVE  /\ ToStore(t)' = ToStore(t)
                 /\ t = CurrentText(b) => ToAsk(t)' \subseteq ToAsk(t) \cup {b} /\ b \notin ToStore(t)
                 /\ t # CurrentText(b) => ToAsk(t)' \subseteq ToAsk(t)
      <3>1. b \notin ToStore(t) /\ b \notin ToStore(t)' /\ (b \in ToAsk(t)' => t = CurrentText(b))
        BY <1>1, <2>1, GoesToMoves
      <3>2. \A d \in Batches : d # b => (d \in ToAsk(t)' <=> d \in ToAsk(t)) /\ (d \in ToStore(t)' <=> d \in ToStore(t))
        BY <1>1, <2>1, GoesToMoves, OthersStay
      <3> QED
        BY <3>1, <3>2, ToAskToStore
    <2>5. AnswersAccounted'
      <3> SUFFICES ASSUME NEW t \in Texts
                   PROVE  /\ t \notin cached => paid[t] <= lost[t] + Cardinality(ToStore(t)')
                          /\ paid[t] + Cardinality(ToAsk(t)') <= lost[t] + Cardinality(Batches)
        BY <1>1, <2>2 DEF AnswersAccounted
      <3>1. /\ paid[t] \in Nat /\ lost[t] \in Nat
            /\ t \notin cached => paid[t] <= lost[t] + Cardinality(ToStore(t))
            /\ paid[t] + Cardinality(ToAsk(t)) <= lost[t] + Cardinality(Batches)
        BY <1>1, EnrichTypes DEF EnrichIndInv, AnswersAccounted
      <3>2. CASE t # CurrentText(b)
        <4>1. Cardinality(ToAsk(t)') <= Cardinality(ToAsk(t)) /\ Cardinality(ToAsk(t)) \in Nat
              /\ Cardinality(ToAsk(t)') \in Nat
          BY <2>4, <3>2, ToAskToStore, BatchSets
        <4> QED
          BY <4>1, <3>1, <2>4, NoticesAreNumbers
      <3>3. CASE t = CurrentText(b)
        <4>1. ToAsk(t)' \subseteq Batches \ ToStore(t)
          BY <2>4, ToAskToStore
        <4>2. Cardinality(Batches \ ToStore(t)) = Cardinality(Batches) - Cardinality(ToStore(t))
              /\ Cardinality(ToStore(t)) \in Nat
          <5>1. ToStore(t) \subseteq Batches /\ IsFiniteSet(Batches)
            BY ToAskToStore, EnrichmentAssumption
          <5>2. Batches \cap ToStore(t) = ToStore(t)
            BY <5>1
          <5>3. Cardinality(Batches \ ToStore(t)) = Cardinality(Batches) - Cardinality(Batches \cap ToStore(t))
            BY <5>1, FS_Difference
          <5> QED
            BY <5>1, <5>2, <5>3, FS_Subset, FS_CardinalityType
        <4>3. Cardinality(ToAsk(t)') <= Cardinality(Batches \ ToStore(t)) /\ Cardinality(ToAsk(t)') \in Nat
          BY <4>1, BatchSets, ToAskToStore
        <4>4. paid[t] <= lost[t] + Cardinality(ToStore(t))
          BY <3>1, <3>3, <1>4
        <4>5. paid[t] + Cardinality(ToAsk(t)') <= lost[t] + Cardinality(Batches)
          BY <4>2, <4>3, <4>4, <3>1, NoticesAreNumbers
        <4> QED
          BY <4>4, <4>5, <2>4
      <3> QED
        BY <3>2, <3>3
    <2>6. ~At(b, "meter")' /\ ~At(b, "store")'
      BY <1>1, <2>1, GoesToMoves DEF Phases
    <2>7. OnlyMoves(b) /\ \A r \in selected'[b] : r \in selected[b]
      BY <1>1, <2>1, GoesToMoves
    <2> QED
      BY <1>1, <2>2, <2>3, <2>5, <2>6, <2>7, OneBatchMoves
  <1> QED
    BY <1>3, <1>4

LEMMA AskKeeps ==
  ASSUME EnrichIndInv, NEW b \in Batches, Ask(b)
  PROVE  EnrichIndInv'
  <1>1. /\ EnrichShapes /\ number[b] # 0 /\ selected[b] # {} /\ phase[b] = "ask"
        /\ UNCHANGED <<note, inferred, cached, keys, number, selected, strays, lost, overtaken>>
        /\ CurrentText(b) \in Texts
    BY OfABatch DEF Ask, At, rowVars
  <1>2. ~At(b, "meter") /\ ~At(b, "store") /\ cached \subseteq Texts \ Unreadable
    BY <1>1, EnrichTypes DEF At
  <1>3. CASE CurrentText(b) \in Unreadable
    <2>1. GoesTo(b, "refused") /\ "refused" \in Phases /\ UNCHANGED account
      BY <1>1, <1>3 DEF Ask, Phases, account
    <2> QED
      BY <1>1, <1>2, <2>1, GoesOnFree
  <1>4. CASE CurrentText(b) \notin Unreadable
    <2>u. PICK u \in Texts : u = CurrentText(b)
      BY <1>1
    <2>1. GoesTo(b, "meter") /\ "meter" \in Phases /\ paid' = [paid EXCEPT ![u] = @ + 1]
      BY <1>4, <2>u DEF Ask, Phases
    <2>2. paid' \in [Texts -> Nat] /\ paid'[u] = paid[u] + 1 /\ \A t \in Texts : t # u => paid'[t] = paid[t]
      BY <1>1, <2>1, <2>u, EnrichTypes
    <2>3. EnrichShapes'
      BY <1>1, <2>1, <2>2, EnrichTypes, GoesToMoves, EnrichShapesAre
    <2>4. /\ b \in ToAsk(u) /\ b \notin ToAsk(u)' /\ b \in ToStore(u)' /\ b \notin ToStore(u)
          /\ \A t \in Texts : t # u => b \notin ToAsk(t) /\ b \notin ToAsk(t)' /\ b \notin ToStore(t) /\ b \notin ToStore(t)'
      <3>1. \A t : /\ b \notin ToAsk(t)' /\ (b \in ToStore(t)' <=> CurrentText(b) = t)
                  /\ (b \in ToAsk(t) <=> CurrentText(b) = t) /\ b \notin ToStore(t)
        BY <1>1, <2>1, GoesToMoves
      <3> QED
        BY <3>1, <2>u
    <2>5. \A t \in Texts, d \in Batches : d # b => (d \in ToAsk(t)' <=> d \in ToAsk(t)) /\ (d \in ToStore(t)' <=> d \in ToStore(t))
      BY <1>1, <2>1, GoesToMoves, OthersStay
    <2>6. AnswersAccounted'
      <3> SUFFICES ASSUME NEW t \in Texts
                   PROVE  /\ t \notin cached => paid'[t] <= lost[t] + Cardinality(ToStore(t)')
                          /\ paid'[t] + Cardinality(ToAsk(t)') <= lost[t] + Cardinality(Batches)
        BY <1>1 DEF AnswersAccounted
      <3>1. /\ paid[t] \in Nat /\ lost[t] \in Nat
            /\ t \notin cached => paid[t] <= lost[t] + Cardinality(ToStore(t))
            /\ paid[t] + Cardinality(ToAsk(t)) <= lost[t] + Cardinality(Batches)
        BY <1>1, EnrichTypes DEF EnrichIndInv, AnswersAccounted
      <3>s. /\ ToAsk(t) \subseteq Batches /\ ToStore(t) \subseteq Batches
            /\ ToAsk(t)' \subseteq Batches /\ ToStore(t)' \subseteq Batches
        BY ToAskToStore
      <3>d. \A d \in Batches : d # b => (d \in ToAsk(t)' <=> d \in ToAsk(t)) /\ (d \in ToStore(t)' <=> d \in ToStore(t))
        BY <2>5
      <3>2. CASE t # u
        <4>0. b \notin ToAsk(t) /\ b \notin ToAsk(t)' /\ b \notin ToStore(t) /\ b \notin ToStore(t)'
          BY <3>2, <2>4
        <4>1. ToAsk(t)' = ToAsk(t) /\ ToStore(t)' = ToStore(t)
          BY <4>0, <3>s, <3>d
        <4> QED
          BY <4>1, <3>1, <3>2, <2>2
      <3>3. CASE t = u
        <4>0. b \in ToAsk(t) /\ b \notin ToAsk(t)' /\ b \in ToStore(t)' /\ b \notin ToStore(t)
          BY <3>3, <2>4
        <4>1. ToAsk(t)' \subseteq ToAsk(t) \ {b}
          BY <4>0, <3>s, <3>d
        <4>2. ToStore(t) \subseteq ToStore(t)' \ {b}
          BY <4>0, <3>s, <3>d
        <4>3. Cardinality(ToAsk(t)') + 1 <= Cardinality(ToAsk(t)) /\ Cardinality(ToAsk(t)) \in Nat
              /\ Cardinality(ToAsk(t)') \in Nat
          BY <4>0, <4>1, <3>s, OneBatchFewer
        <4>4. Cardinality(ToStore(t)) + 1 <= Cardinality(ToStore(t)') /\ Cardinality(ToStore(t)) \in Nat
              /\ Cardinality(ToStore(t)') \in Nat
          <5>1. ToStore(t) \in SUBSET Batches /\ ToStore(t)' \in SUBSET Batches /\ b \in ToStore(t)'
            BY <4>0, <3>s
          <5>2. PICK S \in SUBSET Batches : S = ToStore(t)
            BY <5>1
          <5>3. PICK T \in SUBSET Batches : T = ToStore(t)'
            BY <5>1
          <5>4. b \in T /\ S \subseteq T \ {b}
            BY <5>1, <5>2, <5>3, <4>2
          <5>5. Cardinality(S) + 1 <= Cardinality(T) /\ Cardinality(S) \in Nat /\ Cardinality(T) \in Nat
            BY <5>4, OneBatchFewer
          <5> QED
            BY <5>2, <5>3, <5>5
        <4>5. paid'[t] = paid[t] + 1 /\ Cardinality(Batches) \in Nat
          BY <3>3, <2>2, NoticesAreNumbers
        <4> QED
          BY <4>3, <4>4, <4>5, <3>1
      <3> QED
        BY <3>2, <3>3
    <2>7. CurrentText(b)' \notin Unreadable
      BY <1>1, <1>4, <2>1, GoesToMoves
    <2>8. OnlyMoves(b) /\ \A r \in selected'[b] : r \in selected[b]
      BY <1>1, <2>1, GoesToMoves
    <2> QED
      BY <1>1, <2>3, <2>6, <2>7, <2>8, OneBatchMoves
  <1> QED
    BY <1>3, <1>4

LEMMA MeterKeeps ==
  ASSUME EnrichIndInv, NEW b \in Batches, Meter(b) \/ Store(b)
  PROVE  EnrichIndInv'
  <1>1. /\ EnrichShapes /\ number[b] # 0 /\ selected[b] # {}
        /\ UNCHANGED <<note, inferred, keys, number, selected, strays, account>>
        /\ CurrentText(b) \in Texts
    BY OfABatch DEF Meter, Store, At, rowVars
  <1>2. cached \subseteq Texts \ Unreadable /\ CurrentText(b) \notin Unreadable
    BY <1>1, EnrichTypes DEF Meter, Store, EnrichIndInv, AnswersAreReadable
  <1>3. CASE Meter(b)
    <2>1. GoesTo(b, "store") /\ "store" \in Phases /\ cached' = cached
      BY <1>3 DEF Meter, Phases, rowVars
    <2> QED
      BY <1>1, <1>2, <2>1, GoesOnFree
  <1>4. CASE Store(b)
    <2>1. /\ GoesTo(b, "write") /\ "write" \in Phases /\ cached' = cached \cup {CurrentText(b)}
      BY <1>4 DEF Store, Phases
    <2>2. /\ CurrentText(b) \in cached' /\ cached \subseteq cached' /\ cached' \subseteq Texts \ Unreadable
      BY <1>1, <1>2, <2>1
    <2> QED
      BY <1>1, <1>2, <2>1, <2>2, GoesOnFree
  <1> QED
    BY <1>3, <1>4

LEMMA LeavesKeep ==
  ASSUME EnrichIndInv, NEW b \in Batches, MeterFailure(b) \/ WriteFacts(b) \/ RowFails(b)
  PROVE  EnrichIndInv'
  <1>1. /\ EnrichShapes /\ number[b] # 0 /\ selected[b] # {} /\ Drops(b)
        /\ UNCHANGED <<note, cached, keys, number, strays, paid, overtaken>>
        /\ CurrentText(b) \in Texts
    BY OfABatch DEF MeterFailure, WriteFacts, RowFails, At, rowVars, account
  <1>2. lost \in [Texts -> Nat]
    BY <1>1, EnrichTypes
  <1>3. CASE MeterFailure(b) \/ WriteFacts(b)
    <2>1. /\ lost' = lost /\ ~At(b, "meter") /\ ~At(b, "store")
          /\ \/ inferred' = inferred
             \/ inferred' = [inferred EXCEPT ![CurrentNotice(b)] = CurrentText(b)]
      BY <1>3 DEF MeterFailure, WriteFacts, At, rowVars, account
    <2>2. lost' \in [Texts -> Nat] /\ \A t \in Texts : lost[t] <= lost'[t]
      BY <1>2, <2>1
    <2> QED
      BY <1>1, <2>1, <2>2, DropsFree
  <1>4. CASE RowFails(b)
    <2>1. inferred' = inferred /\ Loses(b)
      BY <1>4 DEF RowFails, rowVars
    <2>2. /\ lost' \in [Texts -> Nat] /\ \A t \in Texts : lost[t] <= lost'[t]
          /\ At(b, "meter") \/ At(b, "store") => lost[CurrentText(b)] + 1 <= lost'[CurrentText(b)]
      <3> DEFINE u == CurrentText(b)
      <3>1. lost' = lost \/ lost' = [lost EXCEPT ![u] = @ + 1]
        BY <2>1 DEF Loses
      <3>2. At(b, "meter") \/ At(b, "store") => lost' = [lost EXCEPT ![u] = @ + 1]
        BY <2>1 DEF Loses
      <3>3. u \in Texts
        BY <1>1
      <3> HIDE DEF u
      <3>4. /\ lost' \in [Texts -> Nat] /\ \A t \in Texts : lost[t] <= lost'[t]
            /\ At(b, "meter") \/ At(b, "store") => lost[u] + 1 <= lost'[u]
        BY <1>2, <3>1, <3>2, <3>3
      <3> QED
        BY <3>4 DEF u
    <2> QED
      BY <1>1, <2>1, <2>2, DropsFree
  <1> QED
    BY <1>3, <1>4

\* A step that changes whether a batch runs, or which job.
LEMMA RunsOrNot ==
  ASSUME EnrichIndInv, EnrichShapes', NEW b \in Batches, OnlyMoves(b),
         UNCHANGED <<note, inferred, cached, paid, overtaken>>,
         lost' \in [Texts -> Nat], \A t \in Texts : lost[t] <= lost'[t],
         \A s \in selected'[b] : s \in selected[b] \/ s[2] = note[s[1]],
         \/ /\ selected'[b] = {} \/ number'[b] = 0 \/ phase'[b] = "next"
            /\ At(b, "meter") \/ At(b, "store") => lost[CurrentText(b)] + 1 <= lost'[CurrentText(b)]
         \/ UNCHANGED <<number, selected, phase>>
  PROVE  EnrichIndInv'
  <1>1. CASE UNCHANGED <<number, selected, phase>>
    <2>1. \A t \in Texts : (b \in ToAsk(t)' <=> b \in ToAsk(t)) /\ (b \in ToStore(t)' <=> b \in ToStore(t))
      BY <1>1, CountedWhere
    <2>2. AnswersAccounted'
      BY <2>1, AccountStays
    <2>3. At(b, "meter")' \/ At(b, "store")' => CurrentText(b)' \notin Unreadable
      <3>1. CurrentText(b)' = CurrentText(b)
        BY <1>1, CurrentIs
      <3> QED
        BY <1>1, <3>1 DEF At, EnrichIndInv, AnswersAreReadable
    <2> QED
      BY <2>2, <2>3, OneBatchMoves
  <1>2. CASE /\ selected'[b] = {} \/ number'[b] = 0 \/ phase'[b] = "next"
             /\ At(b, "meter") \/ At(b, "store") => lost[CurrentText(b)] + 1 <= lost'[CurrentText(b)]
    <2>1. \A t \in Texts : b \notin ToAsk(t)' /\ b \notin ToStore(t)'
      BY <1>2, CountedWhere
    <2>2. \A t \in Texts : b \in ToStore(t) => lost[t] + 1 <= lost'[t]
      BY <1>2 DEF ToStore
    <2>3. AnswersAccounted'
      BY <2>1, <2>2, AccountStays
    <2>4. ~At(b, "meter")' /\ ~At(b, "store")'
      BY <1>2 DEF At
    <2> QED
      BY <2>3, <2>4, OneBatchMoves
  <1> QED
    BY <1>1, <1>2

LEMMA SelectKeeps ==
  ASSUME EnrichIndInv, NEW b \in Batches, Select(b)
  PROVE  EnrichIndInv'
  <1> DEFINE S == {<<n, note[n]>> : n \in First(Pending)}
             k == Earliest(keys)
  <1>1. /\ number[b] = 0 /\ keys # {} /\ number' = [number EXCEPT ![b] = k] /\ keys' = keys \ {k}
        /\ selected' = [selected EXCEPT ![b] = S] /\ phase' = [phase EXCEPT ![b] = "next"]
        /\ UNCHANGED <<note, inferred, cached, strays, paid, lost, overtaken>>
    BY DEF Select, rowVars, account
  <1>2. EnrichShapes
    BY DEF EnrichIndInv
  <1>3. k \in keys /\ k \in 1 .. Cardinality(Notices)
    <2>1. keys \subseteq 1 .. Cardinality(Notices)
      BY <1>2, EnrichTypes
    <2>2. keys \subseteq Nat
      BY <2>1, NoticesAreNumbers
    <2>3. Earliest(keys) \in keys
      BY <1>1, <2>2, EarliestIsOne
    <2> QED
      BY <2>1, <2>3
  <1>4. First(Pending) \subseteq Notices
    BY DEF First, Pending
  <1>5. S \subseteq Notices \X Texts /\ \A s \in S : s[2] = note[s[1]]
    BY <1>2, <1>4, EnrichTypes
  <1> HIDE DEF S, k
  <1>6. /\ number'[b] = k /\ selected'[b] = S /\ phase'[b] = "next" /\ OnlyMoves(b)
    BY <1>1, <1>2, EnrichTypes DEF OnlyMoves
  <1>7. EnrichShapes'
    <2>1. k \in 0 .. Cardinality(Notices) /\ k # 0 /\ "next" \in Phases
      BY <1>3, NoticesAreNumbers DEF Phases
    <2>2. /\ number' \in [Batches -> 0 .. Cardinality(Notices)] /\ phase' \in [Batches -> Phases]
          /\ selected' \in [Batches -> SUBSET (Notices \X Texts)] /\ keys' \subseteq 1 .. Cardinality(Notices)
      BY <1>1, <1>2, <1>5, <2>1, EnrichTypes
    <2>3. strays' \subseteq {d \in Batches : number'[d] # 0}
      BY <1>1, <1>2, <2>1, EnrichTypes
    <2> QED
      BY <1>1, <1>2, <2>2, <2>3, EnrichTypes, EnrichShapesAre
  <1>8. lost' \in [Texts -> Nat] /\ \A t \in Texts : lost[t] <= lost'[t]
    BY <1>1, <1>2, EnrichTypes
  <1>9. ~At(b, "meter") /\ ~At(b, "store")
    BY <1>1 DEF At
  <1> QED
    BY <1>1, <1>5, <1>6, <1>7, <1>8, <1>9, RunsOrNot

LEMMA EndBatchKeeps ==
  ASSUME EnrichIndInv, NEW b \in Batches, EndBatch(b)
  PROVE  EnrichIndInv'
  <1>1. /\ selected[b] = {} /\ number' = [number EXCEPT ![b] = 0] /\ strays' = strays \ {b}
        /\ UNCHANGED <<note, inferred, cached, keys, selected, phase, paid, lost, overtaken>>
    BY DEF EndBatch, rowVars, account
  <1>2. EnrichShapes /\ 0 \in 0 .. Cardinality(Notices)
    BY NoticesAreNumbers DEF EnrichIndInv
  <1>3. number'[b] = 0 /\ number' \in [Batches -> 0 .. Cardinality(Notices)] /\ OnlyMoves(b)
        /\ strays' \subseteq {d \in Batches : number'[d] # 0}
    BY <1>1, <1>2, EnrichTypes DEF OnlyMoves
  <1>4. EnrichShapes'
    BY <1>1, <1>2, <1>3, EnrichTypes, EnrichShapesAre
  <1>5. lost' \in [Texts -> Nat] /\ (\A t \in Texts : lost[t] <= lost'[t])
    BY <1>1, <1>2, EnrichTypes
  <1>6. ~At(b, "meter") /\ ~At(b, "store")
    BY <1>1 DEF At
  <1> QED
    BY <1>1, <1>3, <1>4, <1>5, <1>6, RunsOrNot

LEMMA LeaseLostKeeps ==
  ASSUME EnrichIndInv, NEW b \in Batches, LeaseLost(b)
  PROVE  EnrichIndInv'
  <1>1. /\ number[b] # 0 /\ keys' = keys \cup {number[b]} /\ strays' = strays \cup {b}
        /\ UNCHANGED <<note, inferred, cached, number, selected, phase, paid, lost, overtaken>>
    BY DEF LeaseLost, rowVars, account
  <1>2. EnrichShapes
    BY DEF EnrichIndInv
  <1>3. number[b] \in 1 .. Cardinality(Notices)
    BY <1>1, <1>2, EnrichTypes, NoticesAreNumbers
  <1>4. EnrichShapes'
    BY <1>1, <1>2, <1>3, EnrichTypes, EnrichShapesAre
  <1>5. lost' \in [Texts -> Nat] /\ (\A t \in Texts : lost[t] <= lost'[t]) /\ OnlyMoves(b)
    BY <1>1, <1>2, EnrichTypes DEF OnlyMoves
  <1> QED
    BY <1>1, <1>4, <1>5, RunsOrNot

LEMMA BatchDiesKeeps ==
  ASSUME EnrichIndInv, NEW b \in Batches, BatchDies(b)
  PROVE  EnrichIndInv'
  <1>1. /\ number[b] # 0 /\ (keys' = keys \/ keys' = keys \cup {number[b]})
        /\ number' = [number EXCEPT ![b] = 0] /\ strays' = strays \ {b}
        /\ selected' = [selected EXCEPT ![b] = {}] /\ Loses(b)
        /\ UNCHANGED <<note, inferred, cached, phase, paid, overtaken>>
    BY DEF BatchDies, rowVars
  <1>2. EnrichShapes /\ 0 \in 0 .. Cardinality(Notices)
    BY NoticesAreNumbers DEF EnrichIndInv
  <1>3. number[b] \in 1 .. Cardinality(Notices)
    BY <1>1, <1>2, EnrichTypes, NoticesAreNumbers
  <1>4. /\ lost' \in [Texts -> Nat] /\ \A t \in Texts : lost[t] <= lost'[t]
        /\ At(b, "meter") \/ At(b, "store") => lost[CurrentText(b)] + 1 <= lost'[CurrentText(b)]
    <2>1. CASE ~(At(b, "meter") \/ At(b, "store"))
      <3>1. lost' = lost
        BY <1>1, <2>1 DEF Loses
      <3> QED
        BY <3>1, <2>1, <1>2, EnrichTypes
    <2>2. CASE At(b, "meter") \/ At(b, "store")
      <3> DEFINE u == CurrentText(b)
      <3>1. lost' = [lost EXCEPT ![u] = @ + 1] /\ u \in Texts
        BY <1>1, <2>2, OfABatch DEF Loses, At
      <3> HIDE DEF u
      <3>2. lost' \in [Texts -> Nat] /\ (\A t \in Texts : lost[t] <= lost'[t]) /\ lost[u] + 1 <= lost'[u]
        BY <3>1, <1>2, EnrichTypes
      <3> QED
        BY <3>2 DEF u
    <2> QED
      BY <2>1, <2>2
  <1>5. /\ number'[b] = 0 /\ number' \in [Batches -> 0 .. Cardinality(Notices)]
        /\ selected'[b] = {} /\ selected' \in [Batches -> SUBSET (Notices \X Texts)]
        /\ OnlyMoves(b) /\ strays' \subseteq {d \in Batches : number'[d] # 0}
        /\ keys' \subseteq 1 .. Cardinality(Notices)
    BY <1>1, <1>2, <1>3, EnrichTypes DEF OnlyMoves
  <1>6. EnrichShapes'
    BY <1>1, <1>2, <1>4, <1>5, EnrichTypes, EnrichShapesAre
  <1> QED
    BY <1>1, <1>4, <1>5, <1>6, RunsOrNot

-----------------------------------------------------------------------------
\* A step that moves no batch and changes no answer.
LEMMA BatchesStay ==
  ASSUME EnrichIndInv, EnrichShapes', UNCHANGED <<number, selected, phase, inferred, cached, paid, lost>>,
         \A n \in Notices : \/ note'[n] = note[n] /\ (n \in overtaken => n \in overtaken')
                            \/ n \in overtaken'
                            \/ inferred[n] = NoText /\ \A b \in Batches : \A s \in selected[b] : s[1] # n
  PROVE  EnrichIndInv'
  <1>1. AnswersAccounted'
    <2>1. ASSUME NEW t \in Texts PROVE ToAsk(t)' = ToAsk(t) /\ ToStore(t)' = ToStore(t)
      <3>1. \A b \in Batches : (b \in ToAsk(t)' <=> b \in ToAsk(t)) /\ (b \in ToStore(t)' <=> b \in ToStore(t))
        BY CountedWhere
      <3>2. /\ ToAsk(t) \subseteq Batches /\ ToStore(t) \subseteq Batches
            /\ ToAsk(t)' \subseteq Batches /\ ToStore(t)' \subseteq Batches
        BY ToAskToStore
      <3> QED
        BY <3>1, <3>2
    <2> QED
      BY <2>1 DEF EnrichIndInv, AnswersAccounted
  <1>2. AnswersAreReadable'
    <2>1. \A b \in Batches : CurrentText(b)' = CurrentText(b)
      BY CurrentIs
    <2>2. \A b \in Batches : (At(b, "meter")' <=> At(b, "meter")) /\ (At(b, "store")' <=> At(b, "store"))
      BY DEF At
    <2> QED
      BY <2>1, <2>2 DEF EnrichIndInv, AnswersAreReadable
  <1>3. SelectedIsOwn'
    <2> SUFFICES ASSUME NEW b \in Batches, NEW s \in selected[b]
                 PROVE  s[2] = note'[s[1]] \/ s[1] \in overtaken'
      BY DEF SelectedIsOwn
    <2>1. s[1] \in Notices
      BY EnrichTypes DEF EnrichIndInv
    <2>2. s[2] = note[s[1]] \/ s[1] \in overtaken
      BY DEF EnrichIndInv, SelectedIsOwn
    <2> QED
      BY <2>1, <2>2
  <1>4. ASSUME NEW n \in Notices, inferred'[n] \notin {NoText, note'[n]} PROVE n \in overtaken'
    BY <1>4 DEF EnrichIndInv
  <1> QED
    BY <1>1, <1>2, <1>3, <1>4 DEF EnrichIndInv

LEMMA FeedKeeps ==
  ASSUME EnrichIndInv, NEW n \in Notices, NEW t \in Texts, FeedChanges(n, t)
  PROVE  EnrichIndInv'
  <1>1. /\ note' = [note EXCEPT ![n] = t] /\ UNCHANGED <<inferred, cached, batchVars, paid, lost>>
        /\ overtaken' = IF inferred[n] # NoText \/ \E b \in Batches : \E s \in selected[b] : s[1] = n
                        THEN overtaken \cup {n} ELSE overtaken
    BY DEF FeedChanges
  <1>2. EnrichShapes /\ UNCHANGED <<number, selected, phase, keys, strays>>
    BY <1>1 DEF EnrichIndInv, batchVars
  <1>3. note' \in [Notices -> Texts] /\ \A m \in Notices : m # n => note'[m] = note[m]
    BY <1>1, <1>2, EnrichTypes
  <1>4. overtaken' \subseteq Notices /\ overtaken \subseteq overtaken'
    BY <1>1, <1>2, EnrichTypes
  <1>5. EnrichShapes'
    BY <1>1, <1>2, <1>3, <1>4, EnrichTypes, EnrichShapesAre
  <1>6. \A m \in Notices : \/ note'[m] = note[m] /\ (m \in overtaken => m \in overtaken')
                           \/ m \in overtaken'
                           \/ inferred[m] = NoText /\ \A b \in Batches : \A s \in selected[b] : s[1] # m
    BY <1>1, <1>3, <1>4
  <1> QED
    BY <1>1, <1>2, <1>5, <1>6, BatchesStay

\* Rounded up, there are no more batches than records.
LEMMA BatchesOfRecords ==
  ASSUME NEW r \in Nat, NEW l \in Nat, l >= 1
  PROVE  (r + l - 1) \div l \in Int /\ (r + l - 1) \div l <= r
  <1> DEFINE q == (r + l - 1) \div l
  <1>1. q \in Int /\ l * q <= r + l - 1
    OBVIOUS
  <1> HIDE DEF q
  <1>2. ASSUME q > r PROVE FALSE
    <2>1. PICK d \in Nat : q = r + 1 + d
      <3>1. q - r - 1 \in Nat /\ q = r + 1 + (q - r - 1)
        BY <1>1, <1>2
      <3> QED
        BY <3>1
    <2>2. l * q = l * r + l + l * d /\ l * d \in Nat /\ l * r \in Nat
      BY <2>1, SMT
    <2>3. PICK m \in Nat : l = 1 + m
      <3>1. l - 1 \in Nat /\ l = 1 + (l - 1)
        OBVIOUS
      <3> QED
        BY <3>1
    <2>4. l * r = r + m * r /\ m * r \in Nat
      BY <2>3, SMT
    <2> QED
      BY <1>1, <2>2, <2>4
  <1>3. q <= r
    BY <1>1, <1>2
  <1> QED
    BY <1>1, <1>3 DEF q

LEMMA ScheduleKeeps ==
  ASSUME EnrichIndInv, Schedule
  PROVE  EnrichIndInv'
  <1> DEFINE records == Smaller(Cardinality(Pending), MaxRecords)
             batches == (records + BatchLimit - 1) \div BatchLimit
  <1>1. keys' = keys \cup (1 .. batches \ NumbersOfRunning)
        /\ UNCHANGED <<note, inferred, cached, number, selected, phase, strays, paid, lost, overtaken>>
    BY DEF Schedule, rowVars, account
  <1>2. EnrichShapes
    BY DEF EnrichIndInv
  <1>3. records \in Nat /\ records <= Cardinality(Notices)
    <2>1. Pending \subseteq Notices /\ IsFiniteSet(Notices)
      BY EnrichmentAssumption DEF Pending
    <2>2. Cardinality(Pending) \in Nat /\ Cardinality(Pending) <= Cardinality(Notices) /\ MaxRecords \in Nat
      BY <2>1, FS_Subset, FS_CardinalityType, EnrichmentAssumption
    <2> QED
      BY <2>2, NoticesAreNumbers DEF Smaller
  <1> HIDE DEF records
  <1>4. batches \in Int /\ batches <= records
    BY <1>3, BatchesOfRecords, EnrichmentAssumption
  <1> HIDE DEF batches
  <1>5. keys' \subseteq 1 .. Cardinality(Notices)
    <2>1. keys \subseteq 1 .. Cardinality(Notices)
      BY <1>2, EnrichTypes
    <2>2. 1 .. batches \subseteq 1 .. Cardinality(Notices)
      BY <1>3, <1>4, NoticesAreNumbers
    <2> QED
      BY <1>1, <2>1, <2>2
  <1>6. EnrichShapes'
    BY <1>1, <1>2, <1>5, EnrichTypes, EnrichShapesAre
  <1> QED
    BY <1>1, <1>6, BatchesStay

-----------------------------------------------------------------------------
LEMMA EnrichInitially == EnrichInit => EnrichIndInv
  <1> SUFFICES ASSUME EnrichInit PROVE EnrichIndInv
    OBVIOUS
  <1>1. /\ note \in [Notices -> Texts] /\ inferred = [n \in Notices |-> NoText]
        /\ cached = {} /\ keys = {} /\ number = [b \in Batches |-> 0] /\ selected = [b \in Batches |-> {}]
        /\ phase = [b \in Batches |-> "next"] /\ strays = {}
        /\ paid = [t \in Texts |-> 0] /\ lost = [t \in Texts |-> 0] /\ overtaken = {}
    BY DEF EnrichInit
  <1>2. EnrichShapes
    <2>1. 0 \in 0 .. Cardinality(Notices)
      BY NoticesAreNumbers
    <2> QED
      BY <1>1, <2>1 DEF EnrichShapes, EnrichTypeOK
  <1>3. \A b \in Batches : number[b] = 0 /\ selected[b] = {}
    BY <1>1
  <1>4. AnswersAccounted
    <2> SUFFICES ASSUME NEW t \in Texts
                 PROVE  /\ paid[t] <= lost[t] + Cardinality(ToStore(t))
                        /\ paid[t] + Cardinality(ToAsk(t)) <= lost[t] + Cardinality(Batches)
      BY DEF AnswersAccounted
    <2>1. ToStore(t) = {} /\ ToAsk(t) = {}
      BY <1>3 DEF ToStore, ToAsk, At
    <2>2. Cardinality(ToStore(t)) = 0 /\ Cardinality(ToAsk(t)) = 0
      BY <2>1, FS_EmptySet
    <2> QED
      BY <1>1, <2>2, NoticesAreNumbers
  <1>5. SelectedIsOwn /\ AnswersAreReadable
    BY <1>3 DEF SelectedIsOwn, AnswersAreReadable, At
  <1>6. \A n \in Notices : inferred[n] = NoText
    BY <1>1
  <1> QED
    BY <1>2, <1>4, <1>5, <1>6 DEF EnrichIndInv

LEMMA EnrichFollows ==
  ASSUME EnrichIndInv, [EnrichNext]_enrichVars
  PROVE  EnrichIndInv'
  <1>1. CASE UNCHANGED enrichVars
    <2>1. UNCHANGED <<note, inferred, cached, keys, number, selected, phase, strays, paid, lost, overtaken>>
      BY <1>1 DEF enrichVars, rowVars, batchVars, account
    <2>2. EnrichShapes /\ EnrichShapes'
      <3>1. EnrichShapes
        BY DEF EnrichIndInv
      <3> QED
        BY <2>1, <3>1, EnrichTypes, EnrichShapesAre
    <2> QED
      BY <2>1, <2>2, BatchesStay
  <1>2. CASE EnrichNext
    BY <1>2, ScheduleKeeps, SelectKeeps, LookUpKeeps, AskKeeps, MeterKeeps, LeavesKeep, EndBatchKeeps,
       LeaseLostKeeps, BatchDiesKeeps, FeedKeeps
    DEF EnrichNext, BatchStep
  <1> QED
    BY <1>1, <1>2

\* A text is paid for at most once per batch that runs at the same time and once
\* more per answer that was lost before it was stored, whichever batches die, lose
\* their lease or go on without it; and the facts a notice shows are of its own
\* text, but for those the feed overtook (grant_enrichment.py:27,
\* enrichment_jobs.py:79).
THEOREM ReadingsArePaidOnce == EnrichSpec => []PaidOnceEach
  <1>1. EnrichIndInv => PaidOnceEach
    <2> SUFFICES ASSUME EnrichIndInv, NEW t \in Texts
                 PROVE  /\ paid[t] <= lost[t] + Cardinality(Batches)
                        /\ t \notin cached => paid[t] <= lost[t] + Cardinality(Asking(t))
      BY DEF PaidOnceEach, EnrichIndInv, EnrichShapes
    <2>1. /\ paid[t] \in Nat /\ lost[t] \in Nat
          /\ t \notin cached => paid[t] <= lost[t] + Cardinality(ToStore(t))
          /\ paid[t] + Cardinality(ToAsk(t)) <= lost[t] + Cardinality(Batches)
      BY EnrichTypes DEF EnrichIndInv, AnswersAccounted
    <2>2. ToStore(t) \subseteq Asking(t) /\ Asking(t) \subseteq Batches
      BY DEF ToStore, Asking
    <2>3. /\ Cardinality(ToStore(t)) <= Cardinality(Asking(t)) /\ Cardinality(ToStore(t)) \in Nat
          /\ Cardinality(Asking(t)) \in Nat
      BY <2>2, BatchSets
    <2>4. Cardinality(ToAsk(t)) \in Nat
      BY ToAskToStore, BatchSets
    <2> QED
      BY <2>1, <2>3, <2>4, NoticesAreNumbers
  <1> QED
    BY <1>1, EnrichInitially, EnrichFollows, PTL DEF EnrichSpec
=================================================================================
