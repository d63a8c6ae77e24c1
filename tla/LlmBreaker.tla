------------------------------ MODULE LlmBreaker ------------------------------
(***************************************************************************)
(* ResilientLlmProvider: the retries and the circuit breaker around the    *)
(* model provider, shared by the concurrent calls of one process.  Each    *)
(* method of the breaker runs under its lock without an await, so it is    *)
(* one step.  A refused call changes nothing and has no action.            *)
(***************************************************************************)
EXTENDS Naturals

CONSTANTS
  Calls,       \* callers, each with one call at a time
  MaxAttempts, \* max_attempts
  Threshold,   \* failure_threshold
  Recovery     \* recovery_seconds, in ticks

ASSUME BreakerAssumption ==
  /\ MaxAttempts \in Nat \ {0}
  /\ Threshold \in Nat \ {0}
  /\ Recovery \in Nat \ {0}

VARIABLES
  failures, \* _failures
  open,     \* _opened_at is not None
  cooling,  \* ticks until _opened_at is recovery_seconds old, if open
  attempt,  \* a caller: 0 if it has no call, else the attempt under way
  provider, \* "up": every answer is usable; "flaky": some are, the others time
            \* out, are rate limited or hold no readable JSON; "down": none is
  \* history variables
  streak,   \* calls given up since the last success, up to Threshold
  calm      \* ticks since a call was last given up at Threshold, up to Recovery

vars == <<failures, open, cooling, attempt, provider, streak, calm>>

TypeOK ==
  /\ failures \in Nat
  /\ open \in BOOLEAN
  /\ provider \in {"up", "flaky", "down"}
  /\ cooling \in 0 .. Recovery
  /\ attempt \in [Calls -> 0 .. MaxAttempts]
  /\ streak \in 0 .. Threshold
  /\ calm \in 0 .. Recovery

Init ==
  /\ failures = 0 /\ open = FALSE /\ cooling = 0
  /\ attempt = [c \in Calls |-> 0]
  /\ provider \in {"up", "flaky", "down"}
  /\ streak = 0 /\ calm = Recovery

-----------------------------------------------------------------------------
Idle(c) == attempt[c] = 0
Sets(c, n) == attempt' = [attempt EXCEPT ![c] = n]
Least(m, n) == IF m < n THEN m ELSE n

\* before_call on a closed circuit.
Enter(c) ==
  /\ Idle(c) /\ ~open
  /\ Sets(c, 1)
  /\ UNCHANGED <<failures, open, cooling, provider, streak, calm>>

HalfOpenKeeps(c) == \* mutant: _opened_at is left to the trial call
  /\ Idle(c) /\ open /\ cooling = 0
  /\ failures' = Threshold - 1
  /\ Sets(c, 1)
  /\ UNCHANGED <<open, cooling, provider, streak, calm>>

\* before_call when the cooldown has elapsed.
HalfOpen(c) ==
  /\ Idle(c) /\ open /\ cooling = 0
  /\ open' = FALSE /\ failures' = Threshold - 1
  /\ Sets(c, 1)
  /\ UNCHANGED <<cooling, provider, streak, calm>>

\* An error that a retry may help, with attempts left: back off and try again.
\* An answer without readable JSON is one (the provider's extract raises it).
Retry(c) ==
  /\ attempt[c] \in 1 .. MaxAttempts - 1
  /\ provider # "up"
  /\ Sets(c, attempt[c] + 1)
  /\ UNCHANGED <<failures, open, cooling, provider, streak, calm>>

\* An answer, and record_success.
Succeed(c) ==
  /\ ~Idle(c) /\ provider # "down"
  /\ failures' = 0 /\ open' = FALSE /\ cooling' = 0
  /\ Sets(c, 0)
  /\ streak' = 0 /\ calm' = Recovery
  /\ UNCHANGED provider

\* What the history keeps of a call that was given up.
GivenUp ==
  /\ streak' = Least(streak + 1, Threshold)
  /\ calm' = IF streak' = Threshold THEN 0 ELSE calm

GiveUpOnce(c) == \* mutant: the circuit opens when the count reaches the threshold
  /\ attempt[c] = MaxAttempts /\ provider # "up"
  /\ failures' = failures + 1
  /\ IF failures' = Threshold
     THEN open' = TRUE /\ cooling' = Recovery
     ELSE UNCHANGED <<open, cooling>>
  /\ Sets(c, 0)
  /\ GivenUp
  /\ UNCHANGED provider

\* The last attempt fails, and record_failure.
GiveUp(c) ==
  /\ attempt[c] = MaxAttempts /\ provider # "up"
  /\ failures' = failures + 1
  /\ IF failures' >= Threshold
     THEN open' = TRUE /\ cooling' = Recovery
     ELSE UNCHANGED <<open, cooling>>
  /\ Sets(c, 0)
  /\ GivenUp
  /\ UNCHANGED provider

RejectCounts(c) == \* mutant: a permanent error is recorded as a failure
  /\ ~Idle(c)
  /\ failures' = failures + 1
  /\ IF failures' >= Threshold
     THEN open' = TRUE /\ cooling' = Recovery
     ELSE UNCHANGED <<open, cooling>>
  /\ Sets(c, 0)
  /\ UNCHANGED <<provider, streak, calm>>

\* An error that no retry can help, or the caller is cancelled.
Reject(c) ==
  /\ ~Idle(c)
  /\ Sets(c, 0)
  /\ UNCHANGED <<failures, open, cooling, provider, streak, calm>>

-----------------------------------------------------------------------------
Tick ==
  /\ cooling > 0 \/ calm < Recovery
  /\ cooling' = IF cooling > 0 THEN cooling - 1 ELSE 0
  /\ calm' = Least(calm + 1, Recovery)
  /\ UNCHANGED <<failures, open, attempt, provider, streak>>

\* An outage begins or ends.
Provider ==
  /\ provider' \in {"up", "flaky", "down"} \ {provider}
  /\ UNCHANGED <<failures, open, cooling, attempt, streak, calm>>

Admit(c) == Enter(c) \/ HalfOpen(c)
Answer(c) == Retry(c) \/ Succeed(c) \/ GiveUp(c) \/ Reject(c)

Next == (\E c \in Calls : Admit(c) \/ Answer(c)) \/ Tick \/ Provider

Spec == Init /\ [][Next]_vars

\* Time passes, every attempt ends (the SDK's timeout), and a caller that would
\* be let in, and goes on being, calls.
Fairness ==
  /\ WF_vars(Tick)
  /\ \A c \in Calls : WF_vars(Answer(c)) /\ WF_vars(Admit(c))

FairSpec == Spec /\ Fairness

-----------------------------------------------------------------------------
\* The circuit opens only after failure_threshold calls in a row were given
\* up: neither permanent errors, nor calls that overlap a success, nor the
\* reset at a cooldown's end make up for them.  While it is closed one call
\* less than that was given up, or a cooldown has ended and the next call
\* that is given up opens it.
OpensWhenEarned ==
  /\ open => streak = Threshold /\ failures >= Threshold
  /\ ~open => failures = Least(streak, Threshold - 1)

\* The cooldown runs from the last call that was given up at the threshold.
Cooldown ==
  /\ cooling + calm = Recovery
  /\ ~open => cooling = 0

\* The three together: what every step of any caller preserves, whichever
\* calls were in flight when the circuit opened (CircuitBreaker, all methods).
BreakerInv == TypeOK /\ OpensWhenEarned /\ Cooldown

\* While the provider is down calls fail fast: none is let in within
\* recovery_seconds of a call given up at the threshold, unless one succeeded
\* in between, however many calls were in flight when the circuit opened.
LetsInWhenCalm ==
  \A c \in Calls : Idle(c) /\ attempt'[c] # 0 => calm = Recovery

FailsFast == [][LetsInWhenCalm]_vars

\* Once an outage is over the circuit closes for good, even if every trial
\* call is rejected.
ClosesAgain == <>[](provider = "up") => <>[]~open
=============================================================================
