------------------------------- MODULE AiBudget -------------------------------
(***************************************************************************)
(* One tenant's monthly AI allowance for a module: the check when an       *)
(* analysis is asked for (_enforce_ai_budget), the runs it leads to, one   *)
(* inline or up to max_attempts of a queued job, and what they add to the  *)
(* counter platform.ai_usage_monthly.                                      *)
(***************************************************************************)
EXTENDS Integers, FiniteSets

CONSTANTS
  Work,     \* analyses that may be asked for and not ended at one time
  Attempts, \* max_attempts of a queued analysis
  Cap,      \* tokens_per_month, or the allowance in dollars
  MaxTokens \* the most that one run is billed

ASSUME BudgetAssumption ==
  /\ IsFiniteSet(Work)
  /\ Attempts \in Nat \ {0}
  /\ Cap \in Nat
  /\ MaxTokens \in Nat

VARIABLES
  used,   \* this month's tokens in the counter
  due,    \* the runs <<w, k>> that were admitted and have not started
  running \* those that have started and not ended

vars == <<used, due, running>>

Runs == Work \X (1 .. Attempts)
RunsOf(w) == {w} \X (1 .. Attempts)

TypeOK ==
  /\ used \in Nat
  /\ due \subseteq Runs /\ running \subseteq Runs
  /\ due \cap running = {}

Init == used = 0 /\ due = {} /\ running = {}

-----------------------------------------------------------------------------
\* The check, and the inline run or the job.  Checked again by nothing.
Admit(w, n) ==
  /\ RunsOf(w) \cap (due \cup running) = {}
  /\ used < Cap
  /\ due' = due \cup ({w} \X (1 .. n))
  /\ UNCHANGED <<used, running>>

\* A run begins; a queued one may begin while an earlier one, whose lease has
\* expired, still runs.
Start(r) ==
  /\ r \in due
  /\ due' = due \ {r} /\ running' = running \cup {r}
  /\ UNCHANGED used

\* A run that finds nothing to analyse is over.
Skip(r) ==
  /\ r \in due
  /\ due' = due \ {r}
  /\ UNCHANGED <<used, running>>

\* AiUsageRecorder.record, and the trigger that adds it to the counter.
Record(r, tokens) ==
  /\ r \in running
  /\ used' = used + tokens
  /\ running' = running \ {r}
  /\ UNCHANGED due

\* The extraction fails and is recorded without tokens, the record is lost
\* (it never raises), or the process dies before it.
Unrecorded(r) ==
  /\ r \in running
  /\ running' = running \ {r}
  /\ UNCHANGED <<used, due>>

\* The job is finished, failed or cancelled: nothing more of it starts.
Settle(w) ==
  /\ due \cap RunsOf(w) # {}
  /\ due' = due \ RunsOf(w)
  /\ UNCHANGED <<used, running>>

\* Records made from now on count for another month.
NewMonth ==
  /\ used' = 0
  /\ UNCHANGED <<due, running>>

Next ==
  \/ \E w \in Work : Settle(w) \/ \E n \in {1, Attempts} : Admit(w, n)
  \/ \E r \in Runs :
       \/ Start(r) \/ Skip(r) \/ Unrecorded(r)
       \/ \E tokens \in 0 .. MaxTokens : Record(r, tokens)
  \/ NewMonth

Spec == Init /\ [][Next]_vars

-----------------------------------------------------------------------------
\* What the runs under way and still due may add never carries the month past
\* the allowance by more than every analysis, asked for while it was not used
\* up, running as often as it may.
Outstanding == used + MaxTokens * Cardinality(due \cup running)

BudgetStretch ==
  used > 0 \/ due \cup running # {} =>
    Outstanding < Cap + MaxTokens * Cardinality(Runs)
=============================================================================
