--------------------------- MODULE ContractAnalysis ---------------------------
(***************************************************************************)
(* The obligations of one contract.  Analyses are asked for within the     *)
(* tenant's allowance (AiBudget); their runs (analyze_contract, inline or  *)
(* queued, possibly overlapping) replace the model's earlier output with   *)
(* what the model makes of the contract, section by section, through the   *)
(* provider's circuit breaker (LlmBreaker), while people edit the rows.    *)
(* A queued analysis is deduplicated by its key, an inline one is not, so  *)
(* the key excludes no overlap and is not modelled.                        *)
(***************************************************************************)
EXTENDS AiBudget

CONSTANTS
  Drafts,      \* what a run's extraction proposes
  Manual,      \* obligations written by hand
  MaxAttempts, Threshold, Recovery \* of the provider; a contract has
                                   \* MaxTokens sections, of one token each

ASSUME AnalysisAssumption ==
  /\ Manual \cap (Runs \X Drafts) = {}
  /\ MaxTokens > 0
  /\ MaxAttempts \in Nat \ {0} /\ Threshold \in Nat \ {0} /\ Recovery \in Nat

VARIABLES
  contract, \* its text: "empty", "text"; or the contract is "gone"
  stage,    \* a run: what it does next
  tried,    \* the sections it is done with
  answered, \* those the model answered
  rows,     \* the obligations: <<run, draft>> with source ai, or a manual one
  moved,    \* those whose status is no longer open
  analyzed, \* the run that last set last_analyzed_at
  \* history variables
  written,  \* the rows ever inserted
  edited,   \* rows there are that a person changed
  dismissed,\* rows a person deleted
  before,   \* the runs that had ended when a run cleared the contract
  \* the provider
  failures, open, cooling, attempt, provider, streak, calm

Llm == INSTANCE LlmBreaker WITH Calls <- Runs

runVars == <<stage, tried, answered, before>>
rowVars == <<rows, moved, analyzed, written, edited, dismissed>>
llmVars == <<failures, open, cooling, attempt, provider, streak, calm>>
allVars == <<vars, contract, runVars, rowVars, llmVars>>

Extracted == Runs \X Drafts
Rows == Extracted \cup Manual
Nobody == <<>>

AnalysisTypeOK ==
  /\ TypeOK /\ Llm!TypeOK
  /\ contract \in {"empty", "text", "gone"}
  /\ stage \in [Runs -> {"ready", "clear", "extract", "insert", "record", "ended"}]
  /\ \A r \in Runs : stage[r] \in {"ready", "ended"} <=> r \notin running
  /\ \A r \in Runs : attempt[r] > 0 => stage[r] = "extract"
  /\ tried \in [Runs -> 0 .. MaxTokens] /\ answered \in [Runs -> 0 .. MaxTokens]
  /\ \A r \in Runs : answered[r] <= tried[r]
  /\ rows \subseteq written /\ written \subseteq Rows
  /\ moved \subseteq edited /\ edited \subseteq rows
  /\ analyzed \in Runs \cup {Nobody}
  /\ dismissed \subseteq written
  /\ before \in [Runs -> SUBSET Runs]

AnalysisInit ==
  /\ Init /\ Llm!Init
  /\ contract \in {"empty", "text"}
  /\ stage = [r \in Runs |-> "ready"]
  /\ tried = [r \in Runs |-> 0] /\ answered = [r \in Runs |-> 0]
  /\ rows = {} /\ moved = {}
  /\ analyzed = Nobody
  /\ written = {} /\ edited = {} /\ dismissed = {}
  /\ before = [r \in Runs |-> {}]

-----------------------------------------------------------------------------
Goes(r, s) == stage' = [stage EXCEPT ![r] = s]
Ended == {r \in Runs : stage[r] = "ended"}
Output(r) == {r} \X Drafts

\* The rows R are deleted.
Removed(R) ==
  /\ rows' = rows \ R /\ moved' = moved \ R /\ edited' = edited \ R

\* POST analyze: the contract has text and the allowance is not used up.
\* The bound on runs: an analysis is asked for once.
Ask(w, n) ==
  /\ contract = "text"
  /\ \A r \in RunsOf(w) : stage[r] = "ready"
  /\ Admit(w, n)
  /\ UNCHANGED <<contract, runVars, rowVars, llmVars>>

\* A run reads the contract; without text it is over.
Begin(r) ==
  /\ IF contract = "text"
     THEN Start(r) /\ Goes(r, "clear")
     ELSE Skip(r) /\ Goes(r, "ended")
  /\ UNCHANGED <<contract, tried, answered, before, rowVars, llmVars>>

ClearAll(r) == \* mutant: status = open is not asked for
  /\ stage[r] = "clear"
  /\ Removed(Extracted)
  /\ before' = [before EXCEPT ![r] = Ended]
  /\ Goes(r, "extract")
  /\ UNCHANGED <<vars, contract, tried, answered, analyzed, written, dismissed, llmVars>>

\* delete_ai_for_contract: source is ai and status is open.
Clear(r) ==
  /\ stage[r] = "clear"
  /\ Removed(Extracted \ moved)
  /\ before' = [before EXCEPT ![r] = Ended]
  /\ Goes(r, "extract")
  /\ UNCHANGED <<vars, contract, tried, answered, analyzed, written, dismissed, llmVars>>

-----------------------------------------------------------------------------
\* extract_detailed.

\* The next section goes to the model, if the circuit breaker lets it.
Call(r) ==
  /\ stage[r] = "extract" /\ Llm!Idle(r)
  /\ Llm!Admit(r)
  /\ UNCHANGED <<vars, contract, runVars, rowVars>>

Again(r) ==
  /\ Llm!Retry(r)
  /\ UNCHANGED <<vars, contract, runVars, rowVars>>

SectionsCharged(r, n) == \* mutant: each section is recorded as it ends
  /\ tried' = [tried EXCEPT ![r] = n]
  /\ used' = used + (answered'[r] - answered[r]) /\ UNCHANGED <<due, running>>
  /\ IF n < MaxTokens THEN UNCHANGED stage ELSE Goes(r, "insert")

SectionsShrugged(r, n) == \* mutant: no section answered is no obligation found
  /\ tried' = [tried EXCEPT ![r] = n]
  /\ IF n < MaxTokens THEN UNCHANGED stage ELSE Goes(r, "insert")
  /\ UNCHANGED vars

\* The last of the sections has been tried: when none was answered the failure
\* is recorded, without tokens, and raised.
SectionsDone(r, n) ==
  /\ tried' = [tried EXCEPT ![r] = n]
  /\ IF n < MaxTokens
     THEN UNCHANGED <<vars, stage>>
     ELSE IF answered'[r] > 0
          THEN Goes(r, "insert") /\ UNCHANGED vars
          ELSE Goes(r, "ended") /\ Unrecorded(r)

\* An answer; the rest of the contract is skipped when it has MAX_OBLIGATIONS.
Answered(r) ==
  /\ Llm!Succeed(r)
  /\ answered' = [answered EXCEPT ![r] = @ + 1]
  /\ \E n \in {tried[r] + 1, MaxTokens} : SectionsDone(r, n)
  /\ UNCHANGED <<contract, before, rowVars>>

\* The section fails: the circuit is open, the retries are used up, or no
\* retry would help.  The run goes on with the next.
SectionFails(r) ==
  /\ \/ /\ stage[r] = "extract" /\ Llm!Idle(r)
        /\ open /\ cooling > 0
        /\ UNCHANGED llmVars
     \/ Llm!GiveUp(r)
     \/ Llm!Reject(r)
  /\ UNCHANGED answered
  /\ SectionsDone(r, tried[r] + 1)
  /\ UNCHANGED <<contract, before, rowVars>>

-----------------------------------------------------------------------------
\* bulk_insert_ai: one INSERT a draft, which fails if the contract is gone.
Insert(r, d) ==
  /\ stage[r] = "insert" /\ <<r, d>> \notin written
  /\ contract # "gone"
  /\ rows' = rows \cup {<<r, d>>} /\ written' = written \cup {<<r, d>>}
  /\ UNCHANGED <<vars, contract, runVars, moved, analyzed, edited, dismissed, llmVars>>

\* mark_analyzed, which updates nothing if the contract is gone.
Mark(r) ==
  /\ stage[r] = "insert" /\ Output(r) \subseteq written
  /\ analyzed' = IF contract = "gone" THEN analyzed ELSE r
  /\ Goes(r, "record")
  /\ UNCHANGED <<vars, contract, tried, answered, before, rows, moved, written, edited,
                 dismissed, llmVars>>

BillEarly(r) == \* mutant: the usage is recorded as soon as it is known
  /\ stage[r] \in {"insert", "record"}
  /\ Record(r, answered[r])
  /\ Goes(r, "ended")
  /\ UNCHANGED <<contract, tried, answered, before, rowVars, llmVars>>

\* metering.record with what the answers cost.
Bill(r) ==
  /\ stage[r] = "record"
  /\ Record(r, answered[r])
  /\ Goes(r, "ended")
  /\ UNCHANGED <<contract, tried, answered, before, rowVars, llmVars>>

\* A statement raises, the record is lost, the request is cancelled or the
\* process dies.
Fail(r) ==
  /\ r \in running
  /\ Unrecorded(r)
  /\ Goes(r, "ended")
  /\ IF Llm!Idle(r) THEN UNCHANGED llmVars ELSE Llm!Reject(r)
  /\ UNCHANGED <<contract, tried, answered, before, rowVars>>

-----------------------------------------------------------------------------
\* People.

Write(o) ==
  /\ contract # "gone" /\ o \in Manual \ written
  /\ rows' = rows \cup {o} /\ written' = written \cup {o} /\ edited' = edited \cup {o}
  /\ UNCHANGED <<vars, contract, runVars, moved, analyzed, dismissed, llmVars>>

\* update_obligation: the status, to or from open, or other fields.
Update(o) ==
  /\ o \in rows
  /\ moved' \in {moved \cup {o}, moved \ {o}}
  /\ edited' = edited \cup {o}
  /\ UNCHANGED <<vars, contract, runVars, rows, analyzed, written, dismissed, llmVars>>

Dismiss(o) ==
  /\ o \in rows
  /\ Removed({o}) /\ dismissed' = dismissed \cup {o}
  /\ UNCHANGED <<vars, contract, runVars, analyzed, written, llmVars>>

\* The contract's text is pasted, replaced or emptied.
EditText ==
  /\ contract # "gone"
  /\ contract' \in {"empty", "text"}
  /\ UNCHANGED <<vars, runVars, rowVars, llmVars>>

\* The rows cascade.
DeleteContract ==
  /\ contract # "gone"
  /\ contract' = "gone" /\ Removed(rows) /\ analyzed' = Nobody
  /\ UNCHANGED <<vars, runVars, written, dismissed, llmVars>>

-----------------------------------------------------------------------------
\* The job is settled, a month ends, time passes, the provider changes.
Elsewhere ==
  \/ /\ (\E w \in Work : Settle(w)) \/ NewMonth
     /\ UNCHANGED <<contract, runVars, rowVars, llmVars>>
  \/ /\ Llm!Tick \/ Llm!Provider
     /\ UNCHANGED <<vars, contract, runVars, rowVars>>

RunStep(r) ==
  \/ Begin(r) \/ Clear(r) \/ Call(r) \/ Again(r) \/ Answered(r) \/ SectionFails(r)
  \/ \E d \in Drafts : Insert(r, d)
  \/ Mark(r) \/ Bill(r) \/ Fail(r)

AnalysisNext ==
  \/ \E w \in Work, n \in {1, Attempts} : Ask(w, n)
  \/ \E r \in Runs : RunStep(r)
  \/ \E o \in Rows : Write(o) \/ Update(o) \/ Dismiss(o)
  \/ EditText \/ DeleteContract \/ Elsewhere

AnalysisSpec == AnalysisInit /\ [][AnalysisNext]_allVars

-----------------------------------------------------------------------------
\* "Re-running the model must never destroy human effort" (repository.py:303):
\* what was written by hand or is off open goes only when a person deletes it
\* or the contract, however many runs are under way.
EffortStays ==
  contract' # "gone" => ((rows \cap Manual) \cup moved) \ rows' \subseteq dismissed'

HumanWorkSurvives == [][EffortStays]_allVars

\* "A failed extraction cannot leave the previous run's output looking like
\* the current one" (analysis.py:74): once a run has cleared the contract,
\* nothing untouched is left, or ever reappears, of the runs ended before it.
StaleOutputIsGone ==
  \A r \in Runs : \A q \in before[r] :
    \A o \in Output(q) \cap rows : o \in edited

\* See AnalysisInv.
AnalyzedMeansStored ==
  analyzed # Nobody =>
    /\ answered[analyzed] > 0
    /\ Output(analyzed) \subseteq written
    /\ \A o \in Output(analyzed) \ rows :
         o \in dismissed \/ \E r \in Runs \ {analyzed} : stage[r] \notin {"ready", "clear"}

\* Types; and last_analyzed_at is only set when the model answered a section of
\* the contract and every obligation of the run was stored; those that are
\* missing now were deleted by a person or a later run; and what an earlier
\* run left is gone.  Reporting an analysis
\* of which every section failed "would be a lie" (extraction.py:202).
AnalysisInv == AnalysisTypeOK /\ AnalyzedMeansStored /\ StaleOutputIsGone

\* The counter grows by what a run's answers cost, once, and only for runs
\* whose obligations were all stored: an outage, a failed statement or a
\* deleted contract is never charged (analysis.py:76-121).
ChargesAreForResults ==
  used' > used =>
    \E r \in running \ running' :
      /\ used' = used + answered[r]
      /\ Output(r) \subseteq written

PaidMeansStored == [][ChargesAreForResults]_allVars

\* Analyses take from the tenant's allowance only by what AiBudget allows: a
\* run starts once, was admitted while the allowance was not used up, and is
\* recorded at most once (_enforce_ai_budget, analyze_contract).
UsesAllowance == Spec
=============================================================================
