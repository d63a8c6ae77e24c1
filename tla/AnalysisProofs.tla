---------------------------- MODULE AnalysisProofs ----------------------------
(***************************************************************************)
(* Proofs about AiBudget and ContractAnalysis, for any analyses, attempts, *)
(* allowance, sections, drafts and settings of the provider; about         *)
(* ContractFiling, about DocumentStore and about ContractReading.          *)
(*                                                                         *)
(* The allowance first: with the type, BudgetStretch is itself inductive,  *)
(* because an admission finds the counter below the allowance and at most  *)
(* Runs to come, and a run that is recorded moves at most MaxTokens from   *)
(* what is outstanding to the counter.                                     *)
(*                                                                         *)
(* Then that an analysis is one of AiBudget's, so that the theorem on the  *)
(* allowance is about it; and what a run may do to the obligations: the    *)
(* inductive invariant says how far a run has come by its stage (RunShape),*)
(* that nothing is written before the insertions and everything after them *)
(* (Stored), and why an obligation that was written is missing (Missing).  *)
(*                                                                         *)
(* FilingIndInv: the audit trail has, or a request is about to write, what *)
(* became of each contract and obligation; an obligation stays with one    *)
(* contract, and a deletion is the last that is said of what it deletes.   *)
(*                                                                         *)
(* DocumentIndInv: what a request relies on, by its step, of the keys that *)
(* it alone handles (ReliesOn): no row before it writes one or once it     *)
(* deleted one, its object from the put on.  A step of one request keeps   *)
(* that for the others (StepOfOne), and each action is one such step.      *)
(*                                                                         *)
(* ReadingIndInv: while a text is cut, its letters up to where the cut is  *)
(* are in the blocks, each a piece of the text that fits and begins where  *)
(* the one before it ends (Split); while they are packed, the sections     *)
(* with the one in hand hold every block that was taken (Packed); and what *)
(* was merged is exact for the items that were seen (Exact).  What a loop  *)
(* has cut so far is compared with the text by Covers and IsSlice; where   *)
(* that takes induction over the text, the proof takes the least position  *)
(* at which it fails (LeastNumber).                                        *)
(***************************************************************************)
EXTENDS ContractAnalysis, ContractFiling, DocumentStore, ContractReading, FiniteSetTheorems,
        SequenceTheorems, WellFoundedInduction, TLAPS

IInv == TypeOK /\ BudgetStretch

LEMMA RunsFinite == IsFiniteSet(Runs) /\ Cardinality(Runs) \in Nat
<1>1. IsFiniteSet(1 .. Attempts)
  BY FS_Interval, BudgetAssumption
<1> QED BY <1>1, FS_Product, FS_CardinalityType, BudgetAssumption DEF Runs

\* A set of runs is finite, and its cardinality at most that of a larger one.
LEMMA RunSets ==
  ASSUME NEW S \in SUBSET Runs, NEW T \in SUBSET S
  PROVE  /\ IsFiniteSet(T)
         /\ Cardinality(T) \in Nat /\ Cardinality(S) \in Nat
         /\ Cardinality(T) <= Cardinality(S)
<1>1. IsFiniteSet(S) /\ Cardinality(S) \in Nat
  BY RunsFinite, FS_Subset, FS_CardinalityType
<1> QED BY <1>1, FS_Subset, FS_CardinalityType

LEMMA Scales ==
  ASSUME NEW m \in Nat, NEW i \in Nat, NEW j \in Nat, i <= j
  PROVE  m * i <= m * j /\ m * i \in Nat /\ m * j \in Nat
<1>1. PICK d \in Nat : j = i + d
  BY SMT
<1>2. m * i \in Nat /\ m * d \in Nat /\ m * j = m * i + m * d
  BY <1>1, SMT
<1> QED BY <1>2, SMT

\* What is outstanding does not grow when neither the counter nor the runs do.
LEMMA Shrinks ==
  ASSUME IInv, TypeOK', used' <= used, due' \cup running' \subseteq due \cup running
  PROVE  BudgetStretch'
<1> DEFINE S == due \cup running
           T == due' \cup running'
<1>1. S \in SUBSET Runs /\ T \in SUBSET S
  BY DEF IInv, TypeOK
<1>2. Cardinality(T) \in Nat /\ Cardinality(S) \in Nat /\ Cardinality(T) <= Cardinality(S)
  BY <1>1, RunSets
<1>3. MaxTokens * Cardinality(T) <= MaxTokens * Cardinality(S)
      /\ MaxTokens * Cardinality(T) \in Nat /\ MaxTokens * Cardinality(S) \in Nat
      /\ MaxTokens * Cardinality(Runs) \in Nat
  BY <1>2, Scales, RunsFinite, BudgetAssumption
<1>4. SUFFICES ASSUME used' > 0 \/ T # {}
               PROVE  used' + MaxTokens * Cardinality(T) < Cap + MaxTokens * Cardinality(Runs)
  BY DEF BudgetStretch, Outstanding
<1>5. used > 0 \/ S # {}
  BY <1>1, <1>4 DEF IInv, TypeOK
<1>6. used + MaxTokens * Cardinality(S) < Cap + MaxTokens * Cardinality(Runs)
  BY <1>5 DEF IInv, BudgetStretch, Outstanding
<1> HIDE DEF S, T
<1> QED BY <1>3, <1>6, BudgetAssumption DEF IInv, TypeOK

LEMMA AdmitIInv ==
  ASSUME IInv, NEW w \in Work, NEW n \in {1, Attempts}, Admit(w, n)
  PROVE  IInv'
<1>1. {w} \X (1 .. n) \subseteq RunsOf(w) /\ RunsOf(w) \subseteq Runs
  BY BudgetAssumption DEF Runs, RunsOf
<1>2. TypeOK'
  BY <1>1 DEF IInv, TypeOK, Admit
<1> DEFINE T == due' \cup running'
<1>3. /\ Cardinality(T) \in Nat
      /\ Cardinality(T) <= Cardinality(Runs)
  <2>1. T \in SUBSET Runs
    BY <1>2 DEF TypeOK
  <2> QED BY <2>1, RunSets
<1>4. /\ MaxTokens * Cardinality(T) <= MaxTokens * Cardinality(Runs)
      /\ MaxTokens * Cardinality(T) \in Nat /\ MaxTokens * Cardinality(Runs) \in Nat
  BY <1>3, Scales, RunsFinite, BudgetAssumption
<1>5. used' = used /\ used < Cap
  BY DEF Admit
<1>6. used' + MaxTokens * Cardinality(T) < Cap + MaxTokens * Cardinality(Runs)
  <2> HIDE DEF T
  <2> QED BY <1>4, <1>5, BudgetAssumption DEF IInv, TypeOK
<1>7. BudgetStretch'
  BY <1>6 DEF BudgetStretch, Outstanding
<1> QED BY <1>2, <1>7 DEF IInv

LEMMA RecordIInv ==
  ASSUME IInv, NEW r \in Runs, NEW tokens \in 0 .. MaxTokens, Record(r, tokens)
  PROVE  IInv'
<1>1. TypeOK'
  BY BudgetAssumption DEF IInv, TypeOK, Record
<1> DEFINE S == due \cup running
           T == due' \cup running'
<1>2. r \in S /\ T = S \ {r} /\ S \in SUBSET Runs
  BY DEF IInv, TypeOK, Record
<1>3. IsFiniteSet(S)
  BY <1>2, RunSets
<1>4. Cardinality(T) = Cardinality(S) - 1 /\ Cardinality(S) \in Nat /\ Cardinality(T) \in Nat
  <2>1. Cardinality(T) = Cardinality(S) - 1
    BY <1>2, <1>3, FS_RemoveElement, SMTT(30)
  <2> QED BY <2>1, <1>2, RunSets
<1>5. used + MaxTokens * Cardinality(S) < Cap + MaxTokens * Cardinality(Runs)
  BY <1>2 DEF IInv, BudgetStretch, Outstanding
<1>6. used' = used + tokens
  BY DEF Record
<1>7. used' + MaxTokens * Cardinality(T) < Cap + MaxTokens * Cardinality(Runs)
  <2>1. MaxTokens * Cardinality(S) = MaxTokens * Cardinality(T) + MaxTokens
    <3> HIDE DEF S, T
    <3> QED BY <1>4, BudgetAssumption, SMT
  <2>2. MaxTokens * Cardinality(T) \in Nat /\ MaxTokens * Cardinality(Runs) \in Nat
    <3> HIDE DEF S, T
    <3> QED BY <1>4, Scales, RunsFinite, BudgetAssumption
  <2> HIDE DEF S, T
  <2> QED BY <1>5, <1>6, <2>1, <2>2, BudgetAssumption DEF IInv, TypeOK
<1>8. BudgetStretch'
  BY <1>7 DEF BudgetStretch, Outstanding
<1> QED BY <1>1, <1>8 DEF IInv

LEMMA NextIInv == IInv /\ [Next]_vars => IInv'
<1> SUFFICES ASSUME IInv, [Next]_vars PROVE IInv'
  OBVIOUS
<1>1. ASSUME NEW w \in Work, Settle(w) PROVE IInv'
  <2>1. TypeOK' /\ used' <= used /\ due' \cup running' \subseteq due \cup running
    BY <1>1 DEF Settle, IInv, TypeOK
  <2> QED BY <2>1, Shrinks DEF IInv
<1>2. ASSUME NEW w \in Work, NEW n \in {1, Attempts}, Admit(w, n) PROVE IInv'
  BY <1>2, AdmitIInv
<1>3. ASSUME NEW r \in Runs, Start(r) \/ Skip(r) PROVE IInv'
  <2>1. TypeOK' /\ used' <= used /\ due' \cup running' \subseteq due \cup running
    BY <1>3 DEF Start, Skip, IInv, TypeOK
  <2> QED BY <2>1, Shrinks DEF IInv
<1>4. ASSUME NEW r \in Runs, Unrecorded(r) PROVE IInv'
  <2>1. TypeOK' /\ used' <= used /\ due' \cup running' \subseteq due \cup running
    BY <1>4 DEF Unrecorded, IInv, TypeOK
  <2> QED BY <2>1, Shrinks DEF IInv
<1>5. ASSUME NEW r \in Runs, NEW tokens \in 0 .. MaxTokens, Record(r, tokens) PROVE IInv'
  BY <1>5, RecordIInv
<1>6. ASSUME NewMonth \/ UNCHANGED vars PROVE IInv'
  <2>1. TypeOK' /\ used' <= used /\ due' \cup running' \subseteq due \cup running
    BY <1>6 DEF NewMonth, vars, IInv, TypeOK
  <2> QED BY <2>1, Shrinks DEF IInv
<1> QED BY <1>1, <1>2, <1>3, <1>4, <1>5, <1>6 DEF Next

LEMMA InitIInv == Init => IInv
  BY DEF Init, IInv, TypeOK, BudgetStretch

\* The counter is a number, and a run is due or running and not both.
THEOREM TypeCorrect == Spec => []TypeOK
<1>1. IInv => TypeOK
  BY DEF IInv
<1> QED BY <1>1, InitIInv, NextIInv, PTL DEF Spec

\* However checks, runs, retries and records of concurrent analyses interleave,
\* the month's tokens stay below the allowance plus MaxTokens for every run of
\* every analysis.
THEOREM OvershootIsBounded == Spec => []BudgetStretch
<1>1. IInv => BudgetStretch
  BY DEF IInv
<1> QED BY <1>1, InitIInv, NextIInv, PTL DEF Spec

-----------------------------------------------------------------------------
\* A run that has been through its deletion of the earlier output.
Cleared(r) == stage[r] \notin {"ready", "clear"}

RunShape ==
  \A r \in Runs :
    /\ r \in due => stage[r] = "ready"
    /\ tried[r] <= MaxTokens
    /\ stage[r] \in {"ready", "clear"} => tried[r] = 0
    /\ stage[r] = "extract" => tried[r] < MaxTokens
    /\ stage[r] \in {"insert", "record"} => answered[r] > 0

Stored ==
  \A r \in Runs :
    /\ stage[r] \in {"ready", "clear", "extract"} => Output(r) \cap written = {}
    /\ stage[r] = "record" => Output(r) \subseteq written

Missing ==
  \A r \in Runs : \A o \in (Output(r) \cap written) \ rows :
    o \in dismissed \/ contract = "gone" \/ \E q \in Runs \ {r} : Cleared(q)

Marked ==
  analyzed # Nobody =>
    /\ analyzed \in Runs /\ contract # "gone"
    /\ stage[analyzed] \in {"record", "ended"}
    /\ answered[analyzed] > 0
    /\ Output(analyzed) \subseteq written

Stale ==
  /\ StaleOutputIsGone
  /\ \A r \in Runs : \A q \in before[r] : stage[q] = "ended"

LlmTypes == Llm!TypeOK

RunTypes ==
  /\ contract \in {"empty", "text", "gone"}
  /\ stage \in [Runs -> {"ready", "clear", "extract", "insert", "record", "ended"}]
  /\ \A r \in Runs : stage[r] \in {"ready", "ended"} <=> r \notin running
  /\ \A r \in Runs : attempt[r] > 0 => stage[r] = "extract"
  /\ tried \in [Runs -> 0 .. MaxTokens] /\ answered \in [Runs -> 0 .. MaxTokens]
  /\ \A r \in Runs : answered[r] <= tried[r]
  /\ before \in [Runs -> SUBSET Runs]

RowTypes ==
  /\ rows \subseteq written /\ written \subseteq Rows
  /\ moved \subseteq edited /\ edited \subseteq rows
  /\ analyzed \in Runs \cup {Nobody}
  /\ dismissed \subseteq written

AInv ==
  /\ IInv /\ LlmTypes /\ RunTypes /\ RowTypes /\ RunShape
  /\ Stored /\ Missing /\ Marked /\ Stale

USE DEF Cleared

-----------------------------------------------------------------------------
\* The analyses take from the allowance.

\* The types of the sections make the tokens of a run at most MaxTokens.
LEMMA StepTakes ==
  ASSUME RunTypes, [AnalysisNext]_allVars
  PROVE  [Next]_vars
<1>1. ASSUME NEW w \in Work, NEW n \in {1, Attempts}, Ask(w, n) PROVE Next
  BY <1>1 DEF Ask, Next
<1>2. ASSUME NEW r \in Runs, Begin(r) PROVE Next
  BY <1>2 DEF Begin, Next
<1>3. ASSUME NEW r \in Runs, NEW n, SectionsDone(r, n) PROVE [Next]_vars
  BY <1>3 DEF SectionsDone, Next
<1>4. ASSUME NEW r \in Runs, Answered(r) \/ SectionFails(r) PROVE [Next]_vars
  BY <1>3, <1>4 DEF Answered, SectionFails
<1>5. ASSUME NEW r \in Runs, Bill(r) PROVE Next
  <2>1. answered[r] \in 0 .. MaxTokens
    BY DEF RunTypes
  <2> QED BY <1>5, <2>1 DEF Bill, Next
<1>6. ASSUME NEW r \in Runs, Fail(r) PROVE Next
  BY <1>6 DEF Fail, Next
<1>7. ASSUME NEW r \in Runs,
             Clear(r) \/ Call(r) \/ Again(r) \/ Mark(r) \/ \E d \in Drafts : Insert(r, d)
      PROVE  UNCHANGED vars
  BY <1>7 DEF Clear, Call, Again, Mark, Insert
<1>8. ASSUME NEW o \in Rows, Write(o) \/ Update(o) \/ Dismiss(o) PROVE UNCHANGED vars
  BY <1>8 DEF Write, Update, Dismiss
<1>9. ASSUME EditText \/ DeleteContract PROVE UNCHANGED vars
  BY <1>9 DEF EditText, DeleteContract
<1>10. ASSUME Elsewhere PROVE [Next]_vars
  BY <1>10 DEF Elsewhere, Next
<1>11. ASSUME UNCHANGED allVars PROVE UNCHANGED vars
  BY <1>11 DEF allVars
<1> QED
  BY <1>1, <1>2, <1>4, <1>5, <1>6, <1>7, <1>8, <1>9, <1>10, <1>11 DEF AnalysisNext, RunStep

-----------------------------------------------------------------------------
\* The provider's types.
LEMMA LlmStep ==
  ASSUME LlmTypes, NEW r \in Runs,
         \/ Llm!Admit(r) \/ Llm!Retry(r) \/ Llm!Succeed(r) \/ Llm!GiveUp(r) \/ Llm!Reject(r)
  PROVE  /\ LlmTypes'
         /\ \A q \in Runs \ {r} : attempt'[q] = attempt[q]
         /\ Llm!Succeed(r) \/ Llm!GiveUp(r) \/ Llm!Reject(r) => attempt'[r] = 0
<1> USE DEF LlmTypes, Llm!TypeOK
<1>1. /\ \A q \in Runs \ {r} : attempt'[q] = attempt[q]
      /\ attempt' \in [Runs -> 0 .. MaxAttempts]
      /\ Llm!Succeed(r) \/ Llm!GiveUp(r) \/ Llm!Reject(r) => attempt'[r] = 0
  <2>1. \E n \in 0 .. MaxAttempts :
          /\ Llm!Sets(r, n)
          /\ Llm!Succeed(r) \/ Llm!GiveUp(r) \/ Llm!Reject(r) => n = 0
    <3>1. CASE Llm!Succeed(r) \/ Llm!GiveUp(r) \/ Llm!Reject(r)
      <4>1. Llm!Sets(r, 0)
        BY <3>1 DEF Llm!Succeed, Llm!GiveUp, Llm!Reject
      <4> QED BY <4>1, AnalysisAssumption
    <3>2. CASE ~(Llm!Succeed(r) \/ Llm!GiveUp(r) \/ Llm!Reject(r))
      <4>1. (Llm!Sets(r, 1) \/ (attempt[r] \in 1 .. MaxAttempts - 1 /\ Llm!Sets(r, attempt[r] + 1)))
        BY <3>2 DEF Llm!Admit, Llm!Enter, Llm!HalfOpen, Llm!Retry
      <4>2. 1 \in 0 .. MaxAttempts
        BY AnalysisAssumption
      <4>3. attempt[r] \in 1 .. MaxAttempts - 1 => attempt[r] + 1 \in 0 .. MaxAttempts
        BY AnalysisAssumption
      <4> QED BY <3>2, <4>1, <4>2, <4>3
    <3> QED BY <3>1, <3>2
  <2> QED BY <2>1 DEF Llm!Sets
<1>2. open' \in BOOLEAN /\ provider' = provider
  BY DEF Llm!Admit, Llm!Enter, Llm!HalfOpen, Llm!Retry, Llm!Succeed, Llm!GiveUp, Llm!Reject
<1>3. failures' \in Nat /\ cooling' \in 0 .. Recovery
  <2>1. /\ failures' \in {failures, Threshold - 1, 0, failures + 1}
        /\ cooling' \in {cooling, 0, Recovery}
    BY DEF Llm!Admit, Llm!Enter, Llm!HalfOpen, Llm!Retry, Llm!Succeed, Llm!GiveUp, Llm!Reject
  <2> QED BY <2>1, AnalysisAssumption
<1>4. streak' \in 0 .. Threshold /\ calm' \in 0 .. Recovery
  <2>1. /\ streak' \in {streak, 0, Llm!Least(streak + 1, Threshold)}
        /\ calm' \in {calm, Recovery, 0}
    BY DEF Llm!Admit, Llm!Enter, Llm!HalfOpen, Llm!Retry, Llm!Succeed, Llm!GiveUp, Llm!Reject, Llm!GivenUp
  <2> QED BY <2>1, AnalysisAssumption DEF Llm!Least
<1> QED BY <1>1, <1>2, <1>3, <1>4

LEMMA LlmElsewhere ==
  ASSUME LlmTypes, Llm!Tick \/ Llm!Provider
  PROVE  LlmTypes' /\ attempt' = attempt
BY AnalysisAssumption DEF LlmTypes, Llm!TypeOK, Llm!Tick, Llm!Provider, Llm!Least

-----------------------------------------------------------------------------
\* What the steps leave of the obligations' invariants, by what they change.
RunInv == RunTypes /\ RunShape
RowInv == RowTypes /\ Stored /\ Missing /\ Marked /\ Stale

\* A run r goes on from stage s to stage t.
Advances(r, s, t) ==
  \/ t = s
  \/ s = "ready" /\ t = "clear"
  \/ s = "extract" /\ t = "insert"
  \/ s = "insert" /\ t = "record" /\ Output(r) \subseteq written
  \/ t = "ended"

\* A run goes on without a change of the obligations, the text or the mark.
LEMMA GoingOn ==
  ASSUME RowInv, RunTypes, NEW r \in Runs, NEW t,
         Advances(r, stage[r], t), Goes(r, t),
         UNCHANGED <<contract, before, rowVars>>,
         \A q \in Runs : stage[q] \in {"record", "ended"} => answered'[q] = answered[q]
  PROVE  RowInv'
<1>1. /\ stage'[r] = t
      /\ \A q \in Runs \ {r} : stage'[q] = stage[q]
      /\ \A q \in Runs : Cleared(q) => stage'[q] \notin {"ready", "clear"}
      /\ \A q \in Runs : stage[q] = "ended" => stage'[q] = "ended"
      /\ \A q \in Runs : stage[q] = "record" => stage'[q] \in {"record", "ended"}
      /\ \A q \in Runs : stage'[q] \in {"ready", "clear", "extract"} =>
                         stage[q] \in {"ready", "clear", "extract"}
      /\ \A q \in Runs : stage'[q] = "record" => stage[q] = "record" \/ Output(q) \subseteq written
  BY DEF Goes, RunTypes, Advances
<1>2. RowTypes'
  BY DEF RowInv, RowTypes, rowVars
<1>3. Stored'
  BY <1>1 DEF RowInv, Stored, rowVars, Output
<1>4. Missing'
  BY <1>1 DEF RowInv, Missing, rowVars, Output
<1>5. Marked'
  BY <1>1 DEF RowInv, Marked, rowVars, Output
<1>6. Stale'
  BY <1>1 DEF RowInv, Stale, StaleOutputIsGone, rowVars, Output, RunTypes
<1> QED BY <1>2, <1>3, <1>4, <1>5, <1>6 DEF RowInv

\* No run moves, and neither do the rows, the text or the mark.
LEMMA StandStill ==
  ASSUME RowInv, UNCHANGED <<contract, stage, answered, before, rowVars>>
  PROVE  RowInv'
BY DEF RowInv, RowTypes, Stored, Missing, Marked, Stale, StaleOutputIsGone, rowVars, Output

-----------------------------------------------------------------------------
\* The steps of a run.
LEMMA AskInv ==
  ASSUME RunInv, RowInv, NEW w \in Work, NEW n \in {1, Attempts}, Ask(w, n)
  PROVE  RunInv' /\ RowInv'
<1>1. {w} \X (1 .. n) \subseteq RunsOf(w)
  BY BudgetAssumption DEF RunsOf
<1>2. RunTypes' /\ RunShape'
  BY <1>1 DEF RunInv, RunTypes, RunShape, Ask, Admit, runVars, llmVars
<1>3. RowInv'
  BY StandStill DEF Ask, runVars
<1> QED BY <1>2, <1>3 DEF RunInv

LEMMA BeginInv ==
  ASSUME RunInv, RowInv, NEW r \in Runs, Begin(r)
  PROVE  RunInv' /\ RowInv'
<1>1. stage[r] = "ready" /\ r \notin running
  BY DEF Begin, Start, Skip, RunInv, RunTypes, RunShape
<1>2. RunTypes' /\ RunShape'
  <2>1. CASE contract = "text"
    BY <1>1, <2>1 DEF RunInv, RunTypes, RunShape, Begin, Start, Goes, llmVars
  <2>2. CASE contract # "text"
    BY <1>1, <2>2, AnalysisAssumption DEF RunInv, RunTypes, RunShape, Begin, Skip, Goes, llmVars
  <2> QED BY <2>1, <2>2
<1>3. RowInv'
  <2>1. PICK t \in {"clear", "ended"} : Goes(r, t)
    BY DEF Begin
  <2> QED BY <1>1, <2>1, GoingOn DEF Begin, Advances, RunInv
<1> QED BY <1>2, <1>3 DEF RunInv

\* The deletion: nothing was written by r, and what is left of the ended runs
\* is off open, so edited.
LEMMA ClearInv ==
  ASSUME RunInv, RowInv, NEW r \in Runs, Clear(r)
  PROVE  RunInv' /\ RowInv'
<1>1. /\ stage[r] = "clear" /\ stage'[r] = "extract"
      /\ \A q \in Runs \ {r} : stage'[q] = stage[q]
  BY DEF Clear, Goes, RunInv, RunTypes
<1>2. RunTypes' /\ RunShape'
  BY <1>1, AnalysisAssumption DEF RunInv, RunTypes, RunShape, Clear, Goes, Ended, vars, llmVars
<1>3. RowTypes'
  BY DEF RowInv, RowTypes, Clear, Removed
<1>4. Stored'
  BY <1>1 DEF RowInv, Stored, Clear, Output
<1>5. Missing'
  BY <1>1 DEF RowInv, Missing, Stored, Clear, Removed, Output
<1>6. Marked'
  BY <1>1 DEF RowInv, Marked, Clear, Output
<1>7. Stale'
  <2>1. before' = [before EXCEPT ![r] = Ended] /\ before \in [Runs -> SUBSET Runs]
    BY DEF Clear, RunInv, RunTypes
  <2>2. ASSUME NEW p \in Runs, NEW q \in before'[p] PROVE stage'[q] = "ended"
    BY <1>1, <2>1, <2>2 DEF RowInv, Stale, Ended
  <2>3. ASSUME NEW p \in Runs, NEW q \in before'[p], NEW o \in Output(q) \cap rows'
        PROVE  o \in edited'
    <3>1. q \in Runs
      BY <2>1, <2>3 DEF Ended
    <3>2. o \in Extracted
      BY <2>3, <3>1 DEF Output, Extracted
    <3>3. o \in moved /\ o \notin Extracted \ moved
      BY <2>3, <3>2 DEF Clear, Removed
    <3> QED BY <3>3 DEF Clear, Removed, RowInv, RowTypes
  <2>4. \A q : Output(q)' = Output(q)
    BY DEF Output
  <2> QED BY <2>2, <2>3, <2>4 DEF Stale, StaleOutputIsGone
<1> QED BY <1>2, <1>3, <1>4, <1>5, <1>6, <1>7 DEF RunInv, RowInv

LEMMA CallInv ==
  ASSUME LlmTypes, RunInv, RowInv, NEW r \in Runs, Call(r) \/ Again(r)
  PROVE  RunInv' /\ RowInv'
<1>1. stage[r] = "extract" /\ \A q \in Runs \ {r} : attempt'[q] = attempt[q]
  <2>1. Llm!Retry(r) => attempt[r] > 0
    BY DEF Llm!Retry
  <2>2. attempt[r] > 0 => stage[r] = "extract"
    BY DEF RunInv, RunTypes
  <2> QED BY <2>1, <2>2, LlmStep DEF Call, Again
<1>2. RunTypes' /\ RunShape'
  BY <1>1 DEF RunInv, RunTypes, RunShape, Call, Again, vars, runVars
<1>3. RowInv'
  BY StandStill DEF Call, Again, runVars
<1> QED BY <1>2, <1>3 DEF RunInv

\* A section is done with: answered or not.
LEMMA SectionInv ==
  ASSUME LlmTypes, RunInv, RowInv, NEW r \in Runs, Answered(r) \/ SectionFails(r)
  PROVE  RunInv' /\ RowInv'
<1>1. stage[r] = "extract" /\ tried[r] < MaxTokens /\ tried[r] \in Nat /\ answered[r] \in Nat
  <2>1. Llm!Succeed(r) \/ Llm!GiveUp(r) \/ Llm!Reject(r) => attempt[r] > 0
    BY AnalysisAssumption DEF Llm!Succeed, Llm!GiveUp, Llm!Reject, Llm!Idle, LlmTypes, Llm!TypeOK
  <2>2. stage[r] = "extract"
    BY <2>1 DEF Answered, SectionFails, RunInv, RunTypes
  <2> QED BY <2>2 DEF RunInv, RunTypes, RunShape
<1>2. PICK n \in {tried[r] + 1, MaxTokens} : SectionsDone(r, n)
  BY DEF Answered, SectionFails
<1>3. /\ n \in 1 .. MaxTokens /\ tried[r] + 1 <= n
      /\ tried' = [tried EXCEPT ![r] = n]
  BY <1>1, <1>2, BudgetAssumption DEF SectionsDone
<1>4. /\ answered' \in [Runs -> 0 .. MaxTokens]
      /\ answered'[r] <= n
      /\ \A q \in Runs \ {r} : answered'[q] = answered[q]
  <2>1. answered' = answered \/ answered' = [answered EXCEPT ![r] = @ + 1]
    BY DEF Answered, SectionFails
  <2>2. answered \in [Runs -> 0 .. MaxTokens] /\ answered[r] <= tried[r]
    BY DEF RunInv, RunTypes
  <2> QED BY <1>1, <1>3, <2>1, <2>2, BudgetAssumption
<1>5. /\ attempt'[r] = 0
      /\ \A q \in Runs \ {r} : attempt'[q] = attempt[q]
  <2>1. \/ Llm!Succeed(r) \/ Llm!GiveUp(r) \/ Llm!Reject(r)
        \/ UNCHANGED llmVars /\ attempt[r] = 0
    BY DEF Answered, SectionFails, Llm!Idle
  <2>2. CASE Llm!Succeed(r) \/ Llm!GiveUp(r) \/ Llm!Reject(r)
    BY <2>2, LlmStep
  <2>3. CASE UNCHANGED llmVars /\ attempt[r] = 0
    BY <2>3 DEF llmVars
  <2> QED BY <2>1, <2>2, <2>3
<1>6. \/ n < MaxTokens /\ UNCHANGED <<used, due, running, stage>>
      \/ n = MaxTokens /\ answered'[r] > 0 /\ Goes(r, "insert") /\ UNCHANGED <<used, due, running>>
      \/ n = MaxTokens /\ Goes(r, "ended") /\ Unrecorded(r)
  <2>1. CASE n < MaxTokens
    BY <1>2, <2>1 DEF SectionsDone, vars
  <2>2. CASE n = MaxTokens /\ answered'[r] > 0
    BY <1>2, <2>2, BudgetAssumption DEF SectionsDone, vars
  <2>3. CASE n = MaxTokens /\ ~(answered'[r] > 0)
    BY <1>2, <2>3, BudgetAssumption DEF SectionsDone, vars
  <2> QED BY <1>3, <2>1, <2>2, <2>3, BudgetAssumption
<1>7. UNCHANGED <<contract, before, rowVars>>
  BY DEF Answered, SectionFails
<1>8. /\ tried' \in [Runs -> 0 .. MaxTokens]
      /\ \A q \in Runs : answered'[q] <= tried'[q]
      /\ \A q \in Runs \ {r} : tried'[q] = tried[q]
      /\ tried'[r] = n
  BY <1>3, <1>4 DEF RunInv, RunTypes
<1>9. RunTypes' /\ RunShape'
  <2>1. CASE n < MaxTokens /\ UNCHANGED <<used, due, running, stage>>
    <3>1. RunTypes'
      BY <1>1, <1>4, <1>5, <1>7, <1>8, <2>1 DEF RunInv, RunTypes
    <3>2. RunShape'
      BY <1>1, <1>4, <1>8, <2>1 DEF RunInv, RunTypes, RunShape
    <3> QED BY <3>1, <3>2
  <2>2. CASE n = MaxTokens /\ answered'[r] > 0 /\ Goes(r, "insert") /\ UNCHANGED <<used, due, running>>
    <3>1. RunTypes'
      BY <1>1, <1>4, <1>5, <1>7, <1>8, <2>2 DEF RunInv, RunTypes, Goes
    <3>2. RunShape'
      BY <1>1, <1>3, <1>4, <1>8, <2>2 DEF RunInv, RunTypes, RunShape, Goes
    <3> QED BY <3>1, <3>2
  <2>3. CASE n = MaxTokens /\ Goes(r, "ended") /\ Unrecorded(r)
    <3>1. RunTypes'
      BY <1>1, <1>4, <1>5, <1>7, <1>8, <2>3 DEF RunInv, RunTypes, Goes, Unrecorded
    <3>2. RunShape'
      BY <1>1, <1>3, <1>4, <1>8, <2>3 DEF RunInv, RunTypes, RunShape, Goes, Unrecorded
    <3> QED BY <3>1, <3>2
  <2> QED BY <1>6, <2>1, <2>2, <2>3
<1>10. RowInv'
  <2>1. PICK t \in {"extract", "insert", "ended"} : Goes(r, t)
    BY <1>1, <1>6 DEF Goes, RunInv, RunTypes
  <2>2. \A q \in Runs : stage[q] \in {"record", "ended"} => answered'[q] = answered[q]
    BY <1>1, <1>4
  <2> QED BY <1>1, <1>7, <2>1, <2>2, GoingOn DEF Advances, RunInv
<1> QED BY <1>9, <1>10 DEF RunInv

LEMMA InsertInv ==
  ASSUME RunInv, RowInv, NEW r \in Runs, NEW d \in Drafts, Insert(r, d)
  PROVE  RunInv' /\ RowInv'
<1>1. RunTypes' /\ RunShape'
  BY DEF RunInv, RunTypes, RunShape, Insert, vars, runVars, llmVars
<1>2. RowTypes'
  BY DEF RowInv, RowTypes, Insert, Rows, Extracted
<1>3. \A q : q # r => <<r, d>> \notin Output(q)
  BY DEF Output
<1>4. Stored'
  BY <1>3 DEF RowInv, Stored, Insert, runVars, Output
<1>5. Missing' /\ Marked'
  BY <1>3 DEF RowInv, Missing, Marked, Insert, runVars, Output
<1>6. Stale'
  <2>1. stage[r] = "insert" /\ UNCHANGED <<stage, before, edited>> /\ rows' = rows \cup {<<r, d>>}
    BY DEF Insert, runVars
  <2>2. ASSUME NEW p \in Runs, NEW q \in before[p], NEW o \in Output(q) \cap rows'
        PROVE  o \in edited
    <3>1. q # r
      BY <2>1 DEF RowInv, Stale
    <3> QED BY <1>3, <2>1, <2>2, <3>1 DEF RowInv, Stale, StaleOutputIsGone
  <2> QED BY <2>1, <2>2 DEF RowInv, Stale, StaleOutputIsGone, Output
<1> QED BY <1>1, <1>2, <1>4, <1>5, <1>6 DEF RunInv, RowInv

\* Every draft was inserted; what is missing again was explained before.
LEMMA MarkInv ==
  ASSUME RunInv, RowInv, NEW r \in Runs, Mark(r)
  PROVE  RunInv' /\ RowInv'
<1>1. /\ stage[r] = "insert" /\ stage'[r] = "record" /\ Output(r) \subseteq written
      /\ \A q \in Runs \ {r} : stage'[q] = stage[q]
  BY DEF Mark, Goes, RunInv, RunTypes
<1>2. RunTypes' /\ RunShape'
  BY <1>1 DEF RunInv, RunTypes, RunShape, Mark, Goes, vars, llmVars
<1>3. RowTypes'
  BY DEF RowInv, RowTypes, Mark
<1>4. Stored' /\ Missing'
  BY <1>1 DEF RowInv, Stored, Missing, Mark, Output
<1>5. Marked'
  <2>1. CASE contract = "gone"
    BY <1>1, <2>1 DEF RowInv, Marked, Mark, Output
  <2>2. CASE contract # "gone"
    <3>1. answered[r] > 0
      BY <1>1 DEF RunInv, RunShape
    <3> QED BY <1>1, <2>2, <3>1 DEF Marked, Mark, Output
  <2> QED BY <2>1, <2>2
<1>6. Stale'
  <2>1. UNCHANGED <<before, rows, edited>>
    BY DEF Mark
  <2>2. StaleOutputIsGone'
    BY <2>1 DEF RowInv, Stale, StaleOutputIsGone, Output
  <2>3. ASSUME NEW p \in Runs, NEW q \in before[p] PROVE stage'[q] = "ended"
    <3>1. q \in Runs /\ stage[q] = "ended"
      BY <2>3 DEF RunInv, RunTypes, RowInv, Stale
    <3> QED BY <1>1, <3>1
  <2> QED BY <2>1, <2>2, <2>3 DEF Stale
<1> QED BY <1>2, <1>3, <1>4, <1>5, <1>6 DEF RunInv, RowInv

\* A run ends: it is charged, or fails.
LEMMA EndInv ==
  ASSUME LlmTypes, RunInv, RowInv, NEW r \in Runs, Bill(r) \/ Fail(r)
  PROVE  RunInv' /\ RowInv'
<1>1. /\ r \in running /\ running' = running \ {r} /\ due' = due
      /\ Goes(r, "ended")
      /\ UNCHANGED <<contract, tried, answered, before, rowVars>>
  BY DEF Bill, Fail, Record, Unrecorded
<1>2. attempt'[r] = 0 /\ \A q \in Runs \ {r} : attempt'[q] = attempt[q]
  <2>1. CASE Bill(r)
    <3>1. attempt' = attempt /\ ~(attempt[r] > 0)
      BY <2>1 DEF Bill, llmVars, RunInv, RunTypes
    <3>2. attempt[r] \in Nat
      BY AnalysisAssumption DEF LlmTypes, Llm!TypeOK
    <3> QED BY <3>1, <3>2
  <2>2. CASE Fail(r) /\ Llm!Idle(r)
    BY <2>2 DEF Fail, llmVars, Llm!Idle
  <2>3. CASE Fail(r) /\ ~Llm!Idle(r)
    BY <2>3, LlmStep DEF Fail
  <2> QED BY <2>1, <2>2, <2>3
<1>3. RunTypes' /\ RunShape'
  BY <1>1, <1>2 DEF RunInv, RunTypes, RunShape, Goes
<1>4. RowInv'
  BY <1>1, GoingOn DEF Advances, RunInv
<1> QED BY <1>3, <1>4 DEF RunInv

-----------------------------------------------------------------------------
\* The steps of people, and what happens elsewhere.
LEMMA PeopleInv ==
  ASSUME RunInv, RowInv, NEW o \in Rows, Write(o) \/ Update(o) \/ Dismiss(o)
  PROVE  RunInv' /\ RowInv'
<1>1. RunTypes' /\ RunShape'
  BY DEF RunInv, RunTypes, RunShape, Write, Update, Dismiss, vars, runVars, llmVars
<1>2. RowTypes'
  BY DEF RowInv, RowTypes, Write, Update, Dismiss, Removed
<1>3. ASSUME NEW r \in Runs, Write(o) PROVE o \notin Output(r)
  <2>1. Output(r) \subseteq Runs \X Drafts
    BY DEF Output
  <2> QED BY <1>3, <2>1, AnalysisAssumption DEF Write
<1>4. Stored' /\ Marked'
  BY <1>3 DEF RowInv, Stored, Marked, Write, Update, Dismiss, runVars, Output
<1>5. Missing'
  BY <1>3 DEF RowInv, Missing, Write, Update, Dismiss, Removed, runVars, Output
<1>6. Stale'
  BY DEF RowInv, Stale, StaleOutputIsGone, Write, Update, Dismiss, Removed, runVars, Output
<1> QED BY <1>1, <1>2, <1>4, <1>5, <1>6 DEF RunInv, RowInv

LEMMA ContractInv ==
  ASSUME RunInv, RowInv, EditText \/ DeleteContract
  PROVE  RunInv' /\ RowInv'
<1>1. RunTypes' /\ RunShape'
  BY DEF RunInv, RunTypes, RunShape, EditText, DeleteContract, vars, runVars, llmVars
<1>2. RowTypes'
  BY DEF RowInv, RowTypes, EditText, DeleteContract, Removed, rowVars
<1>3. Stored' /\ Missing' /\ Marked'
  BY DEF RowInv, Stored, Missing, Marked, EditText, DeleteContract, Removed, runVars, rowVars, Output
<1>4. Stale'
  BY DEF RowInv, Stale, StaleOutputIsGone, EditText, DeleteContract, Removed, runVars, rowVars, Output
<1> QED BY <1>1, <1>2, <1>3, <1>4 DEF RunInv, RowInv

LEMMA ElsewhereInv ==
  ASSUME LlmTypes, RunInv, RowInv, Elsewhere
  PROVE  RunInv' /\ RowInv'
<1>1. UNCHANGED <<contract, runVars, rowVars, running, attempt>> /\ due' \subseteq due
  <2>1. CASE Llm!Tick \/ Llm!Provider
    BY <2>1, LlmElsewhere DEF Elsewhere, vars, Llm!Tick, Llm!Provider, llmVars, Settle, NewMonth
  <2>2. CASE ~(Llm!Tick \/ Llm!Provider)
    BY <2>2 DEF Elsewhere, Settle, NewMonth, llmVars
  <2> QED BY <2>1, <2>2
<1>2. RunTypes' /\ RunShape'
  BY <1>1 DEF RunInv, RunTypes, RunShape, runVars
<1>3. RowInv'
  BY <1>1, StandStill DEF runVars
<1> QED BY <1>2, <1>3 DEF RunInv

-----------------------------------------------------------------------------
\* The provider's types, for every step.
LEMMA LlmInv ==
  ASSUME LlmTypes, [AnalysisNext]_allVars
  PROVE  LlmTypes'
<1>1. ASSUME NEW r \in Runs, Call(r) \/ Again(r) \/ Answered(r) PROVE LlmTypes'
  BY <1>1, LlmStep DEF Call, Again, Answered
<1>2. ASSUME UNCHANGED llmVars PROVE LlmTypes'
  BY <1>2 DEF LlmTypes, Llm!TypeOK, llmVars
<1>3. ASSUME NEW r \in Runs, SectionFails(r) \/ Fail(r) PROVE LlmTypes'
  <2>1. UNCHANGED llmVars \/ Llm!GiveUp(r) \/ Llm!Reject(r)
    BY <1>3 DEF SectionFails, Fail
  <2> QED BY <1>2, <2>1, LlmStep
<1>4. ASSUME NEW w \in Work, NEW n \in {1, Attempts}, Ask(w, n) PROVE UNCHANGED llmVars
  BY <1>4 DEF Ask
<1>5. ASSUME NEW r \in Runs,
             Begin(r) \/ Clear(r) \/ Mark(r) \/ Bill(r) \/ \E d \in Drafts : Insert(r, d)
      PROVE  UNCHANGED llmVars
  BY <1>5 DEF Begin, Clear, Mark, Bill, Insert
<1>6. ASSUME NEW o \in Rows, Write(o) \/ Update(o) \/ Dismiss(o) PROVE UNCHANGED llmVars
  BY <1>6 DEF Write, Update, Dismiss
<1>7. ASSUME EditText \/ DeleteContract \/ UNCHANGED allVars PROVE UNCHANGED llmVars
  BY <1>7 DEF EditText, DeleteContract, allVars
<1>8. ASSUME Elsewhere PROVE LlmTypes'
  BY <1>2, <1>8, LlmElsewhere DEF Elsewhere
<1> QED
  BY <1>1, <1>2, <1>3, <1>4, <1>5, <1>6, <1>7, <1>8 DEF AnalysisNext, RunStep

-----------------------------------------------------------------------------
LEMMA AInvInit == AnalysisInit => AInv
<1> SUFFICES ASSUME AnalysisInit PROVE AInv
  OBVIOUS
<1>1. IInv
  BY InitIInv DEF AnalysisInit
<1>2. LlmTypes
  <2>1. Llm!Init
    BY DEF AnalysisInit
  <2>2. /\ 0 \in 0 .. MaxAttempts /\ 0 \in 0 .. Threshold
        /\ 0 \in 0 .. Recovery /\ Recovery \in 0 .. Recovery
    BY AnalysisAssumption
  <2> QED BY <2>1, <2>2 DEF Llm!Init, LlmTypes, Llm!TypeOK
<1>3. RunTypes
  <2>1. running = {} /\ attempt = [r \in Runs |-> 0]
    BY DEF AnalysisInit, Init, Llm!Init
  <2> QED BY <2>1, BudgetAssumption, AnalysisAssumption DEF AnalysisInit, RunTypes
<1>4. RowTypes
  BY DEF AnalysisInit, RowTypes
<1>5. RunShape
  BY BudgetAssumption, AnalysisAssumption DEF AnalysisInit, RunShape
<1>6. Stored /\ Missing /\ Marked
  BY DEF AnalysisInit, Stored, Missing, Marked, Output
<1>7. Stale
  BY DEF AnalysisInit, Stale, StaleOutputIsGone
<1> QED BY <1>1, <1>2, <1>3, <1>4, <1>5, <1>6, <1>7 DEF AInv

LEMMA AInvNext ==
  ASSUME AInv, [AnalysisNext]_allVars
  PROVE  AInv'
<1> USE DEF AInv
<1>1. IInv'
  BY StepTakes, NextIInv
<1>2. LlmTypes'
  BY LlmInv
<1>3. RunInv /\ RowInv
  BY DEF RunInv, RowInv
<1>4. RunInv' /\ RowInv'
  <2>1. ASSUME NEW w \in Work, NEW n \in {1, Attempts}, Ask(w, n) PROVE RunInv' /\ RowInv'
    BY <1>3, <2>1, AskInv
  <2>2. ASSUME NEW r \in Runs, RunStep(r) PROVE RunInv' /\ RowInv'
    BY <1>3, <2>2, BeginInv, ClearInv, CallInv, SectionInv, InsertInv, MarkInv, EndInv
       DEF RunStep
  <2>3. ASSUME NEW o \in Rows, Write(o) \/ Update(o) \/ Dismiss(o) PROVE RunInv' /\ RowInv'
    BY <1>3, <2>3, PeopleInv
  <2>4. ASSUME EditText \/ DeleteContract PROVE RunInv' /\ RowInv'
    BY <1>3, <2>4, ContractInv
  <2>5. ASSUME Elsewhere PROVE RunInv' /\ RowInv'
    BY <1>3, <2>5, ElsewhereInv
  <2>6. ASSUME UNCHANGED allVars PROVE RunInv' /\ RowInv'
    <3>1. RunTypes' /\ RunShape'
      BY <2>6 DEF allVars, vars, runVars, llmVars, RunTypes, RunShape
    <3>2. RowInv'
      BY <1>3, <2>6, StandStill DEF allVars, runVars
    <3> QED BY <3>1, <3>2 DEF RunInv
  <2> QED BY <2>1, <2>2, <2>3, <2>4, <2>5, <2>6 DEF AnalysisNext
<1> QED BY <1>1, <1>2, <1>4 DEF RunInv, RowInv

LEMMA AInvAlways == AnalysisSpec => []AInv
<1>1. AInv /\ [AnalysisNext]_allVars => AInv'
  BY AInvNext
<1> QED BY AInvInit, <1>1, PTL DEF AnalysisSpec

-----------------------------------------------------------------------------
\* Analyses take from the tenant's allowance only as AiBudget describes
\* (_enforce_ai_budget, analyze_contract): for any number of runs, sections
\* and settings of the provider.
THEOREM AnalysesUseTheAllowance == AnalysisSpec => UsesAllowance
<1>1. AnalysisInit => Init
  BY DEF AnalysisInit
<1>2. AInv /\ [AnalysisNext]_allVars => [Next]_vars
  BY StepTakes DEF AInv
<1> QED BY AInvAlways, <1>1, <1>2, PTL DEF AnalysisSpec, UsesAllowance, Spec

\* last_analyzed_at is only set when the model answered a section and every
\* obligation was stored, and those that are missing were deleted by a person
\* or a later run (analysis.py:76-121); and the types.
THEOREM AnalyzedRunsAreStored == AnalysisSpec => []AnalysisInv
<1>1. AInv => AnalysisTypeOK
  <2>1. IInv => TypeOK
    BY DEF IInv
  <2> QED BY <2>1 DEF AInv, AnalysisTypeOK, LlmTypes, RunTypes, RowTypes
<1>2. AInv => AnalyzedMeansStored
  BY DEF AInv, Marked, Missing, AnalyzedMeansStored
<1>3. AInv => StaleOutputIsGone
  BY DEF AInv, Stale
<1>4. AInv => AnalysisInv
  BY <1>1, <1>2, <1>3 DEF AnalysisInv
<1> QED BY AInvAlways, <1>4, PTL

\* Once a run has cleared the contract, nothing untouched of the runs that had
\* ended is left or reappears (analysis.py:74), with any runs overlapping.
THEOREM EarlierOutputIsGone == AnalysisSpec => []StaleOutputIsGone
<1>1. AInv => StaleOutputIsGone
  BY DEF AInv, Stale
<1> QED BY AInvAlways, <1>1, PTL

\* What a person wrote or took off open goes only by a person's deletion
\* (repository.py:303).
THEOREM EffortIsKept == AnalysisSpec => HumanWorkSurvives
<1>1. ASSUME AInv, [AnalysisNext]_allVars PROVE EffortStays
  <2>1. moved \subseteq rows
    BY <1>1 DEF AInv, RowTypes
  <2>2. ASSUME rows \subseteq rows' PROVE EffortStays
    BY <2>1, <2>2 DEF EffortStays
  <2>3. ASSUME NEW w \in Work, NEW n \in {1, Attempts}, Ask(w, n) PROVE EffortStays
    BY <2>2, <2>3 DEF Ask, rowVars
  <2>4. ASSUME NEW r \in Runs, Clear(r) PROVE EffortStays
    <3>1. rows' = rows \ (Extracted \ moved) /\ Manual \cap Extracted = {}
      BY <2>4, AnalysisAssumption DEF Clear, Removed, Extracted
    <3> QED BY <2>1, <3>1 DEF EffortStays
  <2>5. ASSUME NEW r \in Runs, RunStep(r), ~Clear(r) PROVE EffortStays
    <3>1. rows \subseteq rows'
      BY <2>5 DEF RunStep, Begin, Call, Again, Answered, SectionFails, Insert, Mark, Bill, Fail,
                  rowVars
    <3> QED BY <2>2, <3>1
  <2>6. ASSUME NEW o \in Rows, Write(o) \/ Update(o) PROVE EffortStays
    BY <2>2, <2>6 DEF Write, Update
  <2>7. ASSUME NEW o \in Rows, Dismiss(o) PROVE EffortStays
    <3>1. rows' = rows \ {o} /\ o \in dismissed'
      BY <2>7 DEF Dismiss, Removed
    <3> QED BY <2>1, <3>1 DEF EffortStays
  <2>8. ASSUME EditText \/ Elsewhere \/ UNCHANGED allVars PROVE EffortStays
    BY <2>2, <2>8 DEF EditText, Elsewhere, allVars, rowVars
  <2>9. ASSUME DeleteContract PROVE EffortStays
    BY <2>9 DEF DeleteContract, EffortStays
  <2> QED BY <1>1, <2>3, <2>4, <2>5, <2>6, <2>7, <2>8, <2>9 DEF AnalysisNext
<1>2. AInv /\ [AnalysisNext]_allVars => [EffortStays]_allVars
  BY <1>1
<1> QED BY AInvAlways, <1>2, PTL DEF AnalysisSpec, HumanWorkSurvives

\* The counter grows by what the answers of a run cost whose obligations were
\* all stored (analysis.py:76-121).
THEOREM ChargedRunsAreStored == AnalysisSpec => PaidMeansStored
<1>1. ASSUME AInv, [AnalysisNext]_allVars PROVE ChargesAreForResults
  <2>1. ASSUME NEW r \in Runs, Bill(r) PROVE ChargesAreForResults
    <3>1. /\ r \in running \ running' /\ used' = used + answered[r]
          /\ stage[r] = "record"
      BY <2>1 DEF Bill, Record
    <3>2. Output(r) \subseteq written
      BY <1>1, <3>1 DEF AInv, Stored
    <3> QED BY <3>1, <3>2 DEF ChargesAreForResults
  <2>2. ASSUME ~(used' > used) PROVE ChargesAreForResults
    BY <2>2 DEF ChargesAreForResults
  <2>3. used \in Nat
    BY <1>1 DEF AInv, IInv, TypeOK
  <2>4. CASE \E r \in Runs : Bill(r)
    BY <2>1, <2>4
  <2>5. CASE ~ \E r \in Runs : Bill(r)
    <3>1. used' = used \/ used' = 0
      <4>1. ASSUME NEW w \in Work, NEW n \in {1, Attempts}, Ask(w, n) PROVE used' = used
        BY <4>1 DEF Ask, Admit
      <4>2. ASSUME NEW r \in Runs, RunStep(r) PROVE used' = used
        BY <2>5, <4>2 DEF RunStep, Begin, Start, Skip, Clear, Call, Again, Answered,
              SectionFails, SectionsDone, Unrecorded, Insert, Mark, Fail, vars
      <4>3. ASSUME NEW o \in Rows, Write(o) \/ Update(o) \/ Dismiss(o) PROVE used' = used
        BY <4>3 DEF Write, Update, Dismiss, vars
      <4>4. ASSUME EditText \/ DeleteContract \/ UNCHANGED allVars PROVE used' = used
        BY <4>4 DEF EditText, DeleteContract, allVars, vars
      <4>5. ASSUME Elsewhere PROVE used' = used \/ used' = 0
        BY <4>5 DEF Elsewhere, Settle, NewMonth, vars
      <4> QED BY <1>1, <4>1, <4>2, <4>3, <4>4, <4>5 DEF AnalysisNext
    <3> QED BY <2>2, <2>3, <3>1
  <2> QED BY <2>4, <2>5
<1>2. AInv /\ [AnalysisNext]_allVars => [ChargesAreForResults]_allVars
  BY <1>1
<1> QED BY AInvAlways, <1>2, PTL DEF AnalysisSpec, PaidMeansStored

-----------------------------------------------------------------------------
\* What a request knows, by its step.
TaskKnows(t) ==
  /\ t.step # "record" => t.entry = Nothing
  /\ t.step = "record" => t.entry \in Entries
  /\ t.step \in {"edit", "unfile", "add"} => t.of \in Filings
  /\ t.step = "move" => t.of \in Duties /\ t.status \in Statuses

Tasks == [step : Steps, of : Things \cup {Nothing}, status : Statuses \cup {Nothing},
          entry : Entries \cup {Nothing}]

FilingShapes ==
  /\ IsFiniteSet(filed) /\ filed \subseteq Filings \cap taken
  /\ duty \in [Duties -> Kept \cup {Nothing}]
  /\ trail \subseteq Entries
  /\ task \in [Clerks -> Tasks] /\ \A c \in Clerks : TaskKnows(task[c])
  /\ acts \in 0 .. ActMax /\ lost \subseteq Things
  /\ taken \subseteq Filings \cup (Duties \X Filings)

\* An obligation is of one contract for good, and of one there is.
EachOfOneContract ==
  /\ \A o \in Duties, k, n \in Filings : <<o, k>> \in taken /\ <<o, n>> \in taken => k = n
  /\ \A o \in Duties : duty[o] # Nothing =>
       <<o, duty[o].contract>> \in taken /\ duty[o].contract \in filed

\* The entries there are, and those that are about to be written.
Said == trail \cup ({task[c].entry : c \in Clerks} \ {Nothing})

DeletionsLast ==
  \A e \in Said : e.what = "deleted" =>
    /\ e.of \in Filings => e.of \in taken /\ e.of \notin filed
    /\ e.of \in Duties => e.of \in Given /\ duty[e.of] = Nothing

\* Requests that have counted the contracts and are about to add one.
AboutToFile == {c \in Clerks : Does(c, "file")}

FiledAreCounted ==
  Cardinality(filed) + Cardinality(AboutToFile) <= ContractsMax + Cardinality(Clerks) - 1

\* The inductive invariant of ContractFiling.
FilingIndInv ==
  /\ FilingShapes /\ EachOfOneContract /\ DeletionsLast /\ FiledAreCounted /\ TrailExplainsRows

-----------------------------------------------------------------------------
LEMMA ObligationsGiven ==
  ASSUME NEW T, T \subseteq Filings \cup (Duties \X Filings)
  PROVE  {p[1] : p \in T \ Filings} = {o \in Duties : \E k \in Filings : <<o, k>> \in T}
  <1>1. ASSUME NEW p \in T \ Filings
        PROVE  p[1] \in Duties /\ \E k \in Filings : <<p[1], k>> \in T
    <2>1. p \in Duties \X Filings
      BY <1>1
    <2>2. p = <<p[1], p[2]>> /\ p[1] \in Duties /\ p[2] \in Filings
      BY <2>1
    <2> QED
      BY <2>2, <1>1
  <1>2. ASSUME NEW o \in Duties, NEW k \in Filings, <<o, k>> \in T
        PROVE  o \in {p[1] : p \in T \ Filings}
    <2>1. <<o, k>> \in Duties \X Filings
      OBVIOUS
    <2>2. <<o, k>> \in T \ Filings
      BY <1>2, <2>1, FilingAssumption
    <2>3. <<o, k>>[1] = o
      OBVIOUS
    <2> QED
      BY <2>2, <2>3
  <1> QED
    BY <1>1, <1>2

LEMMA TheContract ==
  ASSUME EachOfOneContract, NEW o \in Duties, NEW k \in Filings, <<o, k>> \in taken
  PROVE  OfContract(o) = k
  BY DEF EachOfOneContract, OfContract

\* What an entry told is told as long as it is not lost.
LEMMA ToldLasts ==
  ASSUME NEW what, NEW x, NEW to, Told(what, x, to), lost \subseteq lost',
         \A e \in Said : e \in Said' \/ e.of \in lost'
  PROVE  Told(what, x, to)'
  BY DEF Told, Said

LEMMA ToldBy ==
  ASSUME NEW what, NEW x, NEW to, NEW e \in Said', e.of = x, e.what \in what, e.to = to
  PROVE  Told(what, x, to)'
  BY DEF Told, Said

-----------------------------------------------------------------------------
\* One request moves to t.
Moves(c, t) == t \in Tasks /\ TaskKnows(t) /\ task' = [task EXCEPT ![c] = t]

\* A request that had no entry to write, and now may have one.
MovesWith(c, t) == ~Does(c, "record") /\ Moves(c, t) /\ UNCHANGED <<trail, lost>>

LEMMA TaskOf ==
  ASSUME FilingShapes, NEW c \in Clerks, NEW t, Moves(c, t)
  PROVE  /\ task' \in [Clerks -> Tasks] /\ \A d \in Clerks : TaskKnows(task'[d])
         /\ task'[c] = t /\ \A d \in Clerks : d # c => task'[d] = task[d]
  <1>1. task'[c] = t /\ \A d \in Clerks : d # c => task'[d] = task[d]
    BY DEF Moves, FilingShapes
  <1> QED
    BY <1>1 DEF Moves, FilingShapes

LEMMA EntriesMove ==
  ASSUME FilingShapes, NEW c \in Clerks, NEW t, MovesWith(c, t)
  PROVE  /\ lost' = lost /\ Said' = Said \cup ({t.entry} \ {Nothing})
         /\ t.step # "record" => Said' = Said
  <1>1. task'[c] = t /\ \A d \in Clerks : d # c => task'[d] = task[d]
    BY TaskOf DEF MovesWith
  <1>2. task[c].entry = Nothing
    BY DEF MovesWith, Does, FilingShapes, TaskKnows
  <1>3. trail' = trail /\ lost' = lost /\ (t.step # "record" => t.entry = Nothing)
    BY DEF MovesWith, Moves, TaskKnows
  <1>4. {task'[d].entry : d \in Clerks} \ {Nothing}
          = ({task[d].entry : d \in Clerks} \cup {t.entry}) \ {Nothing}
    <2>1. ASSUME NEW d \in Clerks PROVE task'[d].entry \in {task[b].entry : b \in Clerks} \cup {t.entry}
      BY <1>1
    <2>2. ASSUME NEW d \in Clerks, task[d].entry # Nothing
          PROVE  task[d].entry \in {task'[b].entry : b \in Clerks}
      BY <1>1, <1>2, <2>2
    <2>3. t.entry \in {task'[b].entry : b \in Clerks}
      BY <1>1
    <2> QED
      BY <2>1, <2>2, <2>3
  <1> QED
    BY <1>3, <1>4 DEF Said

LEMMA RestIsTask == Rest \in Tasks /\ TaskKnows(Rest) /\ Rest.step = "rest" /\ Rest.entry = Nothing
  BY DEF Rest, Tasks, TaskKnows, Steps

LEMMA RecordIsTask ==
  ASSUME NEW e \in Entries
  PROVE  LET t == [Rest EXCEPT !.step = "record", !.entry = e]
         IN t \in Tasks /\ TaskKnows(t) /\ t.step = "record" /\ t.entry = e
  BY DEF Rest, Tasks, TaskKnows, Steps

LEMMA EntryIsEntry ==
  ASSUME NEW what \in {"created", "updated", "deleted"}, NEW x \in Things,
         NEW from \in Statuses \cup {Nothing}, NEW to \in Statuses \cup {Nothing}
  PROVE  /\ Entry(what, x, from, to) \in Entries /\ Entry(what, x, from, to).what = what
         /\ Entry(what, x, from, to).of = x /\ Entry(what, x, from, to).to = to
         /\ Entry(what, x, from, to) # Nothing
  <1>1. Entry(what, x, from, to) \in Entries
    BY DEF Entry, Entries
  <1> QED
    BY <1>1, FilingAssumption DEF Entry

\* How a request moves that records e, or that ends.
LEMMA RecordsMoves ==
  ASSUME NEW c \in Clerks, ~Does(c, "record"), UNCHANGED <<trail, lost>>, NEW e \in Entries,
         Records(c, e)
  PROVE  \E t : MovesWith(c, t) /\ t.step = "record" /\ t.entry = e
  <1> DEFINE t == [Rest EXCEPT !.step = "record", !.entry = e]
  <1>1. t \in Tasks /\ TaskKnows(t) /\ t.step = "record" /\ t.entry = e
    BY RecordIsTask
  <1>2. task' = [task EXCEPT ![c] = t]
    BY DEF Records
  <1> HIDE DEF t
  <1> QED
    BY <1>1, <1>2 DEF MovesWith, Moves

LEMMA RestsMoves ==
  ASSUME NEW c \in Clerks, ~Does(c, "record"), UNCHANGED <<trail, lost>>, Rests(c)
  PROVE  \E t : MovesWith(c, t) /\ t.step = "rest" /\ t.entry = Nothing
  BY RestIsTask DEF Rests, MovesWith, Moves

\* The checks of a request, and the steps that change no row: one that ends, one
\* that is refused, and the updates of a contract, whose texts are not here.
Checks(c) ==
  \/ BeginContract(c) \/ UpdateContract(c)
  \/ \E k \in Filings :
       BeginUpdateContract(c, k) \/ BeginDeleteFiling(c, k) \/ BeginObligation(c, k)
  \/ \E o \in Duties : BeginUpdateObligation(c, o)

LEMMA ProceedsMoves ==
  ASSUME NEW c \in Clerks, NEW s, NEW x \in Things \cup {Nothing}, NEW read \in Statuses \cup {Nothing},
         s \in {"file", "edit", "unfile", "add", "move"},
         s \in {"edit", "unfile", "add"} => x \in Filings,
         s = "move" => x \in Duties /\ read \in Statuses,
         Proceeds(c, s, x, read)
  PROVE  /\ UNCHANGED <<filed, duty, taken>> /\ acts < ActMax /\ acts' = acts + 1
         /\ \E t : MovesWith(c, t) /\ t.step = s
  <1> DEFINE t == [Rest EXCEPT !.step = s, !.of = x, !.status = read]
  <1>1. t \in Tasks /\ TaskKnows(t) /\ t.step = s
    BY DEF Rest, Tasks, TaskKnows, Steps
  <1>2. task' = [task EXCEPT ![c] = t]
    BY DEF Proceeds
  <1> HIDE DEF t
  <1>3. ~Does(c, "record") /\ UNCHANGED <<filed, duty, trail, taken, lost>>
    BY DEF Proceeds, Does
  <1> QED
    BY <1>1, <1>2, <1>3 DEF MovesWith, Moves, Proceeds

LEMMA ChecksMove ==
  ASSUME FilingShapes, NEW c \in Clerks, Checks(c)
  PROVE  /\ UNCHANGED <<filed, duty, taken>> /\ acts' \in 0 .. ActMax
         /\ \E t : /\ MovesWith(c, t)
                   /\ t.step = "file" => Cardinality(filed) < ContractsMax
                   /\ t.step = "record" => t.entry.what = "updated"
  <1>a. acts < ActMax /\ acts' = acts + 1 => acts' \in 0 .. ActMax
    BY FilingAssumption DEF FilingShapes
  <1>1. CASE BeginContract(c)
    BY <1>1, <1>a, ProceedsMoves DEF BeginContract
  <1>2. CASE UpdateContract(c)
    <2> DEFINE e == Entry("updated", task[c].of, Nothing, Nothing)
    <2>1. /\ UNCHANGED <<filed, duty, taken, trail, lost>> /\ acts' = acts
          /\ ~Does(c, "record") /\ (Records(c, e) \/ Rests(c)) /\ task[c].of \in Things
      BY <1>2 DEF UpdateContract, Does, FilingShapes, TaskKnows, Things
    <2>2. e \in Entries /\ e.what = "updated"
      BY <2>1, EntryIsEntry
    <2> HIDE DEF e
    <2>3. CASE Records(c, e)
      BY <2>1, <2>2, <2>3, RecordsMoves DEF FilingShapes
    <2>4. CASE Rests(c)
      BY <2>1, <2>4, RestsMoves DEF FilingShapes
    <2> QED
      BY <2>1, <2>3, <2>4
  <1>3. ASSUME NEW k \in Filings, BeginUpdateContract(c, k) \/ BeginDeleteFiling(c, k) \/ BeginObligation(c, k)
        PROVE  /\ UNCHANGED <<filed, duty, taken>> /\ acts < ActMax /\ acts' = acts + 1
               /\ \E t : MovesWith(c, t) /\ t.step \in {"edit", "unfile", "add"}
    <2>1. \E s \in {"edit", "unfile", "add"} : Proceeds(c, s, k, Nothing)
      BY <1>3 DEF BeginUpdateContract, BeginDeleteFiling, BeginObligation
    <2> QED
      BY <2>1, ProceedsMoves DEF Things
  <1>4. ASSUME NEW o \in Duties, BeginUpdateObligation(c, o)
        PROVE  /\ UNCHANGED <<filed, duty, taken>> /\ acts < ActMax /\ acts' = acts + 1
               /\ \E t : MovesWith(c, t) /\ t.step = "move"
    <2>1. duty[o].status \in Statuses
      BY <1>4 DEF BeginUpdateObligation, FilingShapes, Kept
    <2> QED
      BY <1>4, <2>1, ProceedsMoves DEF BeginUpdateObligation, Things
  <1>5. ASSUME NEW k \in Filings, BeginUpdateContract(c, k) \/ BeginDeleteFiling(c, k) \/ BeginObligation(c, k)
        PROVE  /\ UNCHANGED <<filed, duty, taken>> /\ acts' \in 0 .. ActMax
               /\ \E t : MovesWith(c, t) /\ t.step # "file" /\ t.step # "record"
    <2>1. PICK t : MovesWith(c, t) /\ t.step \in {"edit", "unfile", "add"}
      BY <1>3, <1>5
    <2> QED
      BY <2>1, <1>3, <1>5, <1>a
  <1>6. ASSUME NEW o \in Duties, BeginUpdateObligation(c, o)
        PROVE  /\ UNCHANGED <<filed, duty, taken>> /\ acts' \in 0 .. ActMax
               /\ \E t : MovesWith(c, t) /\ t.step # "file" /\ t.step # "record"
    <2>1. PICK t : MovesWith(c, t) /\ t.step = "move"
      BY <1>4, <1>6
    <2> QED
      BY <2>1, <1>4, <1>6, <1>a
  <1> QED
    BY <1>1, <1>2, <1>5, <1>6 DEF Checks

-----------------------------------------------------------------------------
\* What the trail explains of one contract, and of one obligation.
ContractTold(k) == Told({IF k \in filed THEN "created" ELSE "deleted"}, k, Nothing)

DutyTold(o) ==
  \/ /\ duty[o] # Nothing /\ Told({"created"}, o, Nothing)
     /\ duty[o].status = duty[o].born \/ Told({"updated"}, o, duty[o].status)
  \/ duty[o] = Nothing /\ Told({"deleted"}, o, Nothing)
  \/ duty[o] = Nothing /\ Told({"deleted"}, OfContract(o), Nothing)

LEMMA RowsTold ==
  /\ TrailExplainsRows <=> /\ \A k \in taken \cap Filings : ContractTold(k)
                           /\ \A o \in Given : DutyTold(o)
  /\ TrailExplainsRows' <=> /\ \A k \in taken' \cap Filings : ContractTold(k)'
                            /\ \A o \in Given' : DutyTold(o)'
  BY DEF TrailExplainsRows, ContractTold, DutyTold

\* What was said is still said, or known to be lost.
Lasting == lost \subseteq lost' /\ \A e \in Said : e \in Said' \/ e.of \in lost'

LEMMA ContractStaysTold ==
  ASSUME NEW k, ContractTold(k), Lasting, (k \in filed') <=> (k \in filed)
  PROVE  ContractTold(k)'
  <1>1. PICK what : what = {IF k \in filed THEN "created" ELSE "deleted"}
    OBVIOUS
  <1>2. Told(what, k, Nothing)'
    BY <1>1, ToldLasts DEF ContractTold, Lasting
  <1>3. what = {IF k \in filed' THEN "created" ELSE "deleted"}
    BY <1>1
  <1> QED
    BY <1>2, <1>3 DEF ContractTold, Told

LEMMA DutyStaysTold ==
  ASSUME NEW o, DutyTold(o), Lasting, duty'[o] = duty[o], OfContract(o)' = OfContract(o)
  PROVE  DutyTold(o)'
  <1>1. PICK s, k : s = duty[o].status /\ k = OfContract(o)
    OBVIOUS
  <1>2. /\ Told({"created"}, o, Nothing) => Told({"created"}, o, Nothing)'
        /\ Told({"updated"}, o, s) => Told({"updated"}, o, s)'
    BY ToldLasts DEF Lasting
  <1>3. Told({"deleted"}, o, Nothing) => Told({"deleted"}, o, Nothing)'
    BY ToldLasts DEF Lasting
  <1>4. Told({"deleted"}, k, Nothing) => Told({"deleted"}, k, Nothing)'
    BY ToldLasts DEF Lasting
  <1>5. s = duty'[o].status /\ k = OfContract(o)'
    BY <1>1
  <1> QED
    BY <1>1, <1>2, <1>3, <1>4, <1>5 DEF DutyTold, Told

\* An obligation stays the contract's it was given to.
LEMMA ContractsStay ==
  ASSUME FilingShapes, EachOfOneContract, EachOfOneContract', taken \subseteq taken',
         NEW o \in Given
  PROVE  o \in Duties /\ OfContract(o)' = OfContract(o)
  <1>1. o \in Duties /\ \E k \in Filings : <<o, k>> \in taken
    BY ObligationsGiven DEF Given, FilingShapes
  <1>2. PICK k \in Filings : <<o, k>> \in taken
    BY <1>1
  <1>3. OfContract(o) = k
    BY <1>1, <1>2, TheContract
  <1>4. <<o, k>> \in taken' /\ \A n \in Filings : <<o, n>> \in taken' => n = k
    BY <1>1, <1>2 DEF EachOfOneContract
  <1>5. OfContract(o)' = k
    BY <1>4 DEF OfContract
  <1> QED
    BY <1>1, <1>3, <1>5

\* A step after which there are the same rows, and no deletion is said anew.
LEMMA SameRows ==
  ASSUME FilingIndInv, UNCHANGED <<filed, duty, taken>>, Lasting,
         \A e \in Said' : e \in Said \/ e.what # "deleted"
  PROVE  EachOfOneContract' /\ DeletionsLast' /\ TrailExplainsRows'
  <1>1. EachOfOneContract'
    BY DEF FilingIndInv, EachOfOneContract
  <1>2. DeletionsLast'
    BY DEF FilingIndInv, DeletionsLast, Given
  <1>3. TrailExplainsRows'
    <2>1. \A k \in taken' \cap Filings : ContractTold(k)'
      BY RowsTold, ContractStaysTold DEF FilingIndInv
    <2>2. Given' = Given /\ \A o \in Given : OfContract(o)' = OfContract(o) /\ duty'[o] = duty[o]
      BY DEF Given, OfContract
    <2>3. \A o \in Given' : DutyTold(o)'
      BY <2>2, RowsTold, DutyStaysTold DEF FilingIndInv
    <2> QED
      BY <2>1, <2>3, RowsTold
  <1> QED
    BY <1>1, <1>2, <1>3

-----------------------------------------------------------------------------
\* How many are about to file.
LEMMA FilersFinite ==
  /\ IsFiniteSet(AboutToFile) /\ Cardinality(AboutToFile) \in Nat
  /\ Cardinality(AboutToFile) <= Cardinality(Clerks) /\ Cardinality(Clerks) \in Nat
  /\ IsFiniteSet(AboutToFile') /\ Cardinality(AboutToFile') \in Nat
  /\ Cardinality(AboutToFile') <= Cardinality(Clerks)
  <1>1. AboutToFile \subseteq Clerks /\ AboutToFile' \subseteq Clerks
    BY DEF AboutToFile
  <1> QED
    BY <1>1, FS_Subset, FS_CardinalityType, FilingAssumption

\* A request that is not about to file afterwards makes them no more.
LEMMA FilersFewer ==
  ASSUME FilingShapes, NEW c \in Clerks, NEW t, Moves(c, t), t.step # "file"
  PROVE  /\ Cardinality(AboutToFile') <= Cardinality(AboutToFile)
         /\ Does(c, "file") => Cardinality(AboutToFile') + 1 <= Cardinality(AboutToFile)
  <1>1. AboutToFile' \subseteq AboutToFile \ {c}
    BY TaskOf DEF AboutToFile, Does
  <1>2. /\ Cardinality(AboutToFile \ {c}) = IF c \in AboutToFile THEN Cardinality(AboutToFile) - 1
                                            ELSE Cardinality(AboutToFile)
        /\ IsFiniteSet(AboutToFile \ {c})
    BY FilersFinite, FS_RemoveElement
  <1>3. Cardinality(AboutToFile') <= Cardinality(AboutToFile \ {c})
    BY <1>1, <1>2, FS_Subset
  <1>4. Does(c, "file") => c \in AboutToFile
    BY DEF AboutToFile
  <1>5. Cardinality(AboutToFile \ {c}) \in Nat
    BY <1>2, FS_CardinalityType
  <1> QED
    BY <1>2, <1>3, <1>4, <1>5, FilersFinite

-----------------------------------------------------------------------------
LEMMA ChecksKeep ==
  ASSUME FilingIndInv, NEW c \in Clerks, Checks(c)
  PROVE  FilingIndInv'
  <1>0. FilingShapes
    BY DEF FilingIndInv
  <1>1. /\ UNCHANGED <<filed, duty, taken>> /\ acts' \in 0 .. ActMax
        /\ \E t : /\ MovesWith(c, t)
                  /\ t.step = "file" => Cardinality(filed) < ContractsMax
                  /\ t.step = "record" => t.entry.what = "updated"
    BY <1>0, ChecksMove
  <1>2. PICK t : /\ MovesWith(c, t)
                 /\ t.step = "file" => Cardinality(filed) < ContractsMax
                 /\ t.step = "record" => t.entry.what = "updated"
    BY <1>1
  <1>3. /\ lost' = lost /\ Said' = Said \cup ({t.entry} \ {Nothing})
        /\ t.step # "record" => Said' = Said
    BY <1>0, <1>2, EntriesMove
  <1>4. FilingShapes'
    BY <1>0, <1>1, <1>2, TaskOf DEF FilingShapes, MovesWith
  <1>5. EachOfOneContract' /\ DeletionsLast' /\ TrailExplainsRows'
    <2>1. Lasting
      BY <1>3 DEF Lasting
    <2>2. \A e \in Said' : e \in Said \/ e.what # "deleted"
      BY <1>2, <1>3
    <2> QED
      BY <1>1, <2>1, <2>2, SameRows
  <1>6. FiledAreCounted'
    <2>0. /\ Cardinality(filed) \in Nat /\ filed' = filed /\ ContractsMax \in Nat
      BY <1>0, <1>1, FS_CardinalityType, FilingAssumption DEF FilingShapes
    <2>1. CASE t.step = "file"
      <3>1. Cardinality(filed) + Cardinality(AboutToFile') <= ContractsMax + Cardinality(Clerks) - 1
        BY <2>0, <2>1, <1>2, FilersFinite
      <3> QED
        BY <3>1, <2>0 DEF FiledAreCounted
    <2>2. CASE t.step # "file"
      <3>1. Cardinality(AboutToFile') <= Cardinality(AboutToFile)
        BY <1>0, <1>2, <2>2, FilersFewer DEF MovesWith
      <3>2. Cardinality(filed) + Cardinality(AboutToFile) <= ContractsMax + Cardinality(Clerks) - 1
        BY DEF FilingIndInv, FiledAreCounted
      <3>3. Cardinality(filed) + Cardinality(AboutToFile') <= ContractsMax + Cardinality(Clerks) - 1
        BY <3>1, <3>2, <2>0, FilersFinite
      <3> QED
        BY <3>3, <2>0 DEF FiledAreCounted
    <2> QED
      BY <2>1, <2>2
  <1> QED
    BY <1>4, <1>5, <1>6 DEF FilingIndInv

LEMMA CreateContractKeeps ==
  ASSUME FilingIndInv, NEW c \in Clerks, CreateContract(c)
  PROVE  FilingIndInv'
  <1>0. FilingShapes /\ EachOfOneContract /\ DeletionsLast
    BY DEF FilingIndInv
  <1>1. PICK k \in Filings \ taken :
          /\ filed' = filed \cup {k} /\ taken' = taken \cup {k}
          /\ Records(c, Entry("created", k, Nothing, Nothing))
    BY DEF CreateContract
  <1>2. UNCHANGED <<duty, trail, acts, lost>> /\ Does(c, "file")
    BY DEF CreateContract
  <1>3. PICK e : e = Entry("created", k, Nothing, Nothing)
    OBVIOUS
  <1>4. e \in Entries /\ e.what = "created" /\ e.of = k /\ e.to = Nothing /\ e # Nothing
    BY <1>3, EntryIsEntry DEF Things
  <1>5. PICK t : MovesWith(c, t) /\ t.step = "record" /\ t.entry = e
    BY <1>1, <1>2, <1>3, <1>4, RecordsMoves DEF Does
  <1>6. lost' = lost /\ Said' = Said \cup {e}
    BY <1>0, <1>4, <1>5, EntriesMove
  <1>7. Lasting
    BY <1>6 DEF Lasting
  <1>8. IsFiniteSet(filed') /\ Cardinality(filed') <= Cardinality(filed) + 1
        /\ Cardinality(filed) \in Nat /\ Cardinality(filed') \in Nat
    <2>1. IsFiniteSet(filed)
      BY <1>0 DEF FilingShapes
    <2>2. /\ IsFiniteSet(filed \cup {k}) /\ Cardinality(filed) \in Nat
          /\ \/ Cardinality(filed \cup {k}) = Cardinality(filed)
             \/ Cardinality(filed \cup {k}) = Cardinality(filed) + 1
      BY <2>1, FS_AddElement, FS_CardinalityType
    <2> QED
      BY <2>2, <1>1
  <1>9. \A o \in Duties, n \in Filings : <<o, n>> # k
    <2>1. \A o \in Duties, n \in Filings : <<o, n>> \in Duties \X Filings
      OBVIOUS
    <2> QED
      BY <2>1, FilingAssumption
  <1>10. FilingShapes'
    <2>1. taken' \subseteq Filings \cup (Duties \X Filings) /\ filed' \subseteq Filings \cap taken'
      BY <1>0, <1>1 DEF FilingShapes
    <2>2. task' \in [Clerks -> Tasks] /\ \A d \in Clerks : TaskKnows(task'[d])
      BY <1>0, <1>5, TaskOf DEF MovesWith
    <2> QED
      BY <1>0, <1>2, <1>8, <2>1, <2>2 DEF FilingShapes
  <1>11. EachOfOneContract'
    BY <1>0, <1>1, <1>2, <1>9 DEF EachOfOneContract
  <1>12. Given' = Given
    <2>1. taken' \ Filings = taken \ Filings
      BY <1>1
    <2> QED
      BY <2>1 DEF Given
  <1>13. DeletionsLast'
    <2> SUFFICES ASSUME NEW d \in Said', d.what = "deleted"
                 PROVE  /\ d.of \in Filings => d.of \in taken' /\ d.of \notin filed'
                        /\ d.of \in Duties => d.of \in Given' /\ duty'[d.of] = Nothing
      BY DEF DeletionsLast
    <2>1. d \in Said
      BY <1>4, <1>6
    <2> QED
      BY <2>1, <1>0, <1>1, <1>2, <1>12 DEF DeletionsLast
  <1>14. TrailExplainsRows'
    <2>1. ASSUME NEW n \in taken' \cap Filings PROVE ContractTold(n)'
      <3>1. CASE n = k
        <4>1. Told({"created"}, k, Nothing)'
          BY <1>4, <1>6, ToldBy
        <4>2. k \in filed'
          BY <1>1
        <4> QED
          BY <3>1, <4>1, <4>2 DEF ContractTold
      <3>2. CASE n # k
        BY <3>2, <1>1, <1>7, RowsTold, ContractStaysTold DEF FilingIndInv
      <3> QED
        BY <3>1, <3>2
    <2>2. ASSUME NEW o \in Given' PROVE DutyTold(o)'
      <3>1. OfContract(o)' = OfContract(o) /\ duty'[o] = duty[o]
        BY <1>0, <1>1, <1>2, <1>11, <1>12, ContractsStay
      <3> QED
        BY <3>1, <1>7, <1>12, RowsTold, DutyStaysTold DEF FilingIndInv
    <2> QED
      BY <2>1, <2>2, RowsTold
  <1>15. FiledAreCounted'
    <2>1. Cardinality(AboutToFile') + 1 <= Cardinality(AboutToFile)
      BY <1>0, <1>2, <1>5, FilersFewer DEF MovesWith
    <2>2. Cardinality(filed) + Cardinality(AboutToFile) <= ContractsMax + Cardinality(Clerks) - 1
      BY DEF FilingIndInv, FiledAreCounted
    <2>3. Cardinality(filed') + Cardinality(AboutToFile') <= ContractsMax + Cardinality(Clerks) - 1
      BY <2>1, <2>2, <1>8, FilersFinite, FilingAssumption
    <2> QED
      BY <2>3 DEF FiledAreCounted
  <1> QED
    BY <1>10, <1>11, <1>13, <1>14, <1>15 DEF FilingIndInv

LEMMA DeleteFilingKeeps ==
  ASSUME FilingIndInv, NEW c \in Clerks, DeleteFiling(c)
  PROVE  FilingIndInv'
  <1>0. FilingShapes /\ EachOfOneContract /\ DeletionsLast
    BY DEF FilingIndInv
  <1>1. PICK k \in Filings : k = task[c].of
    BY <1>0 DEF DeleteFiling, Does, FilingShapes, TaskKnows
  <1>2. /\ filed' = filed \ {k} /\ UNCHANGED <<trail, acts, taken, lost>> /\ Does(c, "unfile")
        /\ duty' = [o \in Duties |-> IF duty[o] # Nothing /\ duty[o].contract = k
                                     THEN Nothing ELSE duty[o]]
        /\ IF k \in filed THEN Records(c, Entry("deleted", k, Nothing, Nothing)) ELSE Rests(c)
    BY <1>1 DEF DeleteFiling
  <1>3. PICK e : e = Entry("deleted", k, Nothing, Nothing)
    OBVIOUS
  <1>4. e \in Entries /\ e.what = "deleted" /\ e.of = k /\ e.to = Nothing /\ e # Nothing
    BY <1>3, EntryIsEntry DEF Things
  <1>5. PICK t : /\ MovesWith(c, t) /\ t.step # "file"
                 /\ t.entry = IF k \in filed THEN e ELSE Nothing
    <2>1. CASE k \in filed
      BY <2>1, <1>2, <1>3, <1>4, RecordsMoves DEF Does
    <2>2. CASE k \notin filed
      BY <2>2, <1>2, RestsMoves DEF Does
    <2> QED
      BY <2>1, <2>2
  <1>6. lost' = lost /\ Said' = Said \cup (IF k \in filed THEN {e} ELSE {})
    BY <1>0, <1>4, <1>5, EntriesMove
  <1>7. Lasting
    BY <1>6 DEF Lasting
  <1>8. \A o \in Duties : duty'[o] = duty[o] \/ (duty'[o] = Nothing /\ duty[o].contract = k /\ duty[o] # Nothing)
    BY <1>2
  <1>9. FilingShapes'
    <2>1. IsFiniteSet(filed') /\ filed' \subseteq Filings \cap taken'
      BY <1>0, <1>2, FS_RemoveElement DEF FilingShapes
    <2>2. duty' \in [Duties -> Kept \cup {Nothing}]
      BY <1>0, <1>2 DEF FilingShapes
    <2>3. task' \in [Clerks -> Tasks] /\ \A d \in Clerks : TaskKnows(task'[d])
      BY <1>0, <1>5, TaskOf DEF MovesWith
    <2> QED
      BY <1>0, <1>2, <2>1, <2>2, <2>3 DEF FilingShapes
  <1>10. EachOfOneContract'
    <2>1. ASSUME NEW o \in Duties, duty'[o] # Nothing
          PROVE  <<o, duty'[o].contract>> \in taken' /\ duty'[o].contract \in filed'
      <3>1. duty'[o] = duty[o] /\ duty[o].contract # k
        BY <2>1, <1>2
      <3> QED
        BY <3>1, <2>1, <1>0, <1>2 DEF EachOfOneContract
    <2> QED
      BY <2>1, <1>0, <1>2 DEF EachOfOneContract
  <1>11. Given' = Given
    BY <1>2 DEF Given
  <1>12. DeletionsLast'
    <2> SUFFICES ASSUME NEW d \in Said', d.what = "deleted"
                 PROVE  /\ d.of \in Filings => d.of \in taken' /\ d.of \notin filed'
                        /\ d.of \in Duties => d.of \in Given' /\ duty'[d.of] = Nothing
      BY DEF DeletionsLast
    <2>1. CASE d \in Said
      BY <2>1, <1>0, <1>2, <1>8, <1>11 DEF DeletionsLast
    <2>2. CASE d \notin Said
      <3>1. k \in filed /\ d.of = k
        BY <2>2, <1>4, <1>6
      <3>2. k \notin Duties /\ k \in taken
        BY <3>1, <1>0, FilingAssumption DEF FilingShapes
      <3> QED
        BY <3>1, <3>2, <1>2
    <2> QED
      BY <2>1, <2>2
  <1>13. TrailExplainsRows'
    <2>1. ASSUME NEW n \in taken' \cap Filings PROVE ContractTold(n)'
      <3>1. CASE n = k /\ k \in filed
        <4>1. Told({"deleted"}, k, Nothing)'
          BY <3>1, <1>4, <1>6, ToldBy
        <4>2. k \notin filed'
          BY <1>2
        <4> QED
          BY <3>1, <4>1, <4>2 DEF ContractTold
      <3>2. CASE ~(n = k /\ k \in filed)
        <4>1. (n \in filed') <=> (n \in filed)
          BY <3>2, <1>2
        <4> QED
          BY <4>1, <1>2, <1>7, RowsTold, ContractStaysTold DEF FilingIndInv
      <3> QED
        BY <3>1, <3>2
    <2>2. ASSUME NEW o \in Given' PROVE DutyTold(o)'
      <3>1. o \in Duties /\ OfContract(o)' = OfContract(o) /\ DutyTold(o)
        BY <1>0, <1>2, <1>10, <1>11, ContractsStay, RowsTold DEF FilingIndInv
      <3>2. CASE duty'[o] = duty[o]
        BY <3>1, <3>2, <1>7, DutyStaysTold
      <3>3. CASE duty'[o] # duty[o]
        <4>1. duty'[o] = Nothing /\ duty[o] # Nothing /\ duty[o].contract = k
          BY <3>1, <3>3, <1>8
        <4>2. k \in filed /\ <<o, k>> \in taken
          BY <3>1, <4>1, <1>0 DEF EachOfOneContract
        <4>3. Told({"deleted"}, k, Nothing)'
          BY <4>2, <1>4, <1>6, ToldBy
        <4>4. OfContract(o)' = k
          BY <3>1, <4>2, <1>0, TheContract
        <4> QED
          BY <4>1, <4>3, <4>4 DEF DutyTold, Told
      <3> QED
        BY <3>2, <3>3
    <2> QED
      BY <2>1, <2>2, RowsTold
  <1>14. FiledAreCounted'
    <2>1. Cardinality(AboutToFile') <= Cardinality(AboutToFile)
      BY <1>0, <1>5, FilersFewer DEF MovesWith
    <2>2. /\ Cardinality(filed') <= Cardinality(filed)
          /\ Cardinality(filed) \in Nat /\ Cardinality(filed') \in Nat
      <3>1. IsFiniteSet(filed) /\ filed' \subseteq filed
        BY <1>0, <1>2 DEF FilingShapes
      <3> QED
        BY <3>1, FS_Subset, FS_CardinalityType
    <2>3. Cardinality(filed) + Cardinality(AboutToFile) <= ContractsMax + Cardinality(Clerks) - 1
      BY DEF FilingIndInv, FiledAreCounted
    <2>4. Cardinality(filed') + Cardinality(AboutToFile') <= ContractsMax + Cardinality(Clerks) - 1
      BY <2>1, <2>2, <2>3, FilersFinite, FilingAssumption
    <2> QED
      BY <2>4 DEF FiledAreCounted
  <1> QED
    BY <1>9, <1>10, <1>12, <1>13, <1>14 DEF FilingIndInv

\* A step that files no contract and unfiles none.
LEMMA CountStays ==
  ASSUME FilingIndInv, NEW c \in Clerks, NEW t, Moves(c, t), t.step # "file", filed' = filed
  PROVE  FiledAreCounted'
  <1>1. Cardinality(AboutToFile') <= Cardinality(AboutToFile) /\ IsFiniteSet(filed)
    BY FilersFewer DEF FilingIndInv, FilingShapes
  <1>2. Cardinality(filed) + Cardinality(AboutToFile) <= ContractsMax + Cardinality(Clerks) - 1
    BY DEF FilingIndInv, FiledAreCounted
  <1>3. Cardinality(filed) + Cardinality(AboutToFile') <= ContractsMax + Cardinality(Clerks) - 1
    BY <1>1, <1>2, FilersFinite, FS_CardinalityType, FilingAssumption
  <1> QED
    BY <1>3 DEF FiledAreCounted

\* A step that changes one obligation and says so.
LEMMA OneDutyKeeps ==
  ASSUME FilingIndInv, NEW c \in Clerks, NEW t, MovesWith(c, t), t.step = "record",
         acts' \in 0 .. ActMax, filed' = filed,
         NEW o \in Duties, NEW d \in Kept \cup {Nothing}, duty' = [duty EXCEPT ![o] = d],
         taken \subseteq taken', taken' \subseteq Filings \cup (Duties \X Filings),
         EachOfOneContract', Given' \subseteq Given \cup {o}, taken' \cap Filings = taken \cap Filings,
         t.entry.of = o, t.entry # Nothing, o \in Given',
         \/ d = Nothing /\ t.entry.what = "deleted" /\ t.entry.to = Nothing
         \/ /\ d # Nothing /\ o \notin Given /\ d.status = d.born
            /\ t.entry.what = "created" /\ t.entry.to = Nothing
         \/ /\ d # Nothing /\ duty[o] # Nothing /\ o \in Given /\ d.born = duty[o].born
            /\ t.entry.what = "updated" /\ d.status \in {duty[o].status, t.entry.to}
  PROVE  FilingIndInv'
  <1>0. FilingShapes /\ EachOfOneContract /\ DeletionsLast
    BY DEF FilingIndInv
  <1>1. lost' = lost /\ Said' = Said \cup {t.entry} /\ trail' = trail
    BY <1>0, EntriesMove DEF MovesWith
  <1>2. Lasting
    BY <1>1 DEF Lasting
  <1>3. FilingShapes'
    <2>1. task' \in [Clerks -> Tasks] /\ \A b \in Clerks : TaskKnows(task'[b])
      BY <1>0, TaskOf DEF MovesWith
    <2>2. duty' \in [Duties -> Kept \cup {Nothing}] /\ filed' \subseteq Filings \cap taken'
      BY <1>0 DEF FilingShapes
    <2> QED
      BY <1>0, <1>1, <2>1, <2>2 DEF FilingShapes
  <1>4. duty'[o] = d /\ \A n \in Duties : n # o => duty'[n] = duty[n]
    BY <1>0 DEF FilingShapes
  <1>5. Given \subseteq Given'
    BY DEF Given
  <1>6. DeletionsLast'
    <2> SUFFICES ASSUME NEW e \in Said', e.what = "deleted"
                 PROVE  /\ e.of \in Filings => e.of \in taken' /\ e.of \notin filed'
                        /\ e.of \in Duties => e.of \in Given' /\ duty'[e.of] = Nothing
      BY DEF DeletionsLast
    <2>1. CASE e \in Said
      <3>1. /\ e.of \in Filings => e.of \in taken /\ e.of \notin filed
            /\ e.of \in Duties => e.of \in Given /\ duty[e.of] = Nothing
        BY <2>1, <1>0 DEF DeletionsLast
      <3>2. CASE e.of = o
        BY <3>1, <3>2, <1>4, <1>5, FilingAssumption
      <3>3. CASE e.of # o
        BY <3>1, <3>3, <1>4, <1>5
      <3> QED
        BY <3>2, <3>3
    <2>2. CASE e = t.entry
      BY <2>2, <1>4, FilingAssumption
    <2> QED
      BY <2>1, <2>2, <1>1
  <1>7. TrailExplainsRows'
    <2>1. \A n \in taken' \cap Filings : ContractTold(n)'
      BY <1>2, RowsTold, ContractStaysTold DEF FilingIndInv
    <2>2. ASSUME NEW n \in Given' PROVE DutyTold(n)'
      <3>1. CASE n = o
        <4>1. CASE d = Nothing
          <5>1. Told({"deleted"}, o, Nothing)'
            BY <4>1, <1>1, ToldBy
          <5> QED
            BY <5>1, <4>1, <3>1, <1>4 DEF DutyTold
        <4>2. CASE d # Nothing /\ t.entry.what = "created"
          <5>1. Told({"created"}, o, Nothing)'
            BY <4>2, <1>1, ToldBy
          <5> QED
            BY <5>1, <4>2, <3>1, <1>4 DEF DutyTold
        <4>3. CASE d # Nothing /\ t.entry.what = "updated"
          <5>1. PICK s, r : s = d.status /\ r = duty[o].status
            OBVIOUS
          <5>2. /\ duty[o] # Nothing /\ o \in Given /\ d.born = duty[o].born
                /\ s \in {r, t.entry.to}
            BY <4>3, <5>1
          <5>3. Told({"created"}, o, Nothing) /\ (r = d.born \/ Told({"updated"}, o, r))
            BY <5>1, <5>2, RowsTold DEF FilingIndInv, DutyTold
          <5>4. /\ Told({"created"}, o, Nothing)'
                /\ Told({"updated"}, o, r) => Told({"updated"}, o, r)'
            BY <5>3, <1>2, ToldLasts DEF Lasting
          <5>5. s = t.entry.to => Told({"updated"}, o, s)'
            BY <4>3, <1>1, ToldBy
          <5>6. Told({"updated"}, o, s)' => Told({"updated"}, o, d.status)'
            BY <5>1
          <5>7. d.status = d.born \/ Told({"updated"}, o, s)'
            BY <5>1, <5>2, <5>3, <5>4, <5>5
          <5> QED
            BY <5>1, <5>4, <5>7, <4>3, <3>1, <1>4 DEF DutyTold, Told
        <4> QED
          BY <4>1, <4>2, <4>3
      <3>2. CASE n # o
        <4>1. n \in Given
          BY <3>2
        <4>2. n \in Duties /\ OfContract(n)' = OfContract(n) /\ duty'[n] = duty[n]
          BY <4>1, <3>2, <1>0, <1>4, ContractsStay
        <4> QED
          BY <4>1, <4>2, <1>2, RowsTold, DutyStaysTold DEF FilingIndInv
      <3> QED
        BY <3>1, <3>2
    <2> QED
      BY <2>1, <2>2, RowsTold
  <1>8. FiledAreCounted'
    BY CountStays DEF MovesWith
  <1> QED
    BY <1>3, <1>6, <1>7, <1>8 DEF FilingIndInv

\* A step of a request that finds its contract or obligation gone.
LEMMA RefusedKeeps ==
  ASSUME FilingIndInv, NEW c \in Clerks, ~Does(c, "record"), Rests(c),
         UNCHANGED <<filed, duty, trail, acts, taken, lost>>
  PROVE  FilingIndInv'
  <1>0. FilingShapes
    BY DEF FilingIndInv
  <1>1. PICK t : MovesWith(c, t) /\ t.step = "rest" /\ t.entry = Nothing
    BY RestsMoves
  <1>2. Said' = Said /\ lost' = lost
    BY <1>0, <1>1, EntriesMove
  <1>3. EachOfOneContract' /\ DeletionsLast' /\ TrailExplainsRows'
    BY <1>2, SameRows DEF Lasting
  <1>4. FilingShapes'
    BY <1>0, <1>1, TaskOf DEF FilingShapes, MovesWith
  <1>5. FiledAreCounted'
    BY <1>1, CountStays DEF MovesWith
  <1> QED
    BY <1>3, <1>4, <1>5 DEF FilingIndInv

LEMMA CreateObligationKeeps ==
  ASSUME FilingIndInv, NEW c \in Clerks, CreateObligation(c)
  PROVE  FilingIndInv'
  <1>0. FilingShapes /\ EachOfOneContract
    BY DEF FilingIndInv
  <1>1. PICK k \in Filings : k = task[c].of
    BY <1>0 DEF CreateObligation, Does, FilingShapes, TaskKnows
  <1>2. CASE k \notin filed
    <2>1. ~Does(c, "record") /\ Rests(c) /\ UNCHANGED <<filed, duty, trail, acts, taken, lost>>
      BY <1>1, <1>2 DEF CreateObligation, Does
    <2> QED
      BY <2>1, RefusedKeeps
  <1>3. CASE k \in filed
    <2>1. PICK o \in Duties \ Given, s \in Statuses :
            /\ duty' = [duty EXCEPT ![o] = [contract |-> k, status |-> s, born |-> s]]
            /\ taken' = taken \cup {<<o, k>>}
            /\ Records(c, Entry("created", o, Nothing, Nothing))
      BY <1>1, <1>3 DEF CreateObligation
    <2>2. ~Does(c, "record") /\ UNCHANGED <<filed, trail, acts, lost>>
      BY DEF CreateObligation, Does
    <2>3. PICK e : e = Entry("created", o, Nothing, Nothing)
      OBVIOUS
    <2>4. e \in Entries /\ e.what = "created" /\ e.of = o /\ e.to = Nothing /\ e # Nothing
      BY <2>3, EntryIsEntry DEF Things
    <2>5. PICK t : MovesWith(c, t) /\ t.step = "record" /\ t.entry = e
      BY <2>1, <2>2, <2>3, <2>4, RecordsMoves
    <2>6. PICK d \in Kept : d = [contract |-> k, status |-> s, born |-> s]
      BY DEF Kept
    <2>7. d # Nothing /\ d.status = d.born /\ d.contract = k
      BY <2>6, FilingAssumption
    <2>8. taken' \subseteq Filings \cup (Duties \X Filings) /\ taken' \cap Filings = taken \cap Filings
      <3>1. <<o, k>> \in Duties \X Filings
        OBVIOUS
      <3>2. <<o, k>> \notin Filings
        BY <3>1, FilingAssumption
      <3> QED
        BY <3>1, <3>2, <2>1, <1>0 DEF FilingShapes
    <2>9. /\ Given = {n \in Duties : \E b \in Filings : <<n, b>> \in taken}
          /\ Given' = {n \in Duties : \E b \in Filings : <<n, b>> \in taken'}
      BY <1>0, <2>8, ObligationsGiven DEF Given, FilingShapes
    <2>10. /\ Given' \subseteq Given \cup {o} /\ o \in Given'
           /\ \A b \in Filings : <<o, b>> \notin taken
      BY <2>1, <2>9
    <2>11. EachOfOneContract'
      <3>1. ASSUME NEW n \in Duties, NEW a \in Filings, NEW b \in Filings,
                   <<n, a>> \in taken', <<n, b>> \in taken'
            PROVE  a = b
        <4>1. CASE n = o
          <5>1. <<o, a>> = <<o, k>> /\ <<o, b>> = <<o, k>>
            BY <3>1, <4>1, <2>1, <2>10
          <5> QED
            BY <5>1
        <4>2. CASE n # o
          <5>1. <<n, a>> # <<o, k>> /\ <<n, b>> # <<o, k>>
            BY <4>2
          <5>2. <<n, a>> \in taken /\ <<n, b>> \in taken
            BY <5>1, <3>1, <2>1
          <5> QED
            BY <5>2, <1>0 DEF EachOfOneContract
        <4> QED
          BY <4>1, <4>2
      <3>2. ASSUME NEW n \in Duties, duty'[n] # Nothing
            PROVE  <<n, duty'[n].contract>> \in taken' /\ duty'[n].contract \in filed'
        <4>1. CASE n = o
          <5>1. duty'[n] = d
            BY <4>1, <2>1, <2>6, <1>0 DEF FilingShapes
          <5> QED
            BY <5>1, <4>1, <2>1, <2>2, <2>7, <1>3
        <4>2. CASE n # o
          <5>1. duty'[n] = duty[n]
            BY <4>2, <2>1, <1>0 DEF FilingShapes
          <5> QED
            BY <5>1, <3>2, <2>1, <2>2, <1>0 DEF EachOfOneContract
        <4> QED
          BY <4>1, <4>2
      <3> QED
        BY <3>1, <3>2 DEF EachOfOneContract
    <2>12. acts' \in 0 .. ActMax /\ filed' = filed
      BY <2>2, <1>0 DEF FilingShapes
    <2>13. duty' = [duty EXCEPT ![o] = d] /\ o \notin Given /\ taken \subseteq taken'
      BY <2>1, <2>6
    <2> QED
      BY <2>4, <2>5, <2>7, <2>8, <2>10, <2>11, <2>12, <2>13, OneDutyKeeps
  <1> QED
    BY <1>2, <1>3

\* The obligation that is changed was given to a contract.
LEMMA KeptAreGiven ==
  ASSUME FilingShapes, EachOfOneContract, NEW o \in Duties, duty[o] # Nothing
  PROVE  o \in Given /\ duty[o] \in Kept /\ <<o, duty[o].contract>> \in taken
         /\ duty[o].contract \in filed
  <1>1. duty[o] \in Kept /\ <<o, duty[o].contract>> \in taken /\ duty[o].contract \in filed
    BY DEF FilingShapes, EachOfOneContract
  <1>2. duty[o].contract \in Filings
    BY <1>1 DEF Kept
  <1>3. Given = {n \in Duties : \E b \in Filings : <<n, b>> \in taken}
    BY ObligationsGiven DEF Given, FilingShapes
  <1> QED
    BY <1>1, <1>2, <1>3

\* The changes of an obligation's status, and its deletion.
LEMMA OneOfTheContract ==
  ASSUME FilingShapes, EachOfOneContract, UNCHANGED <<filed, taken>>,
         NEW o \in Duties, NEW d, d = Nothing \/ d.contract = duty[o].contract, duty[o] # Nothing,
         duty' = [duty EXCEPT ![o] = d]
  PROVE  EachOfOneContract'
  <1>1. \A n \in Duties : duty'[n] = IF n = o THEN d ELSE duty[n]
    BY DEF FilingShapes
  <1>2. ASSUME NEW n \in Duties, duty'[n] # Nothing
        PROVE  <<n, duty'[n].contract>> \in taken' /\ duty'[n].contract \in filed'
    <2>1. duty[n] # Nothing /\ duty'[n].contract = duty[n].contract
      BY <1>1, <1>2
    <2> QED
      BY <2>1 DEF EachOfOneContract
  <1> QED
    BY <1>2 DEF EachOfOneContract

LEMMA UpdateObligationKeeps ==
  ASSUME FilingIndInv, NEW c \in Clerks, UpdateObligation(c)
  PROVE  FilingIndInv'
  <1>0. FilingShapes /\ EachOfOneContract
    BY DEF FilingIndInv
  <1>1. PICK o \in Duties : o = task[c].of
    BY <1>0 DEF UpdateObligation, Does, FilingShapes, TaskKnows
  <1>2. task[c].status \in Statuses /\ ~Does(c, "record") /\ UNCHANGED <<filed, trail, acts, taken, lost>>
    BY <1>0 DEF UpdateObligation, Does, FilingShapes, TaskKnows
  <1>3. CASE duty[o] = Nothing
    <2>1. Rests(c) /\ UNCHANGED duty
      BY <1>1, <1>3 DEF UpdateObligation
    <2> QED
      BY <2>1, <1>2, RefusedKeeps
  <1>4. CASE duty[o] # Nothing
    <2>1. PICK s, e : \/ /\ s \in Statuses /\ e = Entry("updated", o, task[c].status, s)
                         /\ duty' = [duty EXCEPT ![o].status = s] /\ Records(c, e)
                      \/ /\ s = duty[o].status /\ e = Entry("updated", o, Nothing, Nothing)
                         /\ duty' = duty /\ Records(c, e)
      BY <1>1, <1>4 DEF UpdateObligation
    <2>2. o \in Given /\ duty[o] \in Kept
      BY <1>0, <1>4, KeptAreGiven
    <2>3. /\ e \in Entries /\ e.what = "updated" /\ e.of = o /\ e # Nothing
          /\ s \in {duty[o].status, e.to}
      BY <2>1, <1>2, EntryIsEntry DEF Things
    <2>4. PICK t : MovesWith(c, t) /\ t.step = "record" /\ t.entry = e
      BY <2>1, <2>3, <1>2, RecordsMoves
    <2>5. s \in Statuses
      BY <2>1, <2>2 DEF Kept
    <2>6. PICK d : d = [duty[o] EXCEPT !.status = s]
      OBVIOUS
    <2>7. d \in Kept /\ d.status = s /\ d.contract = duty[o].contract /\ d.born = duty[o].born
      BY <2>2, <2>5, <2>6 DEF Kept
    <2>8. duty' = [duty EXCEPT ![o] = d] /\ d # Nothing
      <3>1. d # Nothing
        BY <2>7, FilingAssumption
      <3>2. s = duty[o].status => d = duty[o]
        BY <2>2, <2>6 DEF Kept
      <3>3. duty = [duty EXCEPT ![o] = duty[o]]
        BY <1>0 DEF FilingShapes
      <3> QED
        BY <2>1, <2>6, <3>1, <3>2, <3>3
    <2>9. EachOfOneContract'
      BY <2>7, <2>8, <1>0, <1>2, <1>4, OneOfTheContract
    <2>10. Given' = Given /\ acts' \in 0 .. ActMax /\ taken' \subseteq Filings \cup (Duties \X Filings)
      BY <1>0, <1>2 DEF Given, FilingShapes
    <2> QED
      BY <2>2, <2>3, <2>4, <2>7, <2>8, <2>9, <2>10, <1>2, <1>4, OneDutyKeeps
  <1> QED
    BY <1>3, <1>4

LEMMA DeleteObligationKeeps ==
  ASSUME FilingIndInv, NEW c \in Clerks, NEW o \in Duties, DeleteObligation(c, o)
  PROVE  FilingIndInv'
  <1>0. FilingShapes /\ EachOfOneContract
    BY DEF FilingIndInv
  <1>1. /\ duty[o] # Nothing /\ ~Does(c, "record") /\ UNCHANGED <<filed, trail, taken, lost>>
        /\ duty' = [duty EXCEPT ![o] = Nothing]
        /\ acts < ActMax /\ acts' = acts + 1
    BY DEF DeleteObligation, Does
  <1>2. PICK e : e = Entry("deleted", o, Nothing, Nothing)
    OBVIOUS
  <1>3. e \in Entries /\ e.what = "deleted" /\ e.of = o /\ e.to = Nothing /\ e # Nothing
    BY <1>2, EntryIsEntry DEF Things
  <1>4. PICK t : MovesWith(c, t) /\ t.step = "record" /\ t.entry = e
    BY <1>1, <1>2, <1>3, RecordsMoves DEF DeleteObligation
  <1>5. o \in Given
    BY <1>0, <1>1, KeptAreGiven
  <1>6. EachOfOneContract'
    BY <1>0, <1>1, OneOfTheContract
  <1>7. Given' = Given /\ taken' \subseteq Filings \cup (Duties \X Filings)
    BY <1>0, <1>1 DEF Given, FilingShapes
  <1>8. acts' \in 0 .. ActMax
    BY <1>0, <1>1, FilingAssumption DEF FilingShapes
  <1> QED
    BY <1>1, <1>3, <1>4, <1>5, <1>6, <1>7, <1>8, OneDutyKeeps

LEMMA RecordEntryKeeps ==
  ASSUME FilingIndInv, NEW c \in Clerks, RecordEntry(c) \/ RequestFails(c)
  PROVE  FilingIndInv'
  <1>0. FilingShapes
    BY DEF FilingIndInv
  <1>1. /\ Rests(c) /\ UNCHANGED <<filed, duty, acts, taken>>
        /\ \/ RecordEntry(c) /\ trail' = trail \cup {task[c].entry} /\ lost' = lost
           \/ /\ RequestFails(c) /\ trail' = trail
              /\ lost' = IF Does(c, "record") THEN lost \cup {task[c].entry.of} ELSE lost
    BY DEF RecordEntry, RequestFails
  <1>2. Moves(c, Rest)
    BY <1>1, RestIsTask DEF Rests, Moves
  <1>3. task'[c] = Rest /\ \A d \in Clerks : d # c => task'[d] = task[d]
    BY <1>0, <1>2, TaskOf
  <1>4. task[c].entry # Nothing => Does(c, "record") /\ task[c].entry \in Entries
    BY <1>0 DEF FilingShapes, TaskKnows, Does
  <1>5. RecordEntry(c) => task[c].entry \in Entries /\ task[c].entry # Nothing
    BY <1>0, FilingAssumption DEF FilingShapes, TaskKnows, Does, RecordEntry
  <1>6. /\ \A e \in Said' : e \in Said
        /\ \A e \in Said : e \in Said' \/ e.of \in lost'
    <2>1. ASSUME NEW e \in Said' PROVE e \in Said
      <3>1. CASE e \in trail'
        BY <3>1, <1>1, <1>5 DEF Said
      <3>2. CASE e \notin trail'
        <4>1. PICK d \in Clerks : e = task'[d].entry /\ e # Nothing
          BY <3>2 DEF Said
        <4>2. d # c
          BY <4>1, <1>3, RestIsTask
        <4> QED
          BY <4>1, <4>2, <1>3 DEF Said
      <3> QED
        BY <3>1, <3>2
    <2>2. ASSUME NEW e \in Said PROVE e \in Said' \/ e.of \in lost'
      <3>1. CASE e \in trail
        BY <3>1, <1>1 DEF Said
      <3>2. CASE e \notin trail
        <4>1. PICK d \in Clerks : e = task[d].entry /\ e # Nothing
          BY <3>2 DEF Said
        <4>2. CASE d # c
          BY <4>1, <4>2, <1>3 DEF Said
        <4>3. CASE d = c
          BY <4>1, <4>3, <1>1, <1>4 DEF Said
        <4> QED
          BY <4>2, <4>3
      <3> QED
        BY <3>1, <3>2
    <2> QED
      BY <2>1, <2>2
  <1>7. EachOfOneContract' /\ DeletionsLast' /\ TrailExplainsRows'
    <2>1. Lasting
      BY <1>1, <1>6 DEF Lasting
    <2> QED
      BY <2>1, <1>1, <1>6, SameRows
  <1>8. FilingShapes'
    <2>1. task' \in [Clerks -> Tasks] /\ \A d \in Clerks : TaskKnows(task'[d])
      BY <1>0, <1>2, TaskOf
    <2>2. trail' \subseteq Entries
      BY <1>0, <1>1, <1>5 DEF FilingShapes
    <2>3. lost' \subseteq Things
      <3>1. Does(c, "record") => task[c].entry.of \in Things
        BY <1>0 DEF FilingShapes, TaskKnows, Does, Entries
      <3> QED
        BY <3>1, <1>0, <1>1 DEF FilingShapes
    <2> QED
      BY <2>1, <2>2, <2>3, <1>0, <1>1 DEF FilingShapes
  <1>9. FiledAreCounted'
    BY <1>1, <1>2, RestIsTask, CountStays
  <1> QED
    BY <1>7, <1>8, <1>9 DEF FilingIndInv

LEMMA FilingFollows == FilingIndInv => FilingInv
  <1> SUFFICES ASSUME FilingIndInv PROVE FilingInv
    OBVIOUS
  <1>0. FilingShapes /\ EachOfOneContract /\ DeletionsLast /\ FiledAreCounted
    BY DEF FilingIndInv
  <1>1. FilingTypeOK
    BY <1>0 DEF FilingShapes, FilingTypeOK, Tasks
  <1>2. DeletedIsGone
    <2> SUFFICES ASSUME NEW e \in trail, e.what = "deleted"
                 PROVE  /\ e.of \notin filed
                        /\ \A o \in Duties : duty[o] # Nothing => o # e.of /\ duty[o].contract # e.of
      BY DEF DeletedIsGone
    <2>1. /\ e.of \in Filings => e.of \notin filed
          /\ e.of \in Duties => duty[e.of] = Nothing
      BY <1>0 DEF DeletionsLast, Said
    <2>2. e.of \in Things /\ filed \subseteq Filings
      BY <1>0 DEF FilingShapes, Entries
    <2>3. \A o \in Duties : duty[o] # Nothing => duty[o].contract \in filed
      BY <1>0 DEF EachOfOneContract
    <2> QED
      BY <2>1, <2>2, <2>3
  <1>3. ContractsStretch
    <2>1. Cardinality(filed) \in Nat
      BY <1>0, FS_CardinalityType DEF FilingShapes
    <2> QED
      BY <2>1, <1>0, FilersFinite, FilingAssumption DEF FiledAreCounted, ContractsStretch
  <1> QED
    BY <1>1, <1>2, <1>3 DEF FilingInv, FilingIndInv

LEMMA FilingInitially == FilingInit => FilingIndInv
  <1> SUFFICES ASSUME FilingInit PROVE FilingIndInv
    OBVIOUS
  <1>1. FilingShapes
    BY FS_EmptySet, RestIsTask, FilingAssumption DEF FilingInit, FilingShapes
  <1>2. Said = {}
    BY RestIsTask DEF FilingInit, Said
  <1>3. Given = {}
    BY DEF FilingInit, Given
  <1>4. EachOfOneContract /\ DeletionsLast /\ TrailExplainsRows
    BY <1>2, <1>3 DEF FilingInit, EachOfOneContract, DeletionsLast, TrailExplainsRows
  <1>5. FiledAreCounted
    <2>1. AboutToFile = {}
      BY RestIsTask DEF FilingInit, AboutToFile, Does
    <2>2. Cardinality(filed) = 0 /\ Cardinality(AboutToFile) = 0
      BY <2>1, FS_EmptySet DEF FilingInit
    <2> QED
      BY <2>2, FilersFinite, FilingAssumption DEF FiledAreCounted
  <1> QED
    BY <1>1, <1>4, <1>5 DEF FilingIndInv

\* However requests overlap, fail and die, for any number of contracts, obligations
\* and clerks: the audit trail tells of every contract and obligation that it was created,
\* or deleted, and of an obligation that it was given its status, if that is not the one
\* it was created with, which no entry says (routers.py:508-516); but for changes whose
\* request did not live to record them (routers.py:180).  What it says is deleted is gone with all that hung on it; and the plan's ceiling is
\* stretched by the other overlapping requests at most (routers.py:106-119).
THEOREM TrailExplains == FilingSpec => []FilingInv
  <1>1. FilingIndInv /\ [FilingNext]_filingVars => FilingIndInv'
    <2> SUFFICES ASSUME FilingIndInv, [FilingNext]_filingVars PROVE FilingIndInv'
      OBVIOUS
    <2>1. CASE UNCHANGED filingVars
      <3>1. UNCHANGED <<filed, duty, trail, task, acts, taken, lost>>
        BY <2>1 DEF filingVars
      <3>2. Said' = Said /\ AboutToFile' = AboutToFile
        BY <3>1 DEF Said, AboutToFile, Does
      <3>3. EachOfOneContract' /\ DeletionsLast' /\ TrailExplainsRows'
        BY <3>1, <3>2, SameRows DEF Lasting
      <3>4. FilingShapes' /\ FiledAreCounted'
        BY <3>1, <3>2 DEF FilingIndInv, FilingShapes, FiledAreCounted
      <3> QED
        BY <3>3, <3>4 DEF FilingIndInv
    <2>2. ASSUME NEW c \in Clerks, Checks(c) PROVE FilingIndInv'
      BY <2>2, ChecksKeep
    <2>3. ASSUME NEW c \in Clerks,
                 \/ CreateContract(c) \/ DeleteFiling(c) \/ CreateObligation(c)
                 \/ UpdateObligation(c) \/ (\E o \in Duties : DeleteObligation(c, o))
                 \/ RecordEntry(c) \/ RequestFails(c)
          PROVE FilingIndInv'
      BY <2>3, CreateContractKeeps, DeleteFilingKeeps, CreateObligationKeeps,
         UpdateObligationKeeps, DeleteObligationKeeps, RecordEntryKeeps
    <2> QED
      BY <2>1, <2>2, <2>3 DEF FilingNext, Checks
  <1> QED
    BY <1>1, FilingInitially, FilingFollows, PTL DEF FilingSpec

-----------------------------------------------------------------------------
Uploading == {"count", "duplicate", "put", "create", "compensate", "body"}
RequestKind ==
  [step : {"idle", "count", "duplicate", "put", "create", "compensate", "body",
           "delete row", "list", "cascade", "remove"},
   contract : Contracts \cup {None}, id : 0 .. IntakeMax, keys : SUBSET Keys]

\* What a request knows, by its step.
RequestKnows(e) ==
  /\ e.step \in Uploading \cup {"delete row"} => \E k \in Keys : e.keys = {k}
  /\ e.step \in {"list", "cascade"} => e.contract \in Contracts
  /\ e.step \in {"idle", "list"} => e.keys = {}
  /\ e.step = "cascade" => \A k \in e.keys : k[1] = e.contract

DocumentShapes ==
  /\ DocumentTypeOK /\ IsFiniteSet(documents)
  /\ \A c \in Requests : RequestKnows(request[c])

\* A file is attached to a contract once, by a row of its own, while there is the contract.
RowsAreApart ==
  /\ \A r, q \in documents : r.key[1] = q.key[1] /\ r.key[2] = q.key[2] => r = q
  /\ \A r, q \in documents : r.id = q.id => r = q
  /\ \A r \in documents : r.key[1] \in contracts /\ r.id <= intake

\* Of what did not clash there is one request at most.
HandledAlone ==
  \A k \in Keys \ clashed : \A c, d \in Requests :
    Handles(request[c], k) /\ Handles(request[d], k) => c = d

\* A row of key k is one whose INSERT was not answered.
Unanswered(k) == \A r \in documents : r.key = k => ~r.answered

\* What request e may rely on, of the keys that it alone handles.
ReliesOn(e) ==
  /\ \A k \in e.keys \ clashed :
       /\ e.step \in {"put", "create", "remove"} => \A r \in documents : r.key # k
       /\ e.step = "compensate" => Unanswered(k)
       /\ e.step = "create" => k \in objects
       /\ e.step = "delete row" => \A r \in documents : r.key = k => r.id = e.id
  /\ e.step = "delete row" => e.id <= intake /\ \A r \in documents : r.id = e.id => r.key \in e.keys
  /\ e.step = "cascade" => \A r \in documents : r.key[1] = e.contract => r.key \in e.keys \cup clashed

\* A request that has still to give an object its row, or to take it away.
StillOwes(e, k) == k \in e.keys /\ e.step \in {"create", "compensate", "remove"}

\* Uploads that have counted the documents and may add one.
AboutToAdd == {c \in Requests : request[c].step \in {"duplicate", "put", "create"}}

DocumentsAreCounted ==
  Cardinality(documents) + Cardinality(AboutToAdd) <= Quota + Cardinality(Requests) - 1

\* The inductive invariant of DocumentStore.
DocumentIndInv ==
  /\ DocumentShapes /\ RowsAreApart /\ HandledAlone
  /\ \A c \in Requests : ReliesOn(request[c])
  /\ MetadataHasBytes /\ BytesHaveMetadata /\ DocumentsAreCounted

-----------------------------------------------------------------------------
LEMMA KeysOf == \A k \in Keys : k[1] \in Contracts /\ k[2] \in Files
  BY DocumentAssumption

LEMMA IdleIsKind == Idle \in RequestKind /\ RequestKnows(Idle) /\ Idle.step = "idle" /\ Idle.keys = {}
  BY DocumentAssumption DEF Idle, RequestKind, RequestKnows, Uploading

\* What DocumentTypeOK says of the requests.
LEMMA RequestTypes ==
  /\ DocumentTypeOK <=>
       /\ contracts \subseteq Contracts
       /\ documents \subseteq [id : 1 .. IntakeMax, key : Keys, answered : BOOLEAN]
       /\ objects \subseteq Keys /\ body \in [Contracts -> {"manual", "document"}]
       /\ request \in [Requests -> RequestKind]
       /\ clashed \subseteq Keys /\ broken \in BOOLEAN /\ intake \in 0 .. IntakeMax
  /\ DocumentTypeOK' <=>
       /\ contracts' \subseteq Contracts
       /\ documents' \subseteq [id : 1 .. IntakeMax, key : Keys, answered : BOOLEAN]
       /\ objects' \subseteq Keys /\ body' \in [Contracts -> {"manual", "document"}]
       /\ request' \in [Requests -> RequestKind]
       /\ clashed' \subseteq Keys /\ broken' \in BOOLEAN /\ intake' \in 0 .. IntakeMax
  BY DEF DocumentTypeOK, RequestKind

\* Request c turns into e.
Turns(c, e) == e \in RequestKind /\ RequestKnows(e) /\ request' = [request EXCEPT ![c] = e]

LEMMA TurnsInto ==
  ASSUME DocumentShapes, NEW c \in Requests, NEW e, Turns(c, e)
  PROVE  /\ request' \in [Requests -> RequestKind] /\ \A d \in Requests : RequestKnows(request'[d])
         /\ request'[c] = e /\ \A d \in Requests : d # c => request'[d] = request[d]
  <1>1. request \in [Requests -> RequestKind]
    BY RequestTypes DEF DocumentShapes
  <1>2. request'[c] = e /\ \A d \in Requests : d # c => request'[d] = request[d]
    BY <1>1 DEF Turns
  <1> QED
    BY <1>1, <1>2 DEF Turns, DocumentShapes

LEMMA GoesToTurns ==
  ASSUME DocumentShapes, NEW c \in Requests, NEW s, GoesTo(c, s),
         \/ s \in {"duplicate", "put", "create", "compensate", "body"} /\ request[c].step \in Uploading
         \/ s = "remove"
  PROVE  \E e : /\ Turns(c, e) /\ e.step = s /\ e.keys = request[c].keys /\ e.id = request[c].id
                /\ e.contract = request[c].contract
  <1> DEFINE e == [request[c] EXCEPT !.step = s]
  <1>1. request[c] \in RequestKind /\ RequestKnows(request[c])
    BY RequestTypes DEF DocumentShapes
  <1>2. e \in RequestKind
    BY <1>1 DEF RequestKind
  <1>3. /\ e.step = s /\ e.keys = request[c].keys /\ e.id = request[c].id
        /\ e.contract = request[c].contract
    BY <1>1 DEF RequestKind
  <1>4. request' = [request EXCEPT ![c] = e]
    BY DEF GoesTo
  <1> HIDE DEF e
  <1>5. RequestKnows(e)
    BY <1>1, <1>3 DEF RequestKnows, Uploading
  <1> QED
    BY <1>2, <1>3, <1>4, <1>5 DEF Turns

LEMMA DoneTurns ==
  ASSUME NEW c \in Requests, Done(c)
  PROVE  Turns(c, Idle)
  BY IdleIsKind DEF Done, Turns

\* An upload has one key.
LEMMA KeyOfUpload ==
  ASSUME DocumentShapes, NEW c \in Requests, request[c].step \in Uploading
  PROVE  TheKey(c) \in Keys /\ request[c].keys = {TheKey(c)}
  <1>1. PICK k \in Keys : request[c].keys = {k}
    BY DEF DocumentShapes, RequestKnows
  <1>2. TheKey(c) = k
    BY <1>1 DEF TheKey
  <1> QED
    BY <1>1, <1>2

-----------------------------------------------------------------------------
\* A request relies on what others do not touch.
LEMMA StillRelies ==
  ASSUME DocumentShapes, DocumentShapes', NEW e \in RequestKind, ReliesOn(e), RequestKnows(e),
         clashed \subseteq clashed', intake <= intake',
         \A r \in documents' : \/ r \in documents
                               \/ r.id > intake /\ (r.key \in clashed' \/ ~Handles(e, r.key)),
         \A k \in objects \ objects' : k \in clashed' \/ ~Handles(e, k)
  PROVE  ReliesOn(e)'
  <1>a. IntakeMax \in Nat
    BY DocumentAssumption
  <1>b. intake \in 0 .. IntakeMax /\ intake' \in 0 .. IntakeMax
    BY RequestTypes DEF DocumentShapes
  <1>c. e.id \in 0 .. IntakeMax
    BY DEF RequestKind
  <1>0. intake \in Nat /\ intake' \in Nat /\ e.id \in Nat
    BY <1>a, <1>b, <1>c
  <1>1. ASSUME NEW k \in e.keys \ clashed'
        PROVE  /\ e.step \in {"put", "create", "remove"} => \A r \in documents' : r.key # k
               /\ e.step = "compensate" => Unanswered(k)'
               /\ e.step = "create" => k \in objects'
               /\ e.step = "delete row" => \A r \in documents' : r.key = k => r.id = e.id
    <2>1. k \in e.keys \ clashed /\ Handles(e, k)
      BY <1>1 DEF Handles
    <2>2. \A r \in documents' : r.key = k => r \in documents
      BY <2>1, <1>1
    <2>3. k \in objects => k \in objects'
      BY <2>1, <1>1
    <2> QED
      BY <2>1, <2>2, <2>3 DEF ReliesOn, Unanswered
  <1>2. ASSUME e.step = "delete row"
        PROVE  e.id <= intake' /\ \A r \in documents' : r.id = e.id => r.key \in e.keys
    <2>1. e.id <= intake /\ \A r \in documents : r.id = e.id => r.key \in e.keys
      BY <1>2 DEF ReliesOn
    <2>2. \A r \in documents' : r.id \in Nat
      <3>1. documents' \subseteq [id : 1 .. IntakeMax, key : Keys, answered : BOOLEAN]
        BY RequestTypes DEF DocumentShapes
      <3> QED
        BY <3>1, <1>a
    <2>3. \A r \in documents' : r.id = e.id => r \in documents
      BY <2>1, <2>2, <1>0
    <2> QED
      BY <2>1, <2>3, <1>0
  <1>3. ASSUME e.step = "cascade", NEW r \in documents', r.key[1] = e.contract
        PROVE  r.key \in e.keys \cup clashed'
    <2>1. Handles(e, r.key)
      BY <1>3 DEF Handles
    <2> QED
      BY <2>1, <1>3 DEF ReliesOn
  <1> QED
    BY <1>1, <1>2, <1>3 DEF ReliesOn

\* What a step of one request has to keep, for the rest to follow: it handles no
\* key that another does, adds rows and takes away objects of keys that it
\* handles, and leaves no row without its object and no object without its row.
LEMMA StepOfOne ==
  ASSUME DocumentIndInv, DocumentShapes', NEW c \in Requests, NEW e, Turns(c, e), ReliesOn(e)',
         clashed \subseteq clashed', intake <= intake', broken => broken',
         \A k \in Keys \ clashed' : Handles(e, k) =>
           Handles(request[c], k) \/ \A d \in Requests : ~Handles(request[d], k),
         \A r \in documents' : \/ r \in documents
                               \/ /\ r.id > intake /\ Handles(request[c], r.key)
                                  /\ r.answered => r.key \in objects' \cup clashed',
         \A k \in objects \ objects' :
           Handles(request[c], k) /\ (k \in clashed' \/ Unanswered(k)'),
         \A k \in objects' \ clashed' :
           \/ broken' \/ StillOwes(e, k)
           \/ \E r \in documents' : r.key = k
           \/ /\ k \in objects /\ ~StillOwes(request[c], k)
              /\ \A r \in documents : r.key # k
  PROVE  /\ HandledAlone' /\ \A d \in Requests : ReliesOn(request[d])'
         /\ MetadataHasBytes' /\ BytesHaveMetadata'
  <1>0. DocumentShapes /\ HandledAlone /\ \A d \in Requests : ReliesOn(request[d])
    BY DEF DocumentIndInv
  <1>1. request'[c] = e /\ \A d \in Requests : d # c => request'[d] = request[d]
    BY <1>0, TurnsInto
  <1>k. objects' \subseteq Keys /\ objects \subseteq Keys /\ \A r \in documents' : r.key \in Keys
    BY <1>0 DEF DocumentShapes, DocumentTypeOK
  <1>2. HandledAlone'
    <2> SUFFICES ASSUME NEW k \in Keys \ clashed', NEW a \in Requests, NEW b \in Requests,
                        Handles(request'[a], k), Handles(request'[b], k)
                 PROVE  a = b
      BY DEF HandledAlone, Handles
    <2>1. k \in Keys \ clashed
      OBVIOUS
    <2> QED
      BY <2>1, <1>0, <1>1 DEF HandledAlone
  <1>3. ASSUME NEW d \in Requests, d # c, NEW k \in Keys \ clashed', Handles(request[c], k)
        PROVE  ~Handles(request[d], k)
    BY <1>0, <1>3 DEF HandledAlone
  <1>4. ASSUME NEW d \in Requests PROVE ReliesOn(request[d])'
    <2>1. CASE d = c
      BY <2>1, <1>1 DEF ReliesOn
    <2>2. CASE d # c
      <3>1. PICK f \in RequestKind : f = request[d]
        BY <1>0, RequestTypes DEF DocumentShapes
      <3>2. ReliesOn(f) /\ RequestKnows(f) /\ f = request'[d]
        BY <3>1, <2>2, <1>0, <1>1 DEF DocumentShapes
      <3>3. \A r \in documents' : \/ r \in documents
                                  \/ r.id > intake /\ (r.key \in clashed' \/ ~Handles(f, r.key))
        BY <3>1, <2>2, <1>3, <1>k
      <3>4. \A k \in objects \ objects' : k \in clashed' \/ ~Handles(f, k)
        BY <3>1, <2>2, <1>3, <1>k
      <3>5. ReliesOn(f)'
        BY <3>2, <3>3, <3>4, <1>0, StillRelies
      <3> QED
        BY <3>2, <3>5 DEF ReliesOn
    <2> QED
      BY <2>1, <2>2
  <1>5. MetadataHasBytes'
    <2> SUFFICES ASSUME NEW r \in documents', r.answered
                 PROVE  r.key \in objects' \/ r.key \in clashed'
      BY DEF MetadataHasBytes
    <2>1. r \in documents => r.key \in objects \/ r.key \in clashed
      BY DEF DocumentIndInv, MetadataHasBytes
    <2>2. CASE r \in documents /\ r.key \in objects \ objects'
      BY <2>2 DEF Unanswered
    <2> QED
      BY <2>1, <2>2
  <1>6. BytesHaveMetadata'
    <2> SUFFICES ASSUME NEW k \in objects', k \notin clashed', ~broken'
                 PROVE  \/ k \in {r.key : r \in documents'}
                        \/ \E d \in Requests : StillOwes(request'[d], k)
      BY DEF BytesHaveMetadata, StillOwes
    <2>1. CASE StillOwes(e, k) \/ \E r \in documents' : r.key = k
      BY <2>1, <1>1
    <2>2. CASE k \in objects /\ ~StillOwes(request[c], k) /\ \A r \in documents : r.key # k
      <3>1. \/ k \in {r.key : r \in documents}
            \/ \E d \in Requests : StillOwes(request[d], k)
        BY <2>2 DEF DocumentIndInv, BytesHaveMetadata, StillOwes
      <3>2. PICK d \in Requests : StillOwes(request[d], k)
        BY <2>2, <3>1
      <3>3. d # c
        BY <2>2, <3>2
      <3> QED
        BY <3>2, <3>3, <1>1
    <2> QED
      BY <2>1, <2>2
  <1> QED
    BY <1>2, <1>4, <1>5, <1>6

\* A step that changes no row and no object.
LEMMA RowsAndObjectsStay ==
  ASSUME DocumentIndInv, NEW c \in Requests, NEW e, Turns(c, e), ReliesOn(e)',
         UNCHANGED <<contracts, documents, objects, intake>>,
         body' \in [Contracts -> {"manual", "document"}],
         clashed \subseteq clashed', clashed' \subseteq Keys, broken' \in BOOLEAN, broken => broken',
         \A k \in Keys \ clashed' : Handles(e, k) =>
           Handles(request[c], k) \/ \A d \in Requests : ~Handles(request[d], k),
         \A k \in Keys : StillOwes(request[c], k) => StillOwes(e, k) \/ broken'
  PROVE  /\ DocumentShapes' /\ RowsAreApart' /\ HandledAlone'
         /\ \A d \in Requests : ReliesOn(request[d])'
         /\ MetadataHasBytes' /\ BytesHaveMetadata'
  <1>0. DocumentShapes
    BY DEF DocumentIndInv
  <1>1. DocumentShapes'
    BY <1>0, RequestTypes, TurnsInto DEF DocumentShapes
  <1>2. RowsAreApart'
    BY DEF DocumentIndInv, RowsAreApart
  <1>3. intake <= intake'
    <2>1. intake \in 0 .. IntakeMax /\ IntakeMax \in Nat
      BY <1>0, DocumentAssumption, RequestTypes DEF DocumentShapes
    <2> QED
      BY <2>1
  <1>4. \A k \in objects' \ clashed' :
          \/ broken' \/ StillOwes(e, k)
          \/ \E r \in documents' : r.key = k
          \/ /\ k \in objects /\ ~StillOwes(request[c], k)
             /\ \A r \in documents : r.key # k
    BY <1>0 DEF DocumentShapes, DocumentTypeOK
  <1> QED
    BY <1>1, <1>2, <1>3, <1>4, StepOfOne

-----------------------------------------------------------------------------
LEMMA AddersFinite ==
  /\ IsFiniteSet(AboutToAdd) /\ Cardinality(AboutToAdd) \in Nat
  /\ Cardinality(AboutToAdd) <= Cardinality(Requests) /\ Cardinality(Requests) \in Nat
  /\ IsFiniteSet(AboutToAdd') /\ Cardinality(AboutToAdd') \in Nat
  /\ Cardinality(AboutToAdd') <= Cardinality(Requests)
  <1>1. AboutToAdd \subseteq Requests /\ AboutToAdd' \subseteq Requests
    BY DEF AboutToAdd
  <1> QED
    BY <1>1, FS_Subset, FS_CardinalityType, DocumentAssumption

LEMMA AddersFewer ==
  ASSUME DocumentShapes, NEW c \in Requests, NEW e, Turns(c, e),
         e.step \in {"duplicate", "put", "create"} => c \in AboutToAdd
  PROVE  /\ Cardinality(AboutToAdd') <= Cardinality(AboutToAdd)
         /\ c \in AboutToAdd /\ e.step \notin {"duplicate", "put", "create"} =>
              Cardinality(AboutToAdd') + 1 <= Cardinality(AboutToAdd)
  <1>1. /\ AboutToAdd' \subseteq AboutToAdd
        /\ e.step \notin {"duplicate", "put", "create"} => AboutToAdd' \subseteq AboutToAdd \ {c}
    BY TurnsInto DEF AboutToAdd
  <1>2. c \in AboutToAdd => /\ Cardinality(AboutToAdd \ {c}) = Cardinality(AboutToAdd) - 1
                            /\ IsFiniteSet(AboutToAdd \ {c})
    BY AddersFinite, FS_RemoveElement
  <1>3. /\ Cardinality(AboutToAdd') <= Cardinality(AboutToAdd)
        /\ c \in AboutToAdd /\ AboutToAdd' \subseteq AboutToAdd \ {c} =>
             Cardinality(AboutToAdd') <= Cardinality(AboutToAdd \ {c})
    BY <1>1, <1>2, AddersFinite, FS_Subset
  <1> QED
    BY <1>1, <1>2, <1>3, AddersFinite

\* A step after which there are no more documents, and no more that may add one.
LEMMA CountedStill ==
  ASSUME DocumentIndInv, NEW c \in Requests, NEW e, Turns(c, e), documents' \subseteq documents,
         e.step \in {"duplicate", "put", "create"} => c \in AboutToAdd
  PROVE  DocumentsAreCounted'
  <1>1. Cardinality(AboutToAdd') <= Cardinality(AboutToAdd) /\ IsFiniteSet(documents)
    BY AddersFewer DEF DocumentIndInv, DocumentShapes
  <1>2. /\ Cardinality(documents') <= Cardinality(documents)
        /\ Cardinality(documents) \in Nat /\ Cardinality(documents') \in Nat
    BY <1>1, FS_Subset, FS_CardinalityType
  <1>3. Cardinality(documents) + Cardinality(AboutToAdd) <= Quota + Cardinality(Requests) - 1
    BY DEF DocumentIndInv, DocumentsAreCounted
  <1>4. Cardinality(documents') + Cardinality(AboutToAdd') <= Quota + Cardinality(Requests) - 1
    BY <1>1, <1>2, <1>3, AddersFinite, DocumentAssumption
  <1> QED
    BY <1>4 DEF DocumentsAreCounted

-----------------------------------------------------------------------------
\* A step that changes no row and no object.
LEMMA QuietStep ==
  ASSUME DocumentIndInv, NEW c \in Requests, NEW e, Turns(c, e), ReliesOn(e),
         UNCHANGED <<contracts, documents, objects, intake>>,
         body' \in [Contracts -> {"manual", "document"}],
         clashed \subseteq clashed', clashed' \subseteq Keys, broken' \in BOOLEAN, broken => broken',
         \A k \in Keys \ clashed' : Handles(e, k) =>
           Handles(request[c], k) \/ \A d \in Requests : ~Handles(request[d], k),
         \A k \in Keys : StillOwes(request[c], k) => StillOwes(e, k) \/ broken',
         e.step \in {"duplicate", "put", "create"} => c \in AboutToAdd
  PROVE  DocumentIndInv'
  <1>1. ReliesOn(e)'
    BY DEF ReliesOn, Unanswered
  <1>2. /\ DocumentShapes' /\ RowsAreApart' /\ HandledAlone'
        /\ \A d \in Requests : ReliesOn(request[d])'
        /\ MetadataHasBytes' /\ BytesHaveMetadata'
    BY <1>1, RowsAndObjectsStay
  <1>3. DocumentsAreCounted'
    BY CountedStill
  <1> QED
    BY <1>2, <1>3 DEF DocumentIndInv

\* What the invariant says of a request and of what is not quiet about it.
LEMMA OfARequest ==
  ASSUME DocumentIndInv, NEW c \in Requests
  PROVE  /\ request[c] \in RequestKind /\ RequestKnows(request[c]) /\ ReliesOn(request[c])
         /\ DocumentShapes
         /\ request \in [Requests -> RequestKind]
         /\ clashed \subseteq Keys /\ broken \in BOOLEAN /\ objects \subseteq Keys
         /\ body \in [Contracts -> {"manual", "document"}] /\ contracts \subseteq Contracts
         /\ documents \subseteq [id : 1 .. IntakeMax, key : Keys, answered : BOOLEAN] /\ intake \in 0 .. IntakeMax
  BY RequestTypes DEF DocumentIndInv, DocumentShapes

\* A request that ends with what it had to do done, or not begun.
LEMMA EndsQuietly ==
  ASSUME DocumentIndInv, NEW c \in Requests, Done(c),
         UNCHANGED <<contracts, documents, objects, clashed, intake>>,
         body' \in [Contracts -> {"manual", "document"}], broken' \in BOOLEAN, broken => broken',
         \A k \in Keys : StillOwes(request[c], k) => broken'
  PROVE  DocumentIndInv'
  <1>1. Turns(c, Idle) /\ Idle.step = "idle" /\ Idle.keys = {}
    BY DoneTurns, IdleIsKind
  <1>2. ReliesOn(Idle) /\ \A k \in Keys : ~Handles(Idle, k)
    BY <1>1 DEF ReliesOn, Handles
  <1> QED
    BY <1>1, <1>2, QuietStep, OfARequest

\* A request that goes on with what it had.
LEMMA GoesOnQuietly ==
  ASSUME DocumentIndInv, NEW c \in Requests, NEW s, GoesTo(c, s),
         \/ s \in {"duplicate", "put", "compensate"} /\ request[c].step \in Uploading
         \/ s = "remove",
         request[c].step \notin {"list", "cascade"},
         \A e \in RequestKind :
           e.step = s /\ e.keys = request[c].keys /\ e.id = request[c].id => ReliesOn(e),
         UNCHANGED <<store, clashed, intake>>, broken' \in BOOLEAN, broken => broken',
         \A k \in Keys : StillOwes(request[c], k) => s \in {"create", "compensate", "remove"},
         s \in {"duplicate", "put"} => c \in AboutToAdd
  PROVE  DocumentIndInv'
  <1>1. DocumentShapes /\ body \in [Contracts -> {"manual", "document"}] /\ clashed \subseteq Keys
    BY OfARequest
  <1>2. PICK e : /\ Turns(c, e) /\ e.step = s /\ e.keys = request[c].keys /\ e.id = request[c].id
                 /\ e.contract = request[c].contract
    BY <1>1, GoesToTurns
  <1>3. ReliesOn(e)
    BY <1>2 DEF Turns
  <1>4. \A k \in Keys : Handles(e, k) => Handles(request[c], k)
    BY <1>2 DEF Handles
  <1>5. \A k \in Keys : StillOwes(request[c], k) => StillOwes(e, k)
    BY <1>2 DEF StillOwes
  <1>6. /\ UNCHANGED <<contracts, documents, objects, intake>>
        /\ body' = body /\ clashed' = clashed
    BY DEF store
  <1>7. e.step \in {"duplicate", "put", "create"} => c \in AboutToAdd
    BY <1>2
  <1> QED
    BY <1>1, <1>2, <1>3, <1>4, <1>5, <1>6, <1>7, QuietStep

\* A request that begins.
LEMMA BeginsWell ==
  ASSUME DocumentIndInv, NEW c \in Requests, NEW e \in RequestKind, Begins(c, e),
         RequestKnows(e), ReliesOn(e), e.step \in {"count", "delete row", "list"}
  PROVE  DocumentIndInv'
  <1>1. DocumentShapes /\ body \in [Contracts -> {"manual", "document"}] /\ clashed \subseteq Keys
        /\ broken \in BOOLEAN /\ RequestKnows(request[c])
    BY OfARequest
  <1>2. Turns(c, e)
    BY DEF Turns, Begins
  <1>3. /\ clashed \subseteq clashed' /\ clashed' \subseteq Keys
        /\ \A k \in Keys \ clashed' : Handles(e, k) => \A d \in Requests : ~Handles(request[d], k)
    BY <1>1 DEF Begins
  <1>4. \A k \in Keys : ~StillOwes(request[c], k)
    BY <1>1 DEF Begins, At, StillOwes
  <1>5. UNCHANGED <<contracts, documents, objects, intake, body, broken>>
    BY DEF Begins, store
  <1> QED
    BY <1>1, <1>2, <1>3, <1>4, <1>5, QuietStep

LEMMA UploadKeeps ==
  ASSUME DocumentIndInv, NEW c \in Requests, NEW k \in Keys, Upload(c, k)
  PROVE  DocumentIndInv'
  <1> DEFINE e == [step |-> "count", contract |-> k[1], id |-> 0, keys |-> {k}]
  <1>0. 0 \in 0 .. IntakeMax
    BY DocumentAssumption
  <1>1. e \in RequestKind /\ e.step = "count" /\ e.keys = {k}
    BY <1>0, KeysOf DEF RequestKind
  <1>2. Begins(c, e)
    BY DEF Upload
  <1> HIDE DEF e
  <1>3. RequestKnows(e) /\ ReliesOn(e)
    BY <1>1 DEF RequestKnows, ReliesOn, Uploading
  <1> QED
    BY <1>1, <1>2, <1>3, BeginsWell

LEMMA BeginDeleteKeeps ==
  ASSUME DocumentIndInv, NEW c \in Requests, NEW r \in documents, BeginDelete(c, r)
  PROVE  DocumentIndInv'
  <1> DEFINE e == [step |-> "delete row", contract |-> r.key[1], id |-> r.id, keys |-> {r.key}]
  <1>0. r.id \in 1 .. IntakeMax /\ r.key \in Keys /\ RowsAreApart /\ IntakeMax \in Nat
    BY OfARequest, DocumentAssumption DEF DocumentIndInv
  <1>1. r.id \in 0 .. IntakeMax /\ r.key[1] \in Contracts
    BY <1>0, KeysOf
  <1>2. e \in RequestKind /\ e.step = "delete row" /\ e.keys = {r.key} /\ e.id = r.id
    BY <1>0, <1>1 DEF RequestKind
  <1>3. Begins(c, e)
    BY DEF BeginDelete
  <1> HIDE DEF e
  <1>4. RequestKnows(e)
    BY <1>0, <1>2 DEF RequestKnows, Uploading
  <1>5. \A q \in documents : /\ q.key = r.key => q.id = r.id
                             /\ q.id = r.id => q.key = r.key
    BY <1>0 DEF RowsAreApart
  <1>6. ReliesOn(e)
    BY <1>0, <1>2, <1>5 DEF ReliesOn, RowsAreApart
  <1> QED
    BY <1>2, <1>3, <1>4, <1>6, BeginsWell

LEMMA BeginDeleteContractKeeps ==
  ASSUME DocumentIndInv, NEW c \in Requests, NEW k \in Contracts, BeginDeleteContract(c, k)
  PROVE  DocumentIndInv'
  <1> DEFINE e == [Idle EXCEPT !.step = "list", !.contract = k]
  <1>1. e \in RequestKind /\ e.step = "list" /\ e.keys = {} /\ e.contract = k
    BY IdleIsKind DEF RequestKind, Idle
  <1>2. Begins(c, e)
    BY DEF BeginDeleteContract
  <1> HIDE DEF e
  <1>3. RequestKnows(e) /\ ReliesOn(e)
    BY <1>1 DEF RequestKnows, ReliesOn, Uploading
  <1> QED
    BY <1>1, <1>2, <1>3, BeginsWell

-----------------------------------------------------------------------------
LEMMA DuplicateKeeps ==
  ASSUME DocumentIndInv, NEW c \in Requests, Duplicate(c)
  PROVE  DocumentIndInv'
  <1>1. DocumentShapes /\ body \in [Contracts -> {"manual", "document"}] /\ broken \in BOOLEAN
        /\ request[c].step = "duplicate"
    BY OfARequest DEF Duplicate, At
  <1>2. UNCHANGED <<contracts, documents, objects, body, clashed, broken, intake>>
    BY DEF Duplicate, store
  <1>3. \A k \in Keys : ~StillOwes(request[c], k)
    BY <1>1 DEF StillOwes
  <1>4. CASE Done(c)
    BY <1>1, <1>2, <1>3, <1>4, EndsQuietly
  <1>5. CASE GoesTo(c, "put") /\ ~Attached(TheKey(c))
    <2>1. request[c].keys = {TheKey(c)} /\ \A r \in documents : r.key # TheKey(c)
      BY <1>1, <1>5, KeyOfUpload DEF Attached, Uploading
    <2>2. ASSUME NEW e \in RequestKind, e.step = "put", e.keys = request[c].keys
          PROVE  ReliesOn(e)
      BY <2>1, <2>2 DEF ReliesOn
    <2>3. c \in AboutToAdd /\ request[c].step \in Uploading
      BY <1>1 DEF AboutToAdd, Uploading
    <2> QED
      BY <1>1, <1>2, <1>3, <1>5, <2>2, <2>3, GoesOnQuietly DEF store
  <1> QED
    BY <1>4, <1>5 DEF Duplicate

LEMMA BodyKeeps ==
  ASSUME DocumentIndInv, NEW c \in Requests, Body(c)
  PROVE  DocumentIndInv'
  <1>1. /\ DocumentShapes /\ body \in [Contracts -> {"manual", "document"}] /\ broken \in BOOLEAN
        /\ request[c].step = "body"
    BY OfARequest DEF Body, At
  <1>3. body' \in [Contracts -> {"manual", "document"}]
    BY <1>1 DEF Body
  <1>4. Done(c) /\ UNCHANGED <<contracts, documents, objects, clashed, broken, intake>>
    BY DEF Body
  <1>5. \A k \in Keys : ~StillOwes(request[c], k)
    BY <1>1 DEF StillOwes
  <1> QED
    BY <1>1, <1>3, <1>4, <1>5, EndsQuietly

LEMMA DieKeeps ==
  ASSUME DocumentIndInv, NEW c \in Requests, Die(c)
  PROVE  DocumentIndInv'
  <1>1. body \in [Contracts -> {"manual", "document"}]
    BY OfARequest
  <1>2. Done(c) /\ broken' = TRUE /\ UNCHANGED <<contracts, documents, objects, body, clashed, intake>>
    BY DEF Die, store
  <1> QED
    BY <1>1, <1>2, EndsQuietly

LEMMA ListKeysKeeps ==
  ASSUME DocumentIndInv, NEW c \in Requests, ListKeys(c)
  PROVE  DocumentIndInv'
  <1> DEFINE listed == {r.key : r \in {q \in documents : q.key[1] = request[c].contract}}
             e == [request[c] EXCEPT !.step = "cascade", !.keys = listed]
  <1>1. /\ DocumentShapes /\ RequestKnows(request[c]) /\ body \in [Contracts -> {"manual", "document"}]
        /\ clashed \subseteq Keys /\ broken \in BOOLEAN /\ request[c].step = "list"
        /\ request[c] \in RequestKind /\ request \in [Requests -> RequestKind]
        /\ documents \subseteq [id : 1 .. IntakeMax, key : Keys, answered : BOOLEAN]
    BY OfARequest DEF ListKeys, At
  <1>2. listed \subseteq Keys /\ \A k \in listed : k[1] = request[c].contract
    BY <1>1
  <1>l. \A r \in documents : r.key[1] = request[c].contract => r.key \in listed
    OBVIOUS
  <1>3. request' = [request EXCEPT ![c] = e]
    BY <1>1 DEF ListKeys
  <1>4. UNCHANGED <<contracts, documents, objects, body, clashed, broken, intake>>
    BY DEF ListKeys, store
  <1>k. request[c].contract \in Contracts /\ request[c].keys = {}
    BY <1>1 DEF RequestKnows
  <1> HIDE DEF listed
  <1>5. e \in RequestKind /\ e.step = "cascade" /\ e.keys = listed /\ e.contract = request[c].contract
    BY <1>1, <1>2 DEF RequestKind
  <1> HIDE DEF e
  <1>6. RequestKnows(e) /\ ReliesOn(e)
    BY <1>2, <1>l, <1>5, <1>k DEF RequestKnows, ReliesOn, Uploading
  <1>7. Turns(c, e)
    BY <1>3, <1>5, <1>6 DEF Turns
  <1>8. \A k \in Keys : Handles(e, k) => Handles(request[c], k)
    BY <1>1, <1>2, <1>5 DEF Handles
  <1>9. \A k \in Keys : ~StillOwes(request[c], k)
    BY <1>1 DEF StillOwes
  <1> QED
    BY <1>1, <1>4, <1>5, <1>6, <1>7, <1>8, <1>9, QuietStep

LEMMA EditBodyKeeps ==
  ASSUME DocumentIndInv, NEW k \in Contracts, EditBody(k)
  PROVE  DocumentIndInv'
  <1>1. UNCHANGED <<contracts, documents, objects, request, clashed, broken, intake>>
    BY DEF EditBody
  <1>2. DocumentShapes'
    <2>1. body \in [Contracts -> {"manual", "document"}]
      BY RequestTypes DEF DocumentIndInv, DocumentShapes
    <2>2. body' \in [Contracts -> {"manual", "document"}]
      BY <2>1 DEF EditBody
    <2>3. DocumentTypeOK'
      BY <1>1, <2>2, RequestTypes DEF DocumentIndInv, DocumentShapes
    <2> QED
      BY <1>1, <2>3 DEF DocumentIndInv, DocumentShapes
  <1>3. RowsAreApart' /\ HandledAlone' /\ \A c \in Requests : ReliesOn(request[c])'
    <2>1. RowsAreApart'
      BY <1>1 DEF DocumentIndInv, RowsAreApart
    <2>2. HandledAlone'
      BY <1>1 DEF DocumentIndInv, HandledAlone
    <2>3. ASSUME NEW c \in Requests PROVE ReliesOn(request[c])'
      <3>1. ReliesOn(request[c])
        BY DEF DocumentIndInv
      <3> QED
        BY <1>1, <3>1 DEF ReliesOn, Unanswered
    <2> QED
      BY <2>1, <2>2, <2>3
  <1>4. MetadataHasBytes' /\ BytesHaveMetadata' /\ DocumentsAreCounted'
    BY <1>1 DEF DocumentIndInv, MetadataHasBytes, BytesHaveMetadata, DocumentsAreCounted, AboutToAdd
  <1> QED
    BY <1>2, <1>3, <1>4 DEF DocumentIndInv

-----------------------------------------------------------------------------
\* One more upload may add a document: what was counted leaves room for it.
LEMMA CountKeeps ==
  ASSUME DocumentIndInv, NEW c \in Requests, Count(c)
  PROVE  DocumentIndInv'
  <1>1. DocumentShapes /\ body \in [Contracts -> {"manual", "document"}] /\ broken \in BOOLEAN
        /\ clashed \subseteq Keys /\ request[c].step = "count"
    BY OfARequest DEF Count, At
  <1>2. UNCHANGED <<contracts, documents, objects, body, clashed, broken, intake>>
    BY DEF Count, store
  <1>3. \A k \in Keys : ~StillOwes(request[c], k)
    BY <1>1 DEF StillOwes
  <1>4. CASE Done(c)
    BY <1>1, <1>2, <1>3, <1>4, EndsQuietly
  <1>5. CASE GoesTo(c, "duplicate") /\ Cardinality(documents) + 1 <= Quota
    <2>1. PICK e : /\ Turns(c, e) /\ e.step = "duplicate" /\ e.keys = request[c].keys
                   /\ e.contract = request[c].contract
      BY <1>1, <1>5, GoesToTurns DEF Uploading
    <2>2. ReliesOn(e)'
      BY <2>1 DEF ReliesOn
    <2>3. \A k \in Keys : Handles(e, k) => Handles(request[c], k)
      BY <2>1 DEF Handles
    <2>4. /\ DocumentShapes' /\ RowsAreApart' /\ HandledAlone'
          /\ \A d \in Requests : ReliesOn(request[d])'
          /\ MetadataHasBytes' /\ BytesHaveMetadata'
      BY <1>1, <1>2, <1>3, <2>1, <2>2, <2>3, RowsAndObjectsStay
    <2>5. DocumentsAreCounted'
      <3>1. Cardinality(documents) \in Nat /\ Quota \in Nat
        BY <1>1, FS_CardinalityType, DocumentAssumption DEF DocumentShapes
      <3>2. Cardinality(documents) + Cardinality(AboutToAdd') <= Quota + Cardinality(Requests) - 1
        BY <3>1, <1>5, AddersFinite
      <3> QED
        BY <3>2, <1>2 DEF DocumentsAreCounted
    <2> QED
      BY <2>4, <2>5 DEF DocumentIndInv
  <1> QED
    BY <1>4, <1>5 DEF Count, InUse

\* A step of one request that changes objects and no row.
LEMMA ObjectsStep ==
  ASSUME DocumentIndInv, NEW c \in Requests, NEW e, Turns(c, e), ReliesOn(e)',
         UNCHANGED <<contracts, documents, body, clashed, broken, intake>>, objects' \subseteq Keys,
         \A k \in Keys : Handles(e, k) => Handles(request[c], k),
         \A k \in objects \ objects' :
           Handles(request[c], k) /\ (k \in clashed' \/ Unanswered(k)'),
         \A k \in objects' \ clashed' :
           \/ StillOwes(e, k)
           \/ \E r \in documents' : r.key = k
           \/ k \in objects /\ ~StillOwes(request[c], k) /\ \A r \in documents : r.key # k,
         e.step \in {"duplicate", "put", "create"} => c \in AboutToAdd
  PROVE  DocumentIndInv'
  <1>1. DocumentShapes /\ intake \in 0 .. IntakeMax /\ IntakeMax \in Nat
    BY OfARequest, DocumentAssumption
  <1>2. DocumentShapes'
    <2>1. request' \in [Requests -> RequestKind] /\ \A d \in Requests : RequestKnows(request'[d])
      BY <1>1, TurnsInto
    <2>2. DocumentTypeOK'
      BY <1>1, <2>1, RequestTypes DEF DocumentShapes
    <2> QED
      BY <1>1, <2>1, <2>2 DEF DocumentShapes
  <1>3. intake <= intake'
    BY <1>1
  <1>4. /\ HandledAlone' /\ \A d \in Requests : ReliesOn(request[d])'
        /\ MetadataHasBytes' /\ BytesHaveMetadata'
    BY <1>2, <1>3, StepOfOne
  <1>5. RowsAreApart'
    BY DEF DocumentIndInv, RowsAreApart
  <1>6. DocumentsAreCounted'
    BY CountedStill
  <1> QED
    BY <1>2, <1>4, <1>5, <1>6 DEF DocumentIndInv

LEMMA PutKeeps ==
  ASSUME DocumentIndInv, NEW c \in Requests, Put(c)
  PROVE  DocumentIndInv'
  <1>1. DocumentShapes /\ ReliesOn(request[c]) /\ request[c].step = "put" /\ objects \subseteq Keys
    BY OfARequest DEF Put, At
  <1>2. PICK e : /\ Turns(c, e) /\ e.step = "create" /\ e.keys = request[c].keys
                 /\ e.contract = request[c].contract
    BY <1>1, GoesToTurns DEF Put, Uploading
  <1>3. /\ objects' = objects \cup e.keys /\ e.keys \subseteq Keys
        /\ UNCHANGED <<contracts, documents, body, clashed, broken, intake>>
    BY <1>2 DEF Put, Turns, RequestKind
  <1>4. ReliesOn(e)'
    BY <1>1, <1>2, <1>3 DEF ReliesOn
  <1>5. \A k \in Keys : Handles(e, k) => Handles(request[c], k)
    BY <1>2 DEF Handles
  <1>6. \A k \in objects' :
          \/ StillOwes(e, k)
          \/ \E r \in documents' : r.key = k
          \/ k \in objects /\ ~StillOwes(request[c], k) /\ \A r \in documents : r.key # k
    BY <1>1, <1>2, <1>3 DEF StillOwes
  <1>7. c \in AboutToAdd /\ objects' \subseteq Keys /\ objects \ objects' = {}
    BY <1>1, <1>3 DEF AboutToAdd
  <1> QED
    BY <1>2, <1>3, <1>4, <1>5, <1>6, <1>7, ObjectsStep

\* A request that removes objects without a row: all that it has to, or one.
LEMMA TakesAway ==
  ASSUME DocumentIndInv, NEW c \in Requests, request[c].step \in {"compensate", "remove"},
         NEW e, Turns(c, e),
         \/ e.step = "remove" /\ request[c].step = "remove"
         \/ e.step = "idle" /\ e.keys = {},
         NEW gone, gone \subseteq request[c].keys, e.keys = request[c].keys \ gone,
         objects' = objects \ gone,
         UNCHANGED <<contracts, documents, body, clashed, broken, intake>>
  PROVE  DocumentIndInv'
  <1>1. DocumentShapes /\ ReliesOn(request[c]) /\ objects \subseteq Keys
    BY OfARequest
  <1>2. \A k \in request[c].keys \ clashed :
          Unanswered(k) /\ (request[c].step = "remove" => \A r \in documents : r.key # k)
    BY <1>1 DEF ReliesOn, Unanswered
  <1>3. ReliesOn(e)'
    BY <1>2 DEF ReliesOn
  <1>4. \A k \in Keys : Handles(e, k) => Handles(request[c], k)
    BY DEF Handles
  <1>5. \A k \in objects \ objects' :
          Handles(request[c], k) /\ (k \in clashed' \/ Unanswered(k)')
    BY <1>2 DEF Handles, Unanswered
  <1>6. \A k \in objects' :
          \/ StillOwes(e, k)
          \/ \E r \in documents' : r.key = k
          \/ k \in objects /\ ~StillOwes(request[c], k) /\ \A r \in documents : r.key # k
    <2> SUFFICES ASSUME NEW k \in objects', ~ \E r \in documents : r.key = k, ~StillOwes(e, k)
                 PROVE  k \in objects /\ ~StillOwes(request[c], k)
      OBVIOUS
    <2>1. k \in objects /\ k \notin gone
      OBVIOUS
    <2>2. k \in request[c].keys => k \in e.keys /\ e.step = "remove"
      BY <2>1
    <2> QED
      BY <2>1, <2>2 DEF StillOwes
  <1>7. objects' \subseteq Keys /\ e.step \notin {"duplicate", "put", "create"}
    BY <1>1
  <1> QED
    BY <1>3, <1>4, <1>5, <1>6, <1>7, ObjectsStep

LEMMA CompensateKeeps ==
  ASSUME DocumentIndInv, NEW c \in Requests, Compensate(c)
  PROVE  DocumentIndInv'
  <1>1. request[c].step = "compensate" /\ Done(c) /\ objects' = objects \ request[c].keys
        /\ UNCHANGED <<contracts, documents, body, clashed, broken, intake>>
    BY DEF Compensate, At
  <1>2. Turns(c, Idle) /\ Idle.step = "idle" /\ Idle.keys = {}
    BY <1>1, DoneTurns, IdleIsKind
  <1>3. Idle.keys = request[c].keys \ request[c].keys
    BY <1>2
  <1> QED
    BY <1>1, <1>2, <1>3, TakesAway

LEMMA RemoveKeeps ==
  ASSUME DocumentIndInv, NEW c \in Requests, NEW k \in Keys, RemoveObject(c, k)
  PROVE  DocumentIndInv'
  <1>1. request[c].step = "remove" /\ k \in request[c].keys
        /\ UNCHANGED <<contracts, documents, body, clashed, intake>>
    BY DEF RemoveObject, At
  <1>2. /\ DocumentShapes /\ request[c] \in RequestKind /\ ReliesOn(request[c])
        /\ request \in [Requests -> RequestKind] /\ clashed \subseteq Keys
        /\ body \in [Contracts -> {"manual", "document"}] /\ broken \in BOOLEAN
    BY OfARequest
  <1>3. \E e : /\ Turns(c, e) /\ (e.step = "remove" \/ (e.step = "idle" /\ e.keys = {}))
               /\ e.keys = request[c].keys \ {k}
    <2>1. CASE request[c].keys = {k}
      <3>1. Turns(c, Idle) /\ Idle.step = "idle" /\ Idle.keys = {}
        BY <2>1, DoneTurns, IdleIsKind DEF RemoveObject
      <3> QED
        BY <2>1, <3>1
    <2>2. CASE request[c].keys # {k}
      <3> DEFINE e == [request[c] EXCEPT !.keys = @ \ {k}]
      <3>1. request' = [request EXCEPT ![c] = e]
        BY <2>2, <1>2 DEF RemoveObject
      <3>2. e \in RequestKind /\ e.step = "remove" /\ e.keys = request[c].keys \ {k}
        BY <1>1, <1>2 DEF RequestKind
      <3> HIDE DEF e
      <3>3. RequestKnows(e)
        BY <3>2 DEF RequestKnows, Uploading
      <3> QED
        BY <3>1, <3>2, <3>3 DEF Turns
    <2> QED
      BY <2>1, <2>2
  <1>4. PICK e : /\ Turns(c, e) /\ (e.step = "remove" \/ (e.step = "idle" /\ e.keys = {}))
                 /\ e.keys = request[c].keys \ {k}
    BY <1>3
  <1>5. CASE objects' = objects \ {k} /\ UNCHANGED broken
    <2>1. {k} \subseteq request[c].keys /\ request[c].step \in {"compensate", "remove"}
      BY <1>1
    <2> QED
      BY <1>1, <1>4, <1>5, <2>1, TakesAway
  <1>6. CASE broken' = TRUE /\ UNCHANGED objects
    <2>1. ReliesOn(e)
      BY <1>1, <1>2, <1>4 DEF ReliesOn
    <2>2. \A j \in Keys : Handles(e, j) => Handles(request[c], j)
      BY <1>4 DEF Handles
    <2>3. e.step \notin {"duplicate", "put", "create"}
      BY <1>4
    <2> QED
      BY <1>1, <1>2, <1>4, <1>6, <2>1, <2>2, <2>3, QuietStep
  <1> QED
    BY <1>5, <1>6 DEF RemoveObject

-----------------------------------------------------------------------------
\* The upload of c goes on to e after its INSERT added a row, answered or not.
InsertedBy(c, e, k, told) ==
  /\ request[c].step = "create" /\ k = TheKey(c)
  /\ Turns(c, e) /\ e.keys = request[c].keys
  /\ e.step = IF told THEN "body" ELSE "compensate"
  /\ e.contract = request[c].contract
  /\ Inserts(k, told)
  /\ UNCHANGED <<contracts, objects, body, clashed>>
  /\ broken' \in BOOLEAN /\ (broken => broken') /\ (~told => broken')

LEMMA InsertKeeps ==
  ASSUME DocumentIndInv, NEW c \in Requests, NEW e, NEW k, NEW told \in BOOLEAN,
         InsertedBy(c, e, k, told)
  PROVE  DocumentIndInv'
  <1>1. /\ DocumentShapes /\ ReliesOn(request[c]) /\ RowsAreApart /\ request[c].step = "create"
        /\ request[c].step \in Uploading /\ objects \subseteq Keys /\ contracts \subseteq Contracts
        /\ clashed \subseteq Keys /\ broken \in BOOLEAN
        /\ body \in [Contracts -> {"manual", "document"}]
        /\ documents \subseteq [id : 1 .. IntakeMax, key : Keys, answered : BOOLEAN]
        /\ IsFiniteSet(documents)
    BY OfARequest DEF InsertedBy, Uploading, DocumentIndInv, DocumentShapes
  <1>2. IntakeMax \in Nat /\ intake \in 0 .. IntakeMax
    BY OfARequest, DocumentAssumption
  <1> DEFINE row == [id |-> intake + 1, key |-> k, answered |-> told]
  <1>3. k \in Keys /\ request[c].keys = {k}
    BY <1>1, KeyOfUpload DEF InsertedBy
  <1>4. /\ UNCHANGED <<contracts, objects, body, clashed>>
        /\ broken' \in BOOLEAN /\ (broken => broken') /\ (~told => broken')
    BY DEF InsertedBy
  <1>5. k \in objects \/ k \in clashed
    BY <1>1, <1>3 DEF ReliesOn
  <1>6. /\ k[1] \in contracts /\ ~Attached(k)
        /\ documents' = documents \cup {row}
        /\ intake < IntakeMax /\ intake' = intake + 1
    BY DEF InsertedBy, Inserts, Insertable
  <1>7. /\ Turns(c, e) /\ e.keys = request[c].keys /\ e.contract = request[c].contract
        /\ e.step = IF told THEN "body" ELSE "compensate"
    BY DEF InsertedBy
  <1>8. /\ row.id = intake + 1 /\ row.key = k /\ row.answered = told
        /\ row \in [id : 1 .. IntakeMax, key : Keys, answered : BOOLEAN]
    BY <1>2, <1>3, <1>6
  <1>9. intake <= intake' /\ intake' \in 0 .. IntakeMax /\ row.id > intake /\ row.id <= intake'
    BY <1>2, <1>6
  <1> HIDE DEF row
  <1>10. \A r \in documents : r.id <= intake /\ r.id # row.id /\ r.id <= intake'
    <2>1. \A r \in documents : r.id <= intake /\ r.id \in 1 .. IntakeMax
      BY <1>1 DEF RowsAreApart
    <2> QED
      BY <2>1, <1>2, <1>8, <1>9
  <1>11. row \notin documents /\ \A r \in documents : ~(r.key[1] = k[1] /\ r.key[2] = k[2])
    BY <1>6, <1>10 DEF Attached
  <1>12. RowsAreApart'
    <2>1. \A r, q \in documents' : r.key[1] = q.key[1] /\ r.key[2] = q.key[2] => r = q
      BY <1>1, <1>6, <1>8, <1>11 DEF RowsAreApart
    <2>2. \A r, q \in documents' : r.id = q.id => r = q
      BY <1>1, <1>6, <1>8, <1>10 DEF RowsAreApart
    <2>3. \A r \in documents' : r.key[1] \in contracts' /\ r.id <= intake'
      BY <1>1, <1>4, <1>6, <1>8, <1>9, <1>10 DEF RowsAreApart
    <2> QED
      BY <2>1, <2>2, <2>3 DEF RowsAreApart
  <1>13. DocumentShapes'
    <2>1. request' \in [Requests -> RequestKind] /\ \A d \in Requests : RequestKnows(request'[d])
      BY <1>1, <1>7, TurnsInto
    <2>2. documents' \subseteq [id : 1 .. IntakeMax, key : Keys, answered : BOOLEAN]
      BY <1>1, <1>6, <1>8
    <2>3. IsFiniteSet(documents')
      BY <1>1, <1>6, FS_AddElement
    <2>4. DocumentTypeOK'
      BY <1>1, <1>4, <1>9, <2>1, <2>2, RequestTypes
    <2> QED
      BY <2>1, <2>3, <2>4 DEF DocumentShapes
  <1>14. ReliesOn(e)'
    <2>1. ~told => Unanswered(k)'
      BY <1>6, <1>8, <1>11 DEF Unanswered
    <2>2. e.step \notin {"put", "create", "remove", "delete row", "cascade"}
      BY <1>7
    <2>3. e.keys = {k} /\ (e.step = "compensate" => Unanswered(k)')
      BY <1>3, <1>7, <2>1
    <2> QED
      BY <2>2, <2>3 DEF ReliesOn
  <1>15. \A j \in Keys : Handles(e, j) => Handles(request[c], j)
    BY <1>7 DEF Handles
  <1>16. \A r \in documents' : \/ r \in documents
                                \/ /\ r.id > intake /\ Handles(request[c], r.key)
                                   /\ r.answered => r.key \in objects' \cup clashed'
    BY <1>3, <1>4, <1>5, <1>6, <1>8, <1>9 DEF Handles
  <1>17. \A j \in objects' :
           \/ \E r \in documents' : r.key = j
           \/ j \in objects /\ ~StillOwes(request[c], j) /\ \A r \in documents : r.key # j
    BY <1>3, <1>4, <1>6, <1>8 DEF StillOwes
  <1>18. /\ HandledAlone' /\ \A d \in Requests : ReliesOn(request[d])'
         /\ MetadataHasBytes' /\ BytesHaveMetadata'
    BY <1>4, <1>7, <1>9, <1>13, <1>14, <1>15, <1>16, <1>17, StepOfOne
  <1>19. DocumentsAreCounted'
    <2>1. Cardinality(documents') = Cardinality(documents) + 1 /\ Cardinality(documents) \in Nat
      BY <1>1, <1>6, <1>11, FS_AddElement, FS_CardinalityType
    <2>2. c \in AboutToAdd /\ e.step \notin {"duplicate", "put", "create"}
      BY <1>1, <1>7 DEF AboutToAdd
    <2>3. Cardinality(AboutToAdd') + 1 <= Cardinality(AboutToAdd)
      BY <1>1, <1>7, <2>2, AddersFewer
    <2>4. Cardinality(documents) + Cardinality(AboutToAdd) <= Quota + Cardinality(Requests) - 1
      BY DEF DocumentIndInv, DocumentsAreCounted
    <2>5. Cardinality(documents') + Cardinality(AboutToAdd') <= Quota + Cardinality(Requests) - 1
      BY <2>1, <2>3, <2>4, AddersFinite, DocumentAssumption
    <2> QED
      BY <2>5 DEF DocumentsAreCounted
  <1> QED
    BY <1>12, <1>13, <1>18, <1>19 DEF DocumentIndInv

\* An INSERT that had no effect, its failure known or only feared.
LEMMA CompensatesNext ==
  ASSUME DocumentIndInv, NEW c \in Requests, request[c].step = "create", GoesTo(c, "compensate"),
         UNCHANGED <<store, clashed, intake>>, broken' \in BOOLEAN, broken => broken'
  PROVE  DocumentIndInv'
  <1>1. DocumentShapes /\ ReliesOn(request[c]) /\ request[c].step \in Uploading
    BY OfARequest DEF Uploading
  <1>2. ASSUME NEW e \in RequestKind, e.step = "compensate", e.keys = request[c].keys
        PROVE  ReliesOn(e)
    BY <1>1, <1>2 DEF ReliesOn, Unanswered
  <1> QED
    BY <1>1, <1>2, GoesOnQuietly

LEMMA CreateKeeps ==
  ASSUME DocumentIndInv, NEW c \in Requests, Create(c)
  PROVE  DocumentIndInv'
  <1>1. /\ DocumentShapes /\ request[c].step = "create" /\ request[c].step \in Uploading
        /\ broken \in BOOLEAN
        /\ UNCHANGED <<contracts, objects, body, clashed, broken>>
    BY OfARequest DEF Create, At, Uploading
  <1>2. CASE GoesTo(c, "compensate") /\ UNCHANGED <<documents, intake>>
    <2>1. UNCHANGED <<store, clashed, intake>>
      BY <1>1, <1>2 DEF store
    <2> QED
      BY <1>1, <1>2, <2>1, CompensatesNext
  <1>3. CASE Inserts(TheKey(c), TRUE) /\ GoesTo(c, "body")
    <2>1. PICK e : /\ Turns(c, e) /\ e.step = "body" /\ e.keys = request[c].keys
                   /\ e.contract = request[c].contract
      BY <1>1, <1>3, GoesToTurns
    <2>2. InsertedBy(c, e, TheKey(c), TRUE)
      BY <1>1, <1>3, <2>1 DEF InsertedBy
    <2> QED
      BY <2>2, InsertKeeps
  <1> QED
    BY <1>2, <1>3 DEF Create

LEMMA CreateFailsKeeps ==
  ASSUME DocumentIndInv, NEW c \in Requests, CreateFails(c)
  PROVE  DocumentIndInv'
  <1>1. /\ DocumentShapes /\ request[c].step = "create" /\ request[c].step \in Uploading
        /\ broken' = TRUE /\ GoesTo(c, "compensate")
        /\ UNCHANGED <<contracts, objects, body, clashed>>
    BY OfARequest DEF CreateFails, At, Uploading
  <1>2. CASE UNCHANGED <<documents, intake>>
    <2>1. UNCHANGED <<store, clashed, intake>>
      BY <1>1, <1>2 DEF store
    <2> QED
      BY <1>1, <2>1, CompensatesNext
  <1>3. CASE Inserts(TheKey(c), FALSE)
    <2>1. PICK e : /\ Turns(c, e) /\ e.step = "compensate" /\ e.keys = request[c].keys
                   /\ e.contract = request[c].contract
      BY <1>1, GoesToTurns
    <2>2. InsertedBy(c, e, TheKey(c), FALSE)
      BY <1>1, <1>3, <2>1 DEF InsertedBy
    <2> QED
      BY <2>2, InsertKeeps
  <1> QED
    BY <1>2, <1>3 DEF CreateFails

-----------------------------------------------------------------------------
\* A step of one request that takes away rows, and their contract or not.
LEMMA RowsGo ==
  ASSUME DocumentIndInv, NEW c \in Requests, NEW e, Turns(c, e), ReliesOn(e)',
         documents' \subseteq documents, contracts' \subseteq contracts,
         \A r \in documents' : r.key[1] \in contracts',
         UNCHANGED <<objects, body, clashed, broken, intake>>,
         \A k \in Keys : Handles(e, k) => Handles(request[c], k),
         \A r \in documents \ documents' : r.key \in clashed \/ StillOwes(e, r.key),
         request[c].step \notin {"create", "compensate", "remove"},
         e.step \notin {"duplicate", "put", "create"}
  PROVE  DocumentIndInv'
  <1>1. /\ DocumentShapes /\ intake \in 0 .. IntakeMax /\ IntakeMax \in Nat /\ objects \subseteq Keys
        /\ documents \subseteq [id : 1 .. IntakeMax, key : Keys, answered : BOOLEAN] /\ contracts \subseteq Contracts
        /\ IsFiniteSet(documents)
    BY OfARequest, DocumentAssumption DEF DocumentShapes
  <1>2. DocumentShapes'
    <2>1. request' \in [Requests -> RequestKind] /\ \A d \in Requests : RequestKnows(request'[d])
      BY <1>1, TurnsInto
    <2>2. documents' \subseteq [id : 1 .. IntakeMax, key : Keys, answered : BOOLEAN] /\ contracts' \subseteq Contracts
      BY <1>1
    <2>3. DocumentTypeOK'
      BY <1>1, <2>1, <2>2, RequestTypes DEF DocumentShapes
    <2>4. IsFiniteSet(documents')
      BY <1>1, FS_Subset
    <2> QED
      BY <2>1, <2>3, <2>4 DEF DocumentShapes
  <1>3. intake <= intake'
    BY <1>1
  <1>4. \A k \in objects' \ clashed' :
          \/ StillOwes(e, k)
          \/ \E r \in documents' : r.key = k
          \/ k \in objects /\ ~StillOwes(request[c], k) /\ \A r \in documents : r.key # k
    BY DEF StillOwes
  <1>5. /\ HandledAlone' /\ \A d \in Requests : ReliesOn(request[d])'
        /\ MetadataHasBytes' /\ BytesHaveMetadata'
    BY <1>2, <1>3, <1>4, StepOfOne
  <1>6. RowsAreApart'
    BY DEF DocumentIndInv, RowsAreApart
  <1>7. DocumentsAreCounted'
    BY CountedStill
  <1> QED
    BY <1>2, <1>5, <1>6, <1>7 DEF DocumentIndInv

LEMMA DeleteRowKeeps ==
  ASSUME DocumentIndInv, NEW c \in Requests, DeleteRow(c)
  PROVE  DocumentIndInv'
  <1>1. /\ DocumentShapes /\ ReliesOn(request[c]) /\ request[c].step = "delete row" /\ RowsAreApart
        /\ documents' = {r \in documents : r.id # request[c].id} /\ GoesTo(c, "remove")
        /\ UNCHANGED <<contracts, objects, body, clashed, broken, intake>>
    BY OfARequest DEF DeleteRow, At, DocumentIndInv
  <1>2. PICK e : /\ Turns(c, e) /\ e.step = "remove" /\ e.keys = request[c].keys
                 /\ e.contract = request[c].contract
    <2>1. \E e : /\ Turns(c, e) /\ e.step = "remove" /\ e.keys = request[c].keys /\ e.id = request[c].id
                 /\ e.contract = request[c].contract
      <3>1. DocumentShapes /\ GoesTo(c, "remove")
        BY <1>1
      <3> QED
        BY <3>1, GoesToTurns
    <2> QED
      BY <2>1
  <1>3. ReliesOn(e)'
    BY <1>1, <1>2 DEF ReliesOn
  <1>4. \A r \in documents \ documents' : StillOwes(e, r.key)
    BY <1>1, <1>2 DEF ReliesOn, StillOwes
  <1>5. \A k \in Keys : Handles(e, k) => Handles(request[c], k)
    BY <1>2 DEF Handles
  <1>6. documents' \subseteq documents /\ contracts' \subseteq contracts
        /\ \A r \in documents' : r.key[1] \in contracts'
    BY <1>1 DEF RowsAreApart
  <1> QED
    BY <1>1, <1>2, <1>3, <1>4, <1>5, <1>6, RowsGo

LEMMA CascadeKeeps ==
  ASSUME DocumentIndInv, NEW c \in Requests, Cascade(c)
  PROVE  DocumentIndInv'
  <1> DEFINE k == request[c].contract
  <1>1. /\ DocumentShapes /\ ReliesOn(request[c]) /\ request[c].step = "cascade" /\ RowsAreApart
        /\ RequestKnows(request[c])
        /\ contracts' = contracts \ {k} /\ documents' = {r \in documents : r.key[1] # k}
        /\ UNCHANGED <<objects, body, clashed, broken, intake>>
    BY OfARequest DEF Cascade, At, DocumentIndInv
  <1>2. documents' \subseteq documents /\ contracts' \subseteq contracts
        /\ \A r \in documents' : r.key[1] \in contracts'
    BY <1>1 DEF RowsAreApart
  <1>3. CASE k \in contracts /\ request[c].keys # {}
    <2>1. PICK e : /\ Turns(c, e) /\ e.step = "remove" /\ e.keys = request[c].keys
                   /\ e.contract = request[c].contract
      BY <1>1, <1>3, GoesToTurns DEF Cascade
    <2>2. ReliesOn(e)'
      BY <1>1, <2>1 DEF ReliesOn, RequestKnows
    <2>3. \A r \in documents \ documents' : r.key \in clashed \/ StillOwes(e, r.key)
      BY <1>1, <2>1 DEF ReliesOn, StillOwes
    <2>4. \A j \in Keys : Handles(e, j) => Handles(request[c], j)
      BY <2>1 DEF Handles
    <2> QED
      BY <1>1, <1>2, <2>1, <2>2, <2>3, <2>4, RowsGo
  <1>4. CASE ~(k \in contracts /\ request[c].keys # {})
    <2>1. Turns(c, Idle) /\ Idle.step = "idle" /\ Idle.keys = {}
      BY <1>4, DoneTurns, IdleIsKind DEF Cascade
    <2>2. ReliesOn(Idle)' /\ \A j \in Keys : ~Handles(Idle, j)
      BY <2>1 DEF ReliesOn, Handles
    <2>3. \A r \in documents \ documents' : r.key \in clashed
      BY <1>1, <1>4 DEF ReliesOn, RowsAreApart
    <2> QED
      BY <1>1, <1>2, <2>1, <2>2, <2>3, RowsGo
  <1> QED
    BY <1>3, <1>4

-----------------------------------------------------------------------------
LEMMA DocumentsInitially == DocumentsInit => DocumentIndInv
  <1> SUFFICES ASSUME DocumentsInit PROVE DocumentIndInv
    OBVIOUS
  <1>1. contracts = Contracts /\ documents = {} /\ objects = {} /\ clashed = {} /\ broken = FALSE
        /\ intake = 0 /\ body = [k \in Contracts |-> "manual"] /\ request = [c \in Requests |-> Idle]
    BY DEF DocumentsInit
  <1>2. \A c \in Requests : request[c] = Idle
    BY <1>1
  <1>3. DocumentShapes
    <2>1. intake \in 0 .. IntakeMax
      BY <1>1, DocumentAssumption
    <2>2. DocumentTypeOK
      BY <1>1, <2>1, RequestTypes, IdleIsKind
    <2> QED
      BY <1>1, <1>2, <2>2, IdleIsKind, FS_EmptySet DEF DocumentShapes
  <1>4. RowsAreApart /\ MetadataHasBytes /\ BytesHaveMetadata
    BY <1>1 DEF RowsAreApart, MetadataHasBytes, BytesHaveMetadata
  <1>5. HandledAlone /\ \A c \in Requests : ReliesOn(request[c])
    <2>1. ReliesOn(Idle) /\ \A k \in Keys : ~Handles(Idle, k)
      BY IdleIsKind DEF ReliesOn, Handles
    <2> QED
      BY <1>2, <2>1 DEF HandledAlone
  <1>6. DocumentsAreCounted
    <2>1. AboutToAdd = {}
      BY <1>2, IdleIsKind DEF AboutToAdd
    <2>2. Cardinality(documents) = 0 /\ Cardinality(AboutToAdd) = 0
      BY <1>1, <2>1, FS_EmptySet
    <2>3. Quota \in Nat /\ Quota >= 1 /\ Cardinality(Requests) \in Nat
      BY DocumentAssumption, AddersFinite
    <2>4. Cardinality(documents) + Cardinality(AboutToAdd) <= Quota + Cardinality(Requests) - 1
      BY <2>2, <2>3
    <2> QED
      BY <2>4 DEF DocumentsAreCounted
  <1> QED
    BY <1>3, <1>4, <1>5, <1>6 DEF DocumentIndInv

LEMMA DocumentsFollow ==
  ASSUME DocumentIndInv, [DocumentsNext]_documentVars
  PROVE  DocumentIndInv'
  <1>1. CASE UNCHANGED documentVars
    <2>1. UNCHANGED <<contracts, documents, objects, body, request, clashed, broken, intake>>
      BY <1>1 DEF documentVars, store
    <2>2. DocumentShapes' /\ RowsAreApart' /\ HandledAlone' /\ MetadataHasBytes' /\ BytesHaveMetadata'
      BY <2>1, RequestTypes DEF DocumentIndInv, DocumentShapes, RowsAreApart, HandledAlone,
         MetadataHasBytes, BytesHaveMetadata
    <2>3. ASSUME NEW c \in Requests PROVE ReliesOn(request[c])'
      <3>1. ReliesOn(request[c])
        BY DEF DocumentIndInv
      <3> QED
        BY <2>1, <3>1 DEF ReliesOn, Unanswered
    <2>4. DocumentsAreCounted'
      BY <2>1 DEF DocumentIndInv, DocumentsAreCounted, AboutToAdd
    <2> QED
      BY <2>2, <2>3, <2>4 DEF DocumentIndInv
  <1>2. CASE DocumentsNext
    BY <1>2, EditBodyKeeps, UploadKeeps, RemoveKeeps, CountKeeps, DuplicateKeeps, PutKeeps, CreateKeeps,
       CreateFailsKeeps, CompensateKeeps, BodyKeeps, BeginDeleteKeeps, BeginDeleteContractKeeps,
       DeleteRowKeeps, ListKeysKeeps, CascadeKeeps, DieKeeps
    DEF DocumentsNext
  <1> QED
    BY <1>1, <1>2

\* The rows of the documents and the objects of the bucket agree, whatever requests
\* overlap, fail or die: a row of a key that one request at a time handled has its
\* object, unless the INSERT was committed and its answer lost, for then the upload
\* takes it for failed and removes the bytes (ingestion.py:226-232); if nothing failed,
\* such an object has its row or a request that is about to write the one or remove
\* the other; and the limits are passed by less than the
\* number of uploads at once (ingestion.py:7-10, ingestion.py:143-198).
THEOREM RowsAndBytesAgree == DocumentsSpec => []DocumentInv
  <1>1. DocumentIndInv => DocumentInv
    <2> SUFFICES ASSUME DocumentIndInv PROVE DocumentInv
      OBVIOUS
    <2>1. QuotaStretch
      <3>1. Cardinality(documents) \in Nat
        BY FS_CardinalityType DEF DocumentIndInv, DocumentShapes
      <3>2. Cardinality(documents) + Cardinality(AboutToAdd) <= Quota + Cardinality(Requests) - 1
        BY DEF DocumentIndInv, DocumentsAreCounted
      <3>3. Cardinality(documents) <= Quota + Cardinality(Requests) - 1
        BY <3>1, <3>2, AddersFinite, DocumentAssumption
      <3> QED
        BY <3>3 DEF QuotaStretch
    <2> QED
      BY <2>1 DEF DocumentIndInv, DocumentShapes, DocumentInv
  <1> QED
    BY <1>1, DocumentsInitially, DocumentsFollow, PTL DEF DocumentsSpec

-----------------------------------------------------------------------------
\* A set of numbers has a least one.
LEMMA LeastNumber ==
  ASSUME NEW S, S \subseteq Nat, S # {}
  PROVE  \E n \in S : \A m \in S : n <= m
  <1> DEFINE R == OpToRel(<, Nat)
  <1>1. IsWellFoundedOn(R, Nat)
    BY NatLessThanWellFounded
  <1> HIDE DEF R
  <1>2. \E n \in S : \A m \in S : ~ (<<m, n>> \in R)
    BY <1>1, WFMin
  <1>3. \E n \in S : \A m \in S : ~ (m < n)
    BY <1>2 DEF OpToRel, R
  <1> QED BY <1>3

\* One with an upper bound has a greatest.
LEMMA GreatestNumber ==
  ASSUME NEW S, S \subseteq Nat, S # {}, NEW b \in Nat, \A n \in S : n <= b
  PROVE  \E n \in S : \A m \in S : n >= m
  <1> DEFINE U == {n \in Nat : \A m \in S : n >= m}
  <1>1. b \in U OBVIOUS
  <1>2. PICK u \in U : \A m \in U : u <= m
    <2>1. U \subseteq Nat /\ U # {} BY <1>1
    <2> HIDE DEF U
    <2> QED BY <2>1, LeastNumber
  <1>3. u \in S
    <2> SUFFICES ASSUME u \notin S PROVE FALSE OBVIOUS
    <2>1. PICK s \in S : TRUE OBVIOUS
    <2>2. s \in Nat /\ s < u BY <2>1, <1>2
    <2>3. \A m \in S : u - 1 >= m BY <2>2, <1>2
    <2>4. u - 1 \in U BY <2>2, <2>3, <1>2
    <2> QED BY <2>4, <1>2
  <1> QED BY <1>2, <1>3

-----------------------------------------------------------------------------
\* s holds the letters of tx from f to t, both of them letters, in their order.
Covers(tx, s, f, t) ==
  /\ s \in Seq(Int)
  /\ f \in DOMAIN tx /\ t \in DOMAIN tx /\ f <= t /\ tx[f] > 0 /\ tx[t] > 0
  /\ \A i, j \in DOMAIN s : i < j /\ s[i] > 0 /\ s[j] > 0 => s[i] < s[j]
  /\ \A i \in DOMAIN s : s[i] > 0 => s[i] \in f .. t /\ tx[s[i]] > 0
  /\ \A k \in f .. t : tx[k] > 0 => \E i \in DOMAIN s : s[i] = k

IsText(tx) ==
  /\ tx \in Seq(Int) /\ tx # <<>>
  /\ \A k \in DOMAIN tx : tx[k] \in {k, Blank, Stop, Break}
  /\ tx[1] > 0 /\ tx[Len(tx)] > 0
  /\ \A i, j \in DOMAIN tx : i <= j /\ (\A k \in i .. j : tx[k] <= 0) => tx[i] = tx[j]
  /\ \A i \in DOMAIN tx : i + MaxChars - 1 \in DOMAIN tx =>
       \E k \in i .. i + MaxChars - 1 : tx[k] > 0

\* Of text tx there are no letters from i to j.
NoLetter(tx, i, j) == \A k \in i .. j : tx[k] <= 0

LEMMA TextsAreTexts ==
  ASSUME NEW tx \in Texts, tx # <<>>
  PROVE  IsText(tx)
  BY TextAssumption DEF IsText

LEMMA CoversBounds ==
  ASSUME NEW tx, IsText(tx), NEW s, NEW f, NEW t, Covers(tx, s, f, t)
  PROVE  /\ Letters(s) = {k \in f .. t : tx[k] > 0}
         /\ First(s) = f /\ Final(s) = t /\ s # <<>>
  <1>1. DOMAIN tx = 1 .. Len(tx) /\ Len(tx) \in Nat /\ f \in Nat /\ t \in Nat
    BY DEF IsText, Covers
  <1>2. Letters(s) = {k \in f .. t : tx[k] > 0}
    BY <1>1 DEF Letters, Covers
  <1>3. f \in Letters(s) /\ \A l \in Letters(s) : f <= l
    BY <1>1, <1>2 DEF Covers
  <1>4. t \in Letters(s) /\ \A l \in Letters(s) : t >= l
    BY <1>1, <1>2 DEF Covers
  <1>5. \A l \in Letters(s) : l \in Nat
    BY <1>1, <1>2
  <1>6. First(s) = f
    <2>1. \A k \in Letters(s) : (\A l \in Letters(s) : k <= l) => k = f
      BY <1>3, <1>5, <1>1
    <2> QED BY <1>3, <2>1 DEF First
  <1>7. Final(s) = t
    <2>1. \A k \in Letters(s) : (\A l \in Letters(s) : k >= l) => k = t
      BY <1>4, <1>5, <1>1
    <2> QED BY <1>4, <2>1 DEF Final
  <1>8. s # <<>> BY <1>1 DEF Covers
  <1> QED BY <1>2, <1>6, <1>7, <1>8

\* A part of the text covers its letters.
LEMMA PartCovers ==
  ASSUME NEW tx, IsText(tx), NEW a \in DOMAIN tx, NEW b \in DOMAIN tx,
         NEW f \in a .. b, NEW t \in f .. b, tx[f] > 0, tx[t] > 0,
         NoLetter(tx, a, f - 1), NoLetter(tx, t + 1, b)
  PROVE  /\ Covers(tx, SubSeq(tx, a, b), f, t)
         /\ Len(SubSeq(tx, a, b)) = b - a + 1
  <1>1. DOMAIN tx = 1 .. Len(tx) /\ Len(tx) \in Nat /\ tx \in Seq(Int)
    BY DEF IsText
  <1> DEFINE s == SubSeq(tx, a, b)
  <1>2. /\ s \in Seq(Int) /\ Len(s) = b - a + 1
        /\ \A i \in 1 .. b - a + 1 : s[i] = tx[a + i - 1]
    <2>1. a \in 1 .. Len(tx) /\ b \in 1 .. Len(tx) /\ a <= b BY <1>1
    <2>2. \A i \in a .. b : tx[i] \in Int BY <2>1, <1>1
    <2>3. a \in Int /\ b \in Int BY <2>1
    <2> QED BY <2>1, <2>2, <2>3, SubSeqProperties, SMTT(30)
  <1>3. DOMAIN s = 1 .. b - a + 1 BY <1>2
  <1>4. \A i \in DOMAIN s : s[i] > 0 => s[i] = a + i - 1
    <2> SUFFICES ASSUME NEW i \in DOMAIN s, s[i] > 0 PROVE s[i] = a + i - 1
      OBVIOUS
    <2> HIDE DEF s
    <2>1. s[i] = tx[a + i - 1] BY <1>2, <1>3
    <2>0. a + i - 1 \in DOMAIN tx
      <3>1. a \in 1 .. Len(tx) /\ b \in 1 .. Len(tx) /\ i \in 1 .. b - a + 1
        BY <1>1, <1>3
      <3> QED BY <3>1, <1>1, SMTT(30)
    <2>2. tx[a + i - 1] \in {a + i - 1, Blank, Stop, Break} BY <2>0 DEF IsText
    <2> QED BY <2>1, <2>2 DEF Blank, Stop, Break
  <1>5. \A k \in a .. b : tx[k] > 0 => tx[k] = k
    <2> SUFFICES ASSUME NEW k \in a .. b, tx[k] > 0 PROVE tx[k] = k
      OBVIOUS
    <2>0. k \in DOMAIN tx
      <3>1. a \in 1 .. Len(tx) /\ b \in 1 .. Len(tx) BY <1>1
      <3> QED BY <3>1, <1>1
    <2>1. tx[k] \in {k, Blank, Stop, Break} BY <2>0 DEF IsText
    <2> QED BY <2>1 DEF Blank, Stop, Break
  <1>6. \A k \in a .. b : tx[k] > 0 => k \in f .. t
    BY <1>1 DEF NoLetter
  <1> HIDE DEF s
  <1>7. \A i, j \in DOMAIN s : i < j /\ s[i] > 0 /\ s[j] > 0 => s[i] < s[j]
    BY <1>1, <1>3, <1>4
  <1>8. \A i \in DOMAIN s : s[i] > 0 => s[i] \in f .. t /\ tx[s[i]] > 0
    <2> SUFFICES ASSUME NEW i \in DOMAIN s, s[i] > 0
                 PROVE  s[i] \in f .. t /\ tx[s[i]] > 0
      OBVIOUS
    <2>1. s[i] = a + i - 1 /\ s[i] = tx[a + i - 1] BY <1>2, <1>3, <1>4
    <2>2. a + i - 1 \in a .. b BY <1>1, <1>3, SMTT(30)
    <2> QED BY <2>1, <2>2, <1>6
  <1>9. \A k \in f .. t : tx[k] > 0 => \E i \in DOMAIN s : s[i] = k
    <2> SUFFICES ASSUME NEW k \in f .. t, tx[k] > 0 PROVE \E i \in DOMAIN s : s[i] = k
      OBVIOUS
    <2>1. k \in a .. b /\ tx[k] = k BY <1>1, <1>5
    <2>2. k - a + 1 \in 1 .. b - a + 1 /\ a + (k - a + 1) - 1 = k
      <3>1. a \in Int /\ b \in Int /\ k \in Int /\ a <= k /\ k <= b BY <1>1, <2>1
      <3> QED BY <3>1
    <2>3. s[k - a + 1] = k BY <1>2, <2>1, <2>2
    <2> QED BY <2>2, <2>3, <1>3
  <1>10. f \in DOMAIN tx /\ t \in DOMAIN tx /\ f <= t BY <1>1
  <1> QED BY <1>2, <1>7, <1>8, <1>9, <1>10 DEF Covers, s

\* Two sequences with white space between them.
LEMMA CatAt ==
  ASSUME NEW a \in Seq(Int), NEW g \in Seq(Int), NEW b \in Seq(Int)
  PROVE  /\ a \o g \o b \in Seq(Int)
         /\ Len(a \o g \o b) = Len(a) + Len(g) + Len(b)
         /\ \A i \in 1 .. Len(a) : (a \o g \o b)[i] = a[i]
         /\ \A i \in 1 .. Len(g) : (a \o g \o b)[Len(a) + i] = g[i]
         /\ \A i \in 1 .. Len(b) : (a \o g \o b)[Len(a) + Len(g) + i] = b[i]
  <1> DEFINE d == a \o g
             c == d \o b
  <1>1. /\ d \in Seq(Int) /\ Len(d) = Len(a) + Len(g)
        /\ \A i \in 1 .. Len(a) + Len(g) : d[i] = IF i <= Len(a) THEN a[i] ELSE g[i - Len(a)]
    BY ConcatProperties
  <1> HIDE DEF d
  <1>2. /\ c \in Seq(Int) /\ Len(c) = Len(d) + Len(b)
        /\ \A i \in 1 .. Len(d) + Len(b) : c[i] = IF i <= Len(d) THEN d[i] ELSE b[i - Len(d)]
    <2>1. d \in Seq(Int) BY <1>1
    <2> QED BY <2>1, ConcatProperties
  <1> HIDE DEF c
  <1>3. Len(a) \in Nat /\ Len(g) \in Nat /\ Len(b) \in Nat OBVIOUS
  <1>4. \A i \in 1 .. Len(a) : c[i] = a[i]
    <2> TAKE i \in 1 .. Len(a)
    <2>1. i \in 1 .. Len(d) + Len(b) /\ i <= Len(d) /\ i \in 1 .. Len(a) + Len(g) /\ i <= Len(a)
      BY <1>1, <1>3
    <2>2. c[i] = d[i] BY <1>2, <2>1
    <2> QED BY <1>1, <2>1, <2>2
  <1>5. \A i \in 1 .. Len(g) : c[Len(a) + i] = g[i]
    <2> TAKE i \in 1 .. Len(g)
    <2> DEFINE j == Len(a) + i
    <2>1. j \in 1 .. Len(a) + Len(g) /\ ~(j <= Len(a)) /\ j - Len(a) = i /\ j <= Len(d)
          /\ j \in 1 .. Len(d) + Len(b)
      BY <1>1, <1>3
    <2> HIDE DEF j
    <2>2. c[j] = d[j] BY <1>2, <2>1
    <2>3. d[j] = g[i] BY <1>1, <2>1
    <2> QED BY <2>2, <2>3 DEF j
  <1>6. \A i \in 1 .. Len(b) : c[Len(a) + Len(g) + i] = b[i]
    <2> TAKE i \in 1 .. Len(b)
    <2> DEFINE j == Len(a) + Len(g) + i
    <2>1. j \in 1 .. Len(d) + Len(b) /\ ~(j <= Len(d)) /\ j - Len(d) = i
      BY <1>1, <1>3
    <2> HIDE DEF j
    <2>2. c[j] = b[i] BY <1>2, <2>1
    <2> QED BY <2>2 DEF j
  <1> QED BY <1>1, <1>2, <1>4, <1>5, <1>6 DEF c, d

\* What c covers that consists of a, white space, and b, which goes on after a.
LEMMA JoinCovers ==
  ASSUME NEW tx, IsText(tx), NEW a, NEW f, NEW t, Covers(tx, a, f, t),
         NEW b, NEW g, NEW u, Covers(tx, b, g, u), t < g, NoLetter(tx, t + 1, g - 1),
         NEW w \in Seq(Int), \A i \in DOMAIN w : w[i] <= 0
  PROVE  /\ Covers(tx, a \o w \o b, f, u)
         /\ Len(a \o w \o b) = Len(a) + Len(w) + Len(b)
  <1>1. /\ DOMAIN tx = 1 .. Len(tx) /\ Len(tx) \in Nat
        /\ {f, t, g, u} \subseteq Nat /\ f <= t /\ g <= u
        /\ a \in Seq(Int) /\ b \in Seq(Int)
    <2>1. DOMAIN tx = 1 .. Len(tx) /\ Len(tx) \in Nat BY DEF IsText
    <2>2. /\ f \in DOMAIN tx /\ t \in DOMAIN tx /\ g \in DOMAIN tx /\ u \in DOMAIN tx
          /\ f <= t /\ g <= u /\ a \in Seq(Int) /\ b \in Seq(Int)
      BY DEF Covers
    <2> QED BY <2>1, <2>2
  <1> DEFINE c == a \o w \o b
             n == Len(a) + Len(w)
  <1>2. /\ Len(a) \in Nat /\ Len(w) \in Nat /\ Len(b) \in Nat /\ n \in Nat
        /\ DOMAIN a = 1 .. Len(a) /\ DOMAIN b = 1 .. Len(b) /\ DOMAIN w = 1 .. Len(w)
    BY <1>1
  <1>3. /\ c \in Seq(Int) /\ Len(c) = n + Len(b)
        /\ \A i \in DOMAIN a : c[i] = a[i]
        /\ \A i \in DOMAIN w : c[Len(a) + i] = w[i]
        /\ \A i \in DOMAIN b : c[n + i] = b[i]
    <2>1. /\ c \in Seq(Int)
          /\ Len(c) = Len(a) + Len(w) + Len(b)
          /\ \A i \in 1 .. Len(a) : c[i] = a[i]
          /\ \A i \in 1 .. Len(w) : c[Len(a) + i] = w[i]
          /\ \A i \in 1 .. Len(b) : c[Len(a) + Len(w) + i] = b[i]
      BY <1>1, CatAt
    <2> HIDE DEF c
    <2> QED BY <1>2, <2>1
  <1>4. DOMAIN c = 1 .. n + Len(b) BY <1>2, <1>3
  <1> HIDE DEF c
  <1>5. ASSUME NEW i \in DOMAIN c
        PROVE  \/ i \in DOMAIN a
               \/ i > Len(a) /\ i <= n /\ i - Len(a) \in DOMAIN w /\ Len(a) + (i - Len(a)) = i
               \/ i > n /\ i - n \in DOMAIN b /\ n + (i - n) = i
    BY <1>2, <1>4
  <1>6. ASSUME NEW i \in DOMAIN c, c[i] > 0
        PROVE  \/ i \in DOMAIN a /\ c[i] = a[i] /\ i <= Len(a)
               \/ i > n /\ i - n \in DOMAIN b /\ c[i] = b[i - n]
    <2>1. CASE i \in DOMAIN a BY <2>1, <1>3, <1>2
    <2>2. CASE i > Len(a) /\ i <= n /\ i - Len(a) \in DOMAIN w /\ Len(a) + (i - Len(a)) = i
      <3>1. c[i] = w[i - Len(a)] BY <2>2, <1>3
      <3>2. w[i - Len(a)] <= 0 BY <2>2
      <3>3. c[i] \in Int BY <1>3
      <3> QED BY <3>1, <3>2, <3>3, <1>6
    <2>3. CASE i > n /\ i - n \in DOMAIN b /\ n + (i - n) = i
      BY <2>3, <1>3
    <2> QED BY <2>1, <2>2, <2>3, <1>5
  <1>7. \A i \in DOMAIN a : a[i] > 0 => a[i] \in f .. t /\ tx[a[i]] > 0
    BY DEF Covers
  <1>8. \A i \in DOMAIN b : b[i] > 0 => b[i] \in g .. u /\ tx[b[i]] > 0
    BY DEF Covers
  <1>9. ASSUME NEW i \in DOMAIN c, NEW j \in DOMAIN c, i < j, c[i] > 0, c[j] > 0
        PROVE  c[i] < c[j]
    <2>0. i \in Nat /\ j \in Nat BY <1>4, <1>2
    <2>1. CASE i \in DOMAIN a /\ c[i] = a[i] /\ i <= Len(a)
      <3>1. CASE j \in DOMAIN a /\ c[j] = a[j] /\ j <= Len(a)
        BY <2>1, <3>1, <1>9 DEF Covers
      <3>2. CASE j > n /\ j - n \in DOMAIN b /\ c[j] = b[j - n]
        <4>1. a[i] \in f .. t BY <2>1, <1>7, <1>9
        <4>2. b[j - n] \in g .. u BY <3>2, <1>8, <1>9
        <4> QED BY <4>1, <4>2, <2>1, <3>2, <1>1
      <3> QED BY <3>1, <3>2, <1>6, <1>9
    <2>2. CASE i > n /\ i - n \in DOMAIN b /\ c[i] = b[i - n]
      <3>1. j > n BY <2>2, <2>0, <1>2, <1>9
      <3>2. j - n \in DOMAIN b /\ c[j] = b[j - n]
        BY <3>1, <1>6, <1>9, <2>0, <1>2
      <3>3. i - n < j - n BY <2>0, <1>2, <1>9
      <3> QED BY <2>2, <3>2, <3>3, <1>9 DEF Covers
    <2> QED BY <2>1, <2>2, <1>6, <1>9
  <1>10. \A i \in DOMAIN c : c[i] > 0 => c[i] \in f .. u /\ tx[c[i]] > 0
    <2> SUFFICES ASSUME NEW i \in DOMAIN c, c[i] > 0
                 PROVE  c[i] \in f .. u /\ tx[c[i]] > 0
      OBVIOUS
    <2>1. CASE i \in DOMAIN a /\ c[i] = a[i] BY <2>1, <1>7, <1>1
    <2>2. CASE i - n \in DOMAIN b /\ c[i] = b[i - n] BY <2>2, <1>8, <1>1
    <2> QED BY <2>1, <2>2, <1>6
  <1>11. \A k \in f .. u : tx[k] > 0 => \E i \in DOMAIN c : c[i] = k
    <2> SUFFICES ASSUME NEW k \in f .. u, tx[k] > 0 PROVE \E i \in DOMAIN c : c[i] = k
      OBVIOUS
    <2>1. k \in f .. t \/ k \in g .. u
      <3>1. ~(k \in t + 1 .. g - 1)
        <4>1. tx[k] \in Int BY <1>1, SMTT(30) DEF IsText, Covers
        <4> QED BY <4>1 DEF NoLetter
      <3> QED BY <3>1, <1>1
    <2>2. CASE k \in f .. t
      <3>1. PICK i \in DOMAIN a : a[i] = k BY <2>2 DEF Covers
      <3>2. c[i] = k /\ i \in DOMAIN c BY <3>1, <1>2, <1>3, <1>4
      <3> QED BY <3>2
    <2>3. CASE k \in g .. u
      <3>1. PICK i \in DOMAIN b : b[i] = k BY <2>3 DEF Covers
      <3>2. c[n + i] = k /\ n + i \in DOMAIN c BY <3>1, <1>2, <1>3, <1>4
      <3> QED BY <3>2
    <2> QED BY <2>1, <2>2, <2>3
  <1>12. f \in DOMAIN tx /\ u \in DOMAIN tx /\ f <= u /\ tx[f] > 0 /\ tx[u] > 0
    BY <1>1 DEF Covers
  <1>13. Covers(tx, c, f, u)
    BY <1>3, <1>9, <1>10, <1>11, <1>12 DEF Covers
  <1> QED BY <1>13, <1>3 DEF c

\* White space before s changes nothing of what it covers.
LEMMA PadCovers ==
  ASSUME NEW tx, NEW w \in Seq(Int), \A i \in DOMAIN w : w[i] <= 0,
         NEW s, NEW f, NEW t, Covers(tx, s, f, t)
  PROVE  /\ Covers(tx, w \o s, f, t)
         /\ Len(w \o s) = Len(w) + Len(s)
  <1> DEFINE c == w \o s
             n == Len(w)
  <1>1. s \in Seq(Int) BY DEF Covers
  <1>2. /\ c \in Seq(Int) /\ Len(c) = n + Len(s)
        /\ \A i \in 1 .. n + Len(s) : c[i] = IF i <= n THEN w[i] ELSE s[i - n]
    BY <1>1, ConcatProperties
  <1> HIDE DEF c
  <1>3. /\ DOMAIN c = 1 .. n + Len(s) /\ n \in Nat /\ Len(s) \in Nat
        /\ DOMAIN s = 1 .. Len(s) /\ DOMAIN w = 1 .. n
    BY <1>1, <1>2
  <1>4. ASSUME NEW i \in DOMAIN c, c[i] > 0
        PROVE  i > n /\ i - n \in DOMAIN s /\ c[i] = s[i - n] /\ i \in Nat
    <2>1. CASE i <= n
      <3>1. i \in DOMAIN w /\ c[i] = w[i] BY <2>1, <1>2, <1>3
      <3>2. c[i] <= 0 /\ c[i] \in Int BY <3>1
      <3> QED BY <3>2, <1>4
    <2>2. CASE i > n BY <2>2, <1>2, <1>3
    <2> QED BY <2>1, <2>2, <1>3
  <1>5. ASSUME NEW i \in DOMAIN s PROVE n + i \in DOMAIN c /\ c[n + i] = s[i]
    <2> DEFINE j == n + i
    <2>1. j \in 1 .. n + Len(s) /\ ~(j <= n) /\ j - n = i BY <1>3
    <2> HIDE DEF j
    <2>2. c[j] = s[i] BY <2>1, <1>2
    <2> QED BY <2>1, <2>2, <1>3 DEF j
  <1>6. \A i, j \in DOMAIN c : i < j /\ c[i] > 0 /\ c[j] > 0 => c[i] < c[j]
    <2> SUFFICES ASSUME NEW i \in DOMAIN c, NEW j \in DOMAIN c, i < j, c[i] > 0, c[j] > 0
                 PROVE  c[i] < c[j]
      OBVIOUS
    <2>1. i - n \in DOMAIN s /\ c[i] = s[i - n] /\ i \in Nat BY <1>4
    <2>2. j - n \in DOMAIN s /\ c[j] = s[j - n] /\ j \in Nat BY <1>4
    <2>3. i - n < j - n BY <2>1, <2>2, <1>3
    <2> QED BY <2>1, <2>2, <2>3 DEF Covers
  <1>7. \A i \in DOMAIN c : c[i] > 0 => c[i] \in f .. t /\ tx[c[i]] > 0
    BY <1>4 DEF Covers
  <1>8. \A k \in f .. t : tx[k] > 0 => \E i \in DOMAIN c : c[i] = k
    <2> SUFFICES ASSUME NEW k \in f .. t, tx[k] > 0 PROVE \E i \in DOMAIN c : c[i] = k
      OBVIOUS
    <2>1. PICK i \in DOMAIN s : s[i] = k BY DEF Covers
    <2> QED BY <2>1, <1>5
  <1>9. Covers(tx, c, f, t)
    BY <1>2, <1>6, <1>7, <1>8 DEF Covers
  <1> QED BY <1>2, <1>9 DEF c

\* c, which is s from a to b, has nothing but white space, or covers a part of
\* what s covers.
IsSlice(tx, s, f, t, a, b, c) ==
  /\ c \in Seq(Int) /\ Len(c) = b - a + 1
  /\ \/ \A i \in DOMAIN c : c[i] <= 0
     \/ \E g \in f .. t, u \in f .. t :
          /\ Covers(tx, c, g, u)
          /\ (\A i \in 1 .. Len(s) : s[i] = f => a <= i) => g = f
          /\ (\A i \in 1 .. Len(s) : s[i] = t => i <= b) => u = t

LEMMA SliceCovers ==
  ASSUME NEW tx, IsText(tx), NEW s, NEW f, NEW t, Covers(tx, s, f, t),
         NEW a \in 1 .. Len(s), NEW b \in a .. Len(s)
  PROVE  IsSlice(tx, s, f, t, a, b, SubSeq(s, a, b))
  <1> DEFINE c == SubSeq(s, a, b)
             L == {k \in f .. t : \E i \in a .. b : s[i] = k}
  <1>1. /\ DOMAIN tx = 1 .. Len(tx) /\ Len(tx) \in Nat /\ s \in Seq(Int)
        /\ f \in Nat /\ t \in Nat /\ f <= t /\ f > 0 /\ DOMAIN s = 1 .. Len(s) /\ Len(s) \in Nat
    <2>1. DOMAIN tx = 1 .. Len(tx) /\ Len(tx) \in Nat BY DEF IsText
    <2>2. f \in DOMAIN tx /\ t \in DOMAIN tx /\ f <= t /\ s \in Seq(Int) BY DEF Covers
    <2> QED BY <2>1, <2>2
  <1>2. /\ c \in Seq(Int) /\ Len(c) = b - a + 1
        /\ \A i \in 1 .. b - a + 1 : c[i] = s[a + i - 1]
    <2>1. a \in Int /\ b \in Int /\ a <= b BY <1>1
    <2>2. \A i \in a .. b : s[i] \in Int BY <1>1
    <2> QED BY <2>1, <2>2, SubSeqProperties
  <1>3. DOMAIN c = 1 .. b - a + 1 BY <1>2
  <1>4. ASSUME NEW i \in DOMAIN c
        PROVE  a + i - 1 \in DOMAIN s /\ a + i - 1 \in a .. b /\ c[i] = s[a + i - 1] /\ i \in Nat
    BY <1>1, <1>2, <1>3, SMTT(30)
  <1>5. ASSUME NEW i \in a .. b
        PROVE  i - a + 1 \in DOMAIN c /\ c[i - a + 1] = s[i] /\ i \in DOMAIN s /\ i \in Nat
    <2> DEFINE j == i - a + 1
    <2>1. j \in 1 .. b - a + 1 /\ a + j - 1 = i BY <1>1
    <2> HIDE DEF j
    <2>2. c[j] = s[i] BY <1>2, <2>1
    <2> QED BY <2>1, <2>2, <1>1, <1>3 DEF j
  <1> HIDE DEF c
  <1>6. \A i \in a .. b : s[i] > 0 => s[i] \in L /\ tx[s[i]] > 0
    <2> SUFFICES ASSUME NEW i \in a .. b, s[i] > 0 PROVE s[i] \in L /\ tx[s[i]] > 0
      OBVIOUS
    <2>1. s[i] \in f .. t /\ tx[s[i]] > 0 BY <1>5 DEF Covers
    <2> QED BY <2>1
  <1>7. L \subseteq Nat /\ \A k \in L : k <= t BY <1>1
  <1>8. CASE L = {}
    <2>1. \A i \in DOMAIN c : c[i] <= 0
      <3> TAKE i \in DOMAIN c
      <3>1. ~(s[a + i - 1] > 0) BY <1>4, <1>6, <1>8
      <3> QED BY <3>1, <1>4, <1>2
    <2> QED BY <2>1, <1>2 DEF c, IsSlice
  <1>9. CASE L # {}
    <2>1. PICK g \in L : \A k \in L : g <= k
      <3> HIDE DEF L
      <3> QED BY <1>7, <1>9, LeastNumber
    <2>2. PICK u \in L : \A k \in L : u >= k
      <3> HIDE DEF L
      <3> QED BY <1>1, <1>7, <1>9, GreatestNumber
    <2>3. g \in f .. t /\ u \in f .. t /\ g <= u BY <2>1, <2>2
    <2>4. PICK p \in a .. b : s[p] = g BY <2>1
    <2>5. PICK q \in a .. b : s[q] = u BY <2>2
    <2>6. g \in Nat /\ u \in Nat /\ g > 0 /\ u > 0 BY <2>3, <1>1
    <2>7. tx[g] > 0 /\ tx[u] > 0
      BY <1>6, <2>4, <2>5, <2>6
    <2>8. \A i, j \in DOMAIN c : i < j /\ c[i] > 0 /\ c[j] > 0 => c[i] < c[j]
      <3> SUFFICES ASSUME NEW i \in DOMAIN c, NEW j \in DOMAIN c, i < j, c[i] > 0, c[j] > 0
                   PROVE  c[i] < c[j]
        OBVIOUS
      <3>1. a + i - 1 < a + j - 1 BY <1>1, <1>4, SMTT(30)
      <3>2. a + i - 1 \in DOMAIN s /\ c[i] = s[a + i - 1] BY <1>4
      <3>3. a + j - 1 \in DOMAIN s /\ c[j] = s[a + j - 1] BY <1>4
      <3> QED BY <3>1, <3>2, <3>3 DEF Covers
    <2>9. \A i \in DOMAIN c : c[i] > 0 => c[i] \in g .. u /\ tx[c[i]] > 0
      <3> SUFFICES ASSUME NEW i \in DOMAIN c, c[i] > 0
                   PROVE  c[i] \in g .. u /\ tx[c[i]] > 0
        OBVIOUS
      <3>1. c[i] \in L /\ tx[c[i]] > 0 BY <1>4, <1>6
      <3> QED BY <3>1, <2>1, <2>2, <1>7
    <2>10. \A k \in g .. u : tx[k] > 0 => \E i \in DOMAIN c : c[i] = k
      <3> SUFFICES ASSUME NEW k \in g .. u, tx[k] > 0 PROVE \E i \in DOMAIN c : c[i] = k
        OBVIOUS
      <3>1. k \in f .. t /\ k \in Nat /\ k > 0 BY <2>3, <1>1
      <3>2. PICK i \in DOMAIN s : s[i] = k BY <3>1 DEF Covers
      <3>3. i >= p
        <4>1. i < p => s[i] < s[p] BY <3>1, <3>2, <2>4, <2>6, <1>5 DEF Covers
        <4>2. s[p] <= s[i] BY <3>2, <2>4, <2>6, <2>3
        <4>3. i \in Nat /\ p \in Nat BY <1>1, <1>5
        <4> QED BY <4>1, <4>2, <4>3, <3>1, <3>2, <2>4, <2>6
      <3>4. i <= q
        <4>1. q < i => s[q] < s[i] BY <3>1, <3>2, <2>5, <2>6, <1>5 DEF Covers
        <4>2. s[i] <= s[q] BY <3>2, <2>5, <2>6, <2>3
        <4>3. i \in Nat /\ q \in Nat BY <1>1, <1>5
        <4> QED BY <4>1, <4>2, <4>3, <3>1, <3>2, <2>5, <2>6
      <3>5. i \in a .. b
        <4>1. i \in Int /\ a \in Int /\ b \in Int /\ a <= p /\ q <= b /\ p \in Int /\ q \in Int
          BY <1>1, <1>5
        <4> QED BY <4>1, <3>3, <3>4
      <3> QED BY <3>5, <3>2, <1>5
    <2>11. Covers(tx, c, g, u)
      <3>1. g \in DOMAIN tx /\ u \in DOMAIN tx
        <4>1. f \in DOMAIN tx /\ t \in DOMAIN tx BY DEF Covers
        <4> QED BY <4>1, <2>3, <1>1, SMTT(30)
      <3> QED BY <3>1, <1>2, <2>3, <2>7, <2>8, <2>9, <2>10 DEF Covers
    <2>12. ASSUME \A i \in 1 .. Len(s) : s[i] = f => a <= i PROVE g = f
      <3>1. PICK i \in DOMAIN s : s[i] = f BY <1>1, SMTT(30) DEF Covers
      <3>2. a <= i BY <2>12, <3>1, <1>1
      <3>3. i <= b
        <4>1. i > p => s[p] < s[i] BY <3>1, <2>4, <2>6, <1>5, <1>1 DEF Covers
        <4>2. f <= g BY <2>3, <1>1
        <4>3. i \in Nat /\ p \in Nat /\ p <= b BY <1>1, <1>5
        <4> QED BY <4>1, <4>2, <4>3, <3>1, <2>4, <2>6, <1>1
      <3>4. f \in L BY <3>1, <3>2, <3>3, <1>1
      <3> QED BY <3>4, <2>1, <2>3, <2>6, <1>1
    <2>13. ASSUME \A i \in 1 .. Len(s) : s[i] = t => i <= b PROVE u = t
      <3>0. t \in f .. t /\ tx[t] > 0 BY <1>1 DEF Covers
      <3>1. PICK i \in DOMAIN s : s[i] = t BY <3>0 DEF Covers
      <3>2. i <= b BY <2>13, <3>1, <1>1
      <3>3. a <= i
        <4>0. t > 0 /\ q \in DOMAIN s BY <1>1, <1>5
        <4>1. i < q => s[i] < s[q] BY <3>1, <2>5, <2>6, <4>0 DEF Covers
        <4>2. u <= t BY <2>3, <1>1
        <4>3. i \in Nat /\ q \in Nat /\ a <= q BY <1>1, <1>5
        <4> QED BY <4>1, <4>2, <4>3, <3>1, <2>5, <2>6, <1>1
      <3>4. t \in L BY <3>1, <3>2, <3>3, <1>1
      <3> QED BY <3>4, <2>2, <2>3, <2>6, <1>1
    <2> QED BY <1>2, <2>3, <2>11, <2>12, <2>13 DEF c, IsSlice
  <1> QED BY <1>8, <1>9

-----------------------------------------------------------------------------
\* str.strip takes no letter away.
LEMMA StripCovers ==
  ASSUME NEW tx, IsText(tx), NEW s, NEW f, NEW t, Covers(tx, s, f, t)
  PROVE  Covers(tx, Strip(s), f, t) /\ Len(Strip(s)) <= Len(s)
  <1> DEFINE ink == {i \in DOMAIN s : s[i] > 0}
  <1>1. s \in Seq(Int) /\ DOMAIN s = 1 .. Len(s) /\ Len(s) \in Nat BY DEF Covers
  <1>2. f \in f .. t /\ t \in f .. t /\ tx[f] > 0 /\ f > 0 /\ t > 0
    <2>1. f \in DOMAIN tx /\ t \in DOMAIN tx /\ f <= t /\ tx[f] > 0 BY DEF Covers
    <2>2. DOMAIN tx = 1 .. Len(tx) /\ Len(tx) \in Nat BY DEF IsText
    <2> QED BY <2>1, <2>2
  <1>3. PICK p \in DOMAIN s : s[p] = f BY <1>2 DEF Covers
  <1>4. ink # {} /\ ink \subseteq Nat /\ \A i \in ink : i <= Len(s)
    BY <1>1, <1>2, <1>3
  <1>5. \A i \in 1 .. Len(s) : s[i] = f => i \in ink BY <1>1, <1>2
  <1>6. \A i \in 1 .. Len(s) : s[i] = t => i \in ink BY <1>1, <1>2
  <1>7. \A i \in ink : i \in 1 .. Len(s) /\ s[i] > 0 BY <1>1
  <1> HIDE DEF ink
  <1>8. (CHOOSE i \in ink : \A j \in ink : i <= j) \in ink
        /\ \A j \in ink : (CHOOSE i \in ink : \A k \in ink : i <= k) <= j
    BY <1>4, LeastNumber
  <1>9. (CHOOSE i \in ink : \A j \in ink : i >= j) \in ink
        /\ \A j \in ink : (CHOOSE i \in ink : \A k \in ink : i >= k) >= j
    BY <1>1, <1>4, GreatestNumber
  <1>10. PICK a \in ink, b \in ink :
           /\ Strip(s) = SubSeq(s, a, b)
           /\ \A j \in ink : a <= j /\ b >= j
    <2>1. Strip(s) = SubSeq(s, CHOOSE i \in ink : \A j \in ink : i <= j,
                               CHOOSE i \in ink : \A j \in ink : i >= j)
      BY DEF Strip, ink
    <2> QED BY <2>1, <1>8, <1>9
  <1>11. a \in 1 .. Len(s) /\ b \in a .. Len(s) /\ s[a] > 0
    BY <1>1, <1>7, <1>10
  <1> DEFINE c == SubSeq(s, a, b)
  <1>12. /\ c \in Seq(Int) /\ Len(c) = b - a + 1
         /\ \/ \A i \in DOMAIN c : c[i] <= 0
            \/ \E g \in f .. t, u \in f .. t :
                 /\ Covers(tx, c, g, u)
                 /\ (\A i \in 1 .. Len(s) : s[i] = f => a <= i) => g = f
                 /\ (\A i \in 1 .. Len(s) : s[i] = t => i <= b) => u = t
    <2>1. IsSlice(tx, s, f, t, a, b, c) BY <1>11, SliceCovers
    <2> HIDE DEF c
    <2> QED BY <2>1 DEF IsSlice
  <1>13. c[1] = s[a] /\ 1 \in DOMAIN c
    <2>1. a \in Int /\ b \in Int /\ a <= b BY <1>11, <1>1
    <2>2. \A i \in a .. b : s[i] \in Int BY <1>11, <1>1
    <2>3. \A i \in 1 .. b - a + 1 : c[i] = s[a + i - 1]
      BY <2>1, <2>2, SubSeqProperties
    <2>4. 1 \in 1 .. b - a + 1 /\ a + 1 - 1 = a BY <2>1
    <2>5. 1 \in DOMAIN c BY <1>12, <2>4
    <2> QED BY <2>3, <2>4, <2>5
  <1> HIDE DEF c
  <1>14. ~(\A i \in DOMAIN c : c[i] <= 0)
    <2>1. s[a] \in Int BY <1>11, <1>1
    <2> QED BY <1>11, <1>13, <2>1
  <1>15. \A i \in 1 .. Len(s) : s[i] = f => a <= i BY <1>5, <1>10
  <1>16. \A i \in 1 .. Len(s) : s[i] = t => i <= b BY <1>6, <1>10, <1>1, <1>7
  <1>17. Covers(tx, c, f, t) BY <1>12, <1>14, <1>15, <1>16
  <1>18. Len(c) <= Len(s) BY <1>11, <1>12, <1>1
  <1> QED BY <1>10, <1>17, <1>18 DEF c

\* What is carried over is white space, or the end of what s covers.
LEMMA CarriedCovers ==
  ASSUME NEW tx, IsText(tx), NEW s, NEW f, NEW t, Covers(tx, s, f, t), Carried(s) # <<>>
  PROVE  /\ Carried(s) \in Seq(Int)
         /\ \/ \A i \in DOMAIN Carried(s) : Carried(s)[i] <= 0
            \/ \E g \in f .. t : Covers(tx, Carried(s), g, t)
  <1> DEFINE n == IF Overlap >= MaxChars THEN MaxChars \div 4 ELSE Overlap
             from == Len(s) - n + 1
             blanks == {i \in from .. Len(s) : s[i] \in {Blank, Stop}}
             b == CHOOSE i \in blanks : \A j \in blanks : i <= j
  <1>1. s \in Seq(Int) /\ DOMAIN s = 1 .. Len(s) /\ Len(s) \in Nat /\ f \in f .. t
    <2>1. f \in DOMAIN tx /\ t \in DOMAIN tx /\ f <= t BY DEF Covers
    <2>2. DOMAIN tx = 1 .. Len(tx) /\ Len(tx) \in Nat BY DEF IsText
    <2> QED BY <2>1, <2>2 DEF Covers
  <1>2. n \in Nat BY ReadingAssumption
  <1>3. ASSUME NEW a \in 1 .. Len(s), Carried(s) = SubSeq(s, a, Len(s))
        PROVE  /\ Carried(s) \in Seq(Int)
               /\ \/ \A i \in DOMAIN Carried(s) : Carried(s)[i] <= 0
                  \/ \E g \in f .. t : Covers(tx, Carried(s), g, t)
    <2> DEFINE c == SubSeq(s, a, Len(s))
    <2>0. Len(s) \in a .. Len(s) BY <1>1
    <2>1. /\ c \in Seq(Int) /\ Len(c) = Len(s) - a + 1
          /\ \/ \A i \in DOMAIN c : c[i] <= 0
             \/ \E g \in f .. t, u \in f .. t :
                  /\ Covers(tx, c, g, u)
                  /\ (\A i \in 1 .. Len(s) : s[i] = f => a <= i) => g = f
                  /\ (\A i \in 1 .. Len(s) : s[i] = t => i <= Len(s)) => u = t
      <3>1. IsSlice(tx, s, f, t, a, Len(s), c) BY <2>0, SliceCovers
      <3> HIDE DEF c
      <3> QED BY <3>1 DEF IsSlice
    <2> HIDE DEF c
    <2>2. \A i \in 1 .. Len(s) : s[i] = t => i <= Len(s) BY <1>1
    <2>3. \/ \A i \in DOMAIN c : c[i] <= 0
          \/ \E g \in f .. t : Covers(tx, c, g, t)
      BY <2>1, <2>2
    <2>4. Carried(s) = c BY <1>3 DEF c
    <2> HIDE DEF Carried
    <2> QED BY <2>1, <2>3, <2>4
  <1>4. CASE n = 0 \/ Len(s) <= n
    <2>1. Carried(s) = s BY <1>4 DEF Carried
    <2> QED BY <2>1, <1>1
  <1>5. CASE ~(n = 0 \/ Len(s) <= n) /\ blanks = {}
    <2>1. Carried(s) = SubSeq(s, from, Len(s)) BY <1>5 DEF Carried
    <2>2. from \in 1 .. Len(s) BY <1>5, <1>1, <1>2
    <2> QED BY <2>1, <2>2, <1>3
  <1>6. CASE ~(n = 0 \/ Len(s) <= n) /\ blanks # {}
    <2>1. Carried(s) = SubSeq(s, 1 + b, Len(s)) BY <1>6 DEF Carried
    <2>2. blanks \subseteq Nat /\ \A i \in blanks : i \in 1 .. Len(s) BY <1>6, <1>1, <1>2, SMTT(30)
    <2>3. b \in blanks
      <3> HIDE DEF blanks
      <3> QED BY <1>6, <2>2, LeastNumber
    <2>4. b \in 1 .. Len(s) BY <2>2, <2>3
    <2> HIDE DEF b, blanks, from, n
    <2>5. CASE b = Len(s)
      <3>1. Len(s) < 1 + b /\ 1 + b \in Int BY <2>5, <1>1
      <3>2. SubSeq(s, 1 + b, Len(s)) = <<>> BY <3>1, <1>1, SubSeqEmpty
      <3> QED BY <3>2, <2>1
    <2>6. CASE b # Len(s)
      <3>0. b \in Nat /\ 1 <= b /\ b <= Len(s) /\ Len(s) \in Nat BY <2>4, <1>1
      <3>1. 1 + b \in 1 .. Len(s) BY <3>0, <2>6
      <3> QED BY <3>1, <2>1, <1>3
    <2> QED BY <2>5, <2>6
  <1> QED BY <1>4, <1>5, <1>6

LEMMA LineIsWhite == Line \in Seq(Int) /\ Len(Line) = 2 /\ \A i \in DOMAIN Line : Line[i] <= 0
  BY DEF Line, Break

\* A section that follows s goes on from s to the end of the block, and fits.
LEMMA FollowCovers ==
  ASSUME NEW tx, IsText(tx), NEW s, NEW f, NEW t, Covers(tx, s, f, t),
         NEW block, NEW g, NEW u, Covers(tx, block, g, u), t < g, NoLetter(tx, t + 1, g - 1),
         Len(block) <= MaxChars
  PROVE  /\ \E h \in f .. g : /\ Covers(tx, Follow(s, block), h, u)
                              /\ NoLetter(tx, t + 1, h - 1)
         /\ Len(Follow(s, block)) <= MaxChars
  <1>1. /\ {f, t, g, u} \subseteq Nat /\ f <= t /\ MaxChars \in Nat
        /\ block \in Seq(Int) /\ Len(block) \in Nat
    <2>1. /\ f \in DOMAIN tx /\ t \in DOMAIN tx /\ g \in DOMAIN tx /\ u \in DOMAIN tx
          /\ f <= t /\ block \in Seq(Int)
      BY DEF Covers
    <2>2. DOMAIN tx = 1 .. Len(tx) /\ Len(tx) \in Nat BY DEF IsText
    <2> QED BY <2>1, <2>2, ReadingAssumption
  <1>2. CASE ~(Carried(s) # <<>> /\ Len(Carried(s)) + 2 + Len(block) <= MaxChars)
    <2>1. Follow(s, block) = block BY <1>2 DEF Follow
    <2>2. g \in f .. g BY <1>1
    <2> QED BY <2>1, <2>2
  <1>3. CASE Carried(s) # <<>> /\ Len(Carried(s)) + 2 + Len(block) <= MaxChars
    <2> DEFINE c == Carried(s)
               all == c \o Line \o block
    <2>1. Follow(s, block) = Strip(all) BY <1>3 DEF Follow
    <2>2. /\ c \in Seq(Int)
          /\ \/ \A i \in DOMAIN c : c[i] <= 0
             \/ \E k \in f .. t : Covers(tx, c, k, t)
      BY <1>3, CarriedCovers
    <2>0. Len(c) + 2 + Len(block) <= MaxChars BY <1>3
    <2> HIDE DEF c
    <2>3. Len(c) \in Nat BY <2>2
    <2>4. Len(all) = Len(c) + 2 + Len(block)
      <3>1. Len(all) = Len(c) + Len(Line) + Len(block) BY <2>2, <1>1, LineIsWhite, CatAt
      <3> QED BY <3>1, LineIsWhite
    <2>5. ASSUME \A i \in DOMAIN c : c[i] <= 0
          PROVE  Covers(tx, all, g, u)
      <3> DEFINE w == c \o Line
      <3>1. /\ w \in Seq(Int) /\ Len(w) = Len(c) + Len(Line)
            /\ \A i \in 1 .. Len(c) + Len(Line) :
                 w[i] = IF i <= Len(c) THEN c[i] ELSE Line[i - Len(c)]
        BY <2>2, LineIsWhite, ConcatProperties
      <3> HIDE DEF w
      <3>2. \A i \in DOMAIN w : w[i] <= 0
        <4> SUFFICES ASSUME NEW i \in DOMAIN w PROVE w[i] <= 0
          OBVIOUS
        <4>1. i \in 1 .. Len(c) + Len(Line) /\ i \in Nat BY <3>1, LineIsWhite, <2>3
        <4>2. CASE i <= Len(c)
          <5>1. i \in DOMAIN c /\ w[i] = c[i] BY <4>1, <4>2, <3>1, <2>2, <2>3
          <5> QED BY <5>1, <2>5
        <4>3. CASE ~(i <= Len(c))
          <5>1. i - Len(c) \in 1 .. Len(Line) /\ w[i] = Line[i - Len(c)]
            BY <4>1, <4>3, <3>1, <2>3, LineIsWhite, SMTT(30)
          <5>2. i - Len(c) \in DOMAIN Line BY <5>1, LineIsWhite
          <5> QED BY <5>1, <5>2, LineIsWhite
        <4> QED BY <4>2, <4>3
      <3>3. Covers(tx, w \o block, g, u) BY <3>1, <3>2, PadCovers
      <3> QED BY <3>3 DEF w
    <2>6. ASSUME NEW k \in f .. t, Covers(tx, c, k, t)
          PROVE  Covers(tx, all, k, u)
      BY <2>6, LineIsWhite, JoinCovers
    <2>7. PICK h \in f .. g : Covers(tx, all, h, u) /\ NoLetter(tx, t + 1, h - 1)
      <3>1. CASE \A i \in DOMAIN c : c[i] <= 0
        <4>1. g \in f .. g BY <1>1
        <4> QED BY <4>1, <3>1, <2>5
      <3>2. CASE \E k \in f .. t : Covers(tx, c, k, t)
        <4>1. PICK k \in f .. t : Covers(tx, c, k, t) BY <3>2
        <4>2. Covers(tx, all, k, u) BY <4>1, <2>6
        <4>3. k \in f .. g BY <1>1
        <4>4. NoLetter(tx, t + 1, k - 1)
          <5>1. \A i \in t + 1 .. k - 1 : FALSE BY <1>1
          <5> QED BY <5>1 DEF NoLetter
        <4> QED BY <4>2, <4>3, <4>4
      <3> QED BY <3>1, <3>2, <2>2
    <2> HIDE DEF all
    <2>8. Covers(tx, Strip(all), h, u) /\ Len(Strip(all)) <= Len(all)
      BY <2>7, StripCovers
    <2>9. Len(Strip(all)) <= MaxChars
      <3>1. Len(Strip(all)) \in Nat BY <2>8 DEF Covers
      <3> QED BY <3>1, <2>8, <2>4, <2>0, <2>3, <1>1
    <2> QED BY <2>1, <2>7, <2>8, <2>9
  <1> QED BY <1>2, <1>3

-----------------------------------------------------------------------------
\* What EndOf and After choose.
IsEnd(tx, i, separators, e) ==
  /\ e \in i .. Len(tx) /\ tx[e] > 0
  /\ \A k \in i .. e : tx[k] \notin separators
  /\ e < Len(tx) => tx[e + 1] \in separators
IsAfter(tx, e, i) ==
  /\ i \in e + 1 .. Len(tx) + 1
  /\ NoLetter(tx, e + 1, i - 1)
  /\ i <= Len(tx) => tx[i] > 0

LEMMA TextNumbers ==
  ASSUME NEW tx, IsText(tx)
  PROVE  /\ DOMAIN tx = 1 .. Len(tx) /\ Len(tx) \in Nat /\ Len(tx) > 0
         /\ \A k \in 1 .. Len(tx) : tx[k] \in Int
         /\ \A k \in 1 .. Len(tx) : tx[k] > 0 => tx[k] = k
         /\ tx[1] > 0 /\ tx[Len(tx)] > 0
  <1>1. DOMAIN tx = 1 .. Len(tx) /\ Len(tx) \in Nat /\ Len(tx) > 0 BY DEF IsText
  <1>2. \A k \in 1 .. Len(tx) : tx[k] \in Int BY DEF IsText
  <1>3. \A k \in 1 .. Len(tx) : tx[k] > 0 => tx[k] = k
    BY <1>1, <1>2 DEF IsText, Blank, Stop, Break
  <1> QED BY <1>1, <1>2, <1>3 DEF IsText

\* A run of white space is of one kind.
LEMMA RunsAreEven ==
  ASSUME NEW tx, IsText(tx), NEW i \in 1 .. Len(tx), NEW j \in 1 .. Len(tx), i <= j,
         NoLetter(tx, i, j)
  PROVE  tx[i] = tx[j]
  <1>1. \A k, l \in DOMAIN tx : k <= l /\ (\A m \in k .. l : tx[m] <= 0) => tx[k] = tx[l]
    BY DEF IsText
  <1>2. DOMAIN tx = 1 .. Len(tx) BY TextNumbers
  <1> QED BY <1>1, <1>2 DEF NoLetter

LEMMA EndIsFound ==
  ASSUME IsText(text), NEW i \in 1 .. Len(text), text[i] > 0,
         NEW separators, separators = {Break} \/ separators = {Break, Stop}
  PROVE  IsEnd(text, i, separators, EndOf(i, separators))
  <1> DEFINE E == {k \in i .. Len(text) : text[k] \in separators}
             Fits(e) == /\ \A k \in i .. e : text[k] \notin separators
                        /\ e < Len(text) => text[e + 1] \in separators
  <1>1. /\ DOMAIN text = 1 .. Len(text) /\ Len(text) \in Nat
        /\ \A k \in 1 .. Len(text) : text[k] \in Int
        /\ text[Len(text)] > 0
    BY TextNumbers
  <1>2. \A x \in separators : x \in Int /\ x < 0 BY DEF Break, Stop
  <1>3. \E e \in i .. Len(text) : Fits(e)
    <2>1. CASE E = {}
      <3>1. Len(text) \in i .. Len(text) BY <1>1
      <3>2. \A k \in i .. Len(text) : text[k] \notin separators BY <2>1
      <3> QED BY <3>1, <3>2, <1>1
    <2>2. CASE E # {}
      <3>1. E \subseteq Nat BY <1>1
      <3>2. PICK k \in E : \A l \in E : k <= l
        <4> HIDE DEF E
        <4> QED BY <2>2, <3>1, LeastNumber
      <3>3. k # i BY <1>1, <1>2, <3>2
      <3>4. k - 1 \in i .. Len(text) /\ k \in Nat /\ k - 1 + 1 = k BY <1>1, <3>2, <3>3
      <3>5. \A l \in i .. k - 1 : text[l] \notin separators
        <4> SUFFICES ASSUME NEW l \in i .. k - 1, text[l] \in separators PROVE FALSE
          OBVIOUS
        <4>1. l \in E BY <3>4, <1>1
        <4>2. k <= l BY <4>1, <3>2
        <4> QED BY <4>2, <3>4, <1>1
      <3>6. text[k] \in separators BY <3>2
      <3> QED BY <3>4, <3>5, <3>6
    <2> QED BY <2>1, <2>2
  <1>4. PICK e \in i .. Len(text) : e = EndOf(i, separators) /\ Fits(e)
    <2>1. EndOf(i, separators) = CHOOSE e \in i .. Len(text) : Fits(e)
      BY DEF EndOf
    <2> HIDE DEF Fits
    <2> QED BY <1>3, <2>1
  <1>5. text[e] > 0
    <2> SUFFICES ASSUME ~(text[e] > 0) PROVE FALSE OBVIOUS
    <2>1. e \in 1 .. Len(text) /\ e \in Nat BY <1>1
    <2>2. e < Len(text) BY <1>1, <2>1
    <2>3. text[e + 1] \in separators /\ text[e] \notin separators /\ e + 1 \in 1 .. Len(text)
      BY <1>1, <1>4, <2>1, <2>2
    <2>4. \A k \in e .. e + 1 : text[k] <= 0
      <3>1. text[e + 1] <= 0 /\ text[e] <= 0 BY <1>1, <1>2, <2>1, <2>3
      <3>2. \A k \in e .. e + 1 : k = e \/ k = e + 1 BY <2>1
      <3> QED BY <3>1, <3>2
    <2>5. text[e] = text[e + 1] BY <2>1, <2>3, <2>4, RunsAreEven DEF NoLetter
    <2> QED BY <2>3, <2>5
  <1> QED BY <1>4, <1>5 DEF IsEnd

LEMMA AfterIsFound ==
  ASSUME IsText(text), NEW e \in 1 .. Len(text)
  PROVE  /\ IsAfter(text, e, After(e))
         /\ After(e) <= Len(text) /\ text[e + 1] \in {Break, Stop} =>
              text[After(e) - 1] \in {Break, Stop}
  <1> DEFINE L == {k \in e + 1 .. Len(text) : text[k] > 0}
             Fits(i) == /\ \A k \in e + 1 .. i - 1 : text[k] <= 0
                        /\ i <= Len(text) => text[i] > 0
  <1>1. /\ DOMAIN text = 1 .. Len(text) /\ Len(text) \in Nat
        /\ \A k \in 1 .. Len(text) : text[k] \in Int
    BY TextNumbers
  <1>2. \E i \in e + 1 .. Len(text) + 1 : Fits(i)
    <2>1. CASE L = {}
      <3>1. \A k \in e + 1 .. Len(text) : text[k] <= 0 BY <2>1, <1>1
      <3>2. Len(text) + 1 \in e + 1 .. Len(text) + 1 /\ Len(text) + 1 - 1 = Len(text) BY <1>1
      <3> QED BY <3>1, <3>2, <1>1
    <2>2. CASE L # {}
      <3>1. L \subseteq Nat BY <1>1
      <3>2. PICK k \in L : \A l \in L : k <= l
        <4> HIDE DEF L
        <4> QED BY <2>2, <3>1, LeastNumber
      <3>3. \A l \in e + 1 .. k - 1 : text[l] <= 0
        <4> SUFFICES ASSUME NEW l \in e + 1 .. k - 1, text[l] > 0 PROVE FALSE
          BY <1>1, <3>2
        <4>1. l \in L /\ l \in Nat /\ k \in Nat BY <1>1, <3>2
        <4> QED BY <4>1, <3>2
      <3>4. k \in e + 1 .. Len(text) + 1 BY <1>1, <3>2
      <3> QED BY <3>2, <3>3, <3>4
    <2> QED BY <2>1, <2>2
  <1>3. PICK i \in e + 1 .. Len(text) + 1 : i = After(e) /\ Fits(i)
    <2>1. After(e) = CHOOSE i \in e + 1 .. Len(text) + 1 : Fits(i)
      BY DEF After
    <2> HIDE DEF Fits
    <2> QED BY <1>2, <2>1
  <1>4. IsAfter(text, e, i) BY <1>3 DEF IsAfter, NoLetter
  <1>5. ASSUME i <= Len(text), text[e + 1] \in {Break, Stop} PROVE text[i - 1] \in {Break, Stop}
    <2>1. i # e + 1 BY <1>3, <1>5 DEF Break, Stop
    <2>2. e + 1 \in 1 .. Len(text) /\ i - 1 \in 1 .. Len(text) /\ e + 1 <= i - 1 BY <2>1, <1>1, <1>5
    <2>3. text[e + 1] = text[i - 1] BY <1>3, <2>2, RunsAreEven DEF NoLetter
    <2> QED BY <2>3, <1>5
  <1> QED BY <1>3, <1>4, <1>5

-----------------------------------------------------------------------------
\* A block of text tx, and blocks of it in their order with nothing in between.
Good(tx, b) == Covers(tx, b, First(b), Final(b)) /\ Len(b) <= MaxChars

Chained(tx, q) ==
  /\ q \in Seq(Seq(Int))
  /\ \A i \in 1 .. Len(q) : Good(tx, q[i])
  /\ \A i, j \in 1 .. Len(q) : i < j => Final(q[i]) < First(q[j])
  /\ \A i \in 2 .. Len(q) : NoLetter(tx, Final(q[i - 1]) + 1, First(q[i]) - 1)

\* A sentence of tx from f to t that fits a section; b has it.
Short(tx, f, t) ==
  /\ f \in 1 .. Len(tx) /\ t \in 1 .. Len(tx) /\ t - f < MaxChars
  /\ f <= t /\ tx[f] > 0 /\ tx[t] > 0
  /\ \A k \in f .. t : tx[k] \notin {Break, Stop}
  /\ f > 1 => tx[f - 1] \in {Break, Stop}
  /\ t < Len(tx) => tx[t + 1] \in {Break, Stop}
Has(b, f, t) == First(b) <= f /\ t <= Final(b)

\* Blocks q are what tx has before n, with every sentence that fits.
Split(tx, q, n) ==
  /\ n \in 1 .. Len(tx) + 1 /\ Chained(tx, q)
  /\ q = <<>> => n = 1
  /\ q # <<>> => /\ First(q[1]) = 1 /\ Final(q[Len(q)]) < n
                 /\ NoLetter(tx, Final(q[Len(q)]) + 1, n - 1)
  /\ \A f, t : Short(tx, f, t) /\ t < n => \E i \in 1 .. Len(q) : Has(q[i], f, t)

LEMMA GoodNumbers ==
  ASSUME NEW tx, IsText(tx), NEW b, Good(tx, b)
  PROVE  /\ First(b) \in 1 .. Len(tx) /\ Final(b) \in 1 .. Len(tx) /\ First(b) <= Final(b)
         /\ tx[First(b)] > 0 /\ tx[Final(b)] > 0
         /\ b \in Seq(Int) /\ b # <<>> /\ Len(b) \in 1 .. MaxChars
  <1>1. /\ First(b) \in DOMAIN tx /\ Final(b) \in DOMAIN tx /\ First(b) <= Final(b)
        /\ tx[First(b)] > 0 /\ tx[Final(b)] > 0 /\ b \in Seq(Int) /\ Len(b) <= MaxChars
    BY DEF Good, Covers
  <1>2. b # <<>> BY CoversBounds DEF Good
  <1>3. DOMAIN tx = 1 .. Len(tx) BY TextNumbers
  <1>4. Len(b) \in Nat /\ Len(b) # 0 /\ MaxChars \in Nat BY <1>1, <1>2, ReadingAssumption
  <1> QED BY <1>1, <1>2, <1>3, <1>4

LEMMA CoversIsGood ==
  ASSUME NEW tx, IsText(tx), NEW b, NEW f, NEW t, Covers(tx, b, f, t), Len(b) <= MaxChars
  PROVE  Good(tx, b) /\ First(b) = f /\ Final(b) = t
  <1>1. First(b) = f /\ Final(b) = t BY CoversBounds
  <1> QED BY <1>1 DEF Good

\* Append, for sequences of blocks.
LEMMA BlocksGrow ==
  ASSUME NEW q \in Seq(Seq(Int)), NEW b \in Seq(Int)
  PROVE  LET c == Append(q, b) IN
         /\ c \in Seq(Seq(Int)) /\ Len(c) = Len(q) + 1 /\ c # <<>> /\ Len(q) \in Nat
         /\ \A i \in 1 .. Len(q) : c[i] = q[i]
         /\ c[Len(q) + 1] = b
         /\ q = <<>> <=> Len(q) = 0
  <1>1. Len(q) \in Nat /\ (q = <<>> <=> Len(q) = 0) OBVIOUS
  <1>2. /\ Append(q, b) \in Seq(Seq(Int)) /\ Len(Append(q, b)) = Len(q) + 1
        /\ \A i \in 1 .. Len(q) : Append(q, b)[i] = q[i]
        /\ Append(q, b)[Len(q) + 1] = b
    BY AppendProperties
  <1>3. Append(q, b) # <<>>
    <2>1. Len(<<>>) = 0 OBVIOUS
    <2>2. Len(Append(q, b)) # 0 BY <1>1, <1>2
    <2> QED BY <2>1, <2>2
  <1> QED BY <1>1, <1>2, <1>3

LEMMA ChainGrows ==
  ASSUME NEW tx, IsText(tx), NEW q, Chained(tx, q), NEW b, Good(tx, b),
         q # <<>> => /\ Final(q[Len(q)]) < First(b)
                     /\ NoLetter(tx, Final(q[Len(q)]) + 1, First(b) - 1)
  PROVE  Chained(tx, Append(q, b))
  <1> DEFINE c == Append(q, b)
             n == Len(q)
  <1>1. q \in Seq(Seq(Int)) /\ b \in Seq(Int) BY GoodNumbers DEF Chained
  <1>2. /\ c \in Seq(Seq(Int)) /\ Len(c) = n + 1 /\ n \in Nat
        /\ \A i \in 1 .. n : c[i] = q[i]
        /\ c[n + 1] = b
        /\ q = <<>> <=> n = 0
    BY <1>1, BlocksGrow
  <1> HIDE DEF c
  <1>3. \A i \in 1 .. n : Good(tx, q[i]) BY DEF Chained
  <1>4. \A i \in 1 .. n : /\ First(q[i]) \in Nat /\ Final(q[i]) \in Nat
                          /\ First(q[i]) <= Final(q[i])
    BY <1>3, GoodNumbers
  <1>5. First(b) \in Nat BY GoodNumbers
  <1> HIDE DEF n
  <1>6. \A i \in 1 .. Len(c) : Good(tx, c[i])
    <2> TAKE i \in 1 .. Len(c)
    <2>1. i \in 1 .. n \/ i = n + 1 BY <1>2
    <2> QED BY <2>1, <1>2, <1>3
  <1>7. \A i \in 1 .. n : Final(q[i]) < First(b)
    <2> TAKE i \in 1 .. n
    <2>1. n \in 1 .. n /\ i <= n /\ q # <<>> BY <1>2
    <2>2. Final(q[n]) < First(b) BY <2>1 DEF n
    <2>3. CASE i = n BY <2>3, <2>2
    <2>4. CASE i < n
      <3>1. Final(q[i]) < First(q[n]) BY <2>1, <2>4 DEF Chained, n
      <3> QED BY <3>1, <2>1, <2>2, <1>4, <1>5
    <2> QED BY <2>1, <2>3, <2>4, <1>2
  <1>8. \A i, j \in 1 .. Len(c) : i < j => Final(c[i]) < First(c[j])
    <2> SUFFICES ASSUME NEW i \in 1 .. Len(c), NEW j \in 1 .. Len(c), i < j
                 PROVE  Final(c[i]) < First(c[j])
      OBVIOUS
    <2>1. i \in 1 .. n /\ c[i] = q[i] BY <1>2
    <2>2. CASE j \in 1 .. n BY <2>1, <2>2, <1>2 DEF Chained, n
    <2>3. CASE j = n + 1 BY <2>1, <2>3, <1>2, <1>7
    <2> QED BY <2>2, <2>3, <1>2
  <1>9. \A i \in 2 .. Len(c) : NoLetter(tx, Final(c[i - 1]) + 1, First(c[i]) - 1)
    <2> TAKE i \in 2 .. Len(c)
    <2>1. i - 1 \in 1 .. n /\ c[i - 1] = q[i - 1] BY <1>2
    <2>2. CASE i \in 1 .. n
      <3>1. i \in 2 .. Len(q) BY <2>2 DEF n
      <3> QED BY <2>1, <2>2, <3>1, <1>2 DEF Chained
    <2>3. CASE i = n + 1
      <3>1. i - 1 = Len(q) /\ q # <<>> BY <2>1, <2>3, <1>2 DEF n
      <3> QED BY <2>1, <2>3, <3>1, <1>2
    <2> QED BY <2>2, <2>3, <1>2
  <1> QED BY <1>2, <1>6, <1>8, <1>9 DEF Chained, c

LEMMA ChainShrinks ==
  ASSUME NEW tx, NEW q \in Seq(Seq(Int)), NEW b \in Seq(Int), Chained(tx, Append(q, b))
  PROVE  /\ Chained(tx, q) /\ Good(tx, b)
         /\ q # <<>> => /\ Final(q[Len(q)]) < First(b)
                        /\ NoLetter(tx, Final(q[Len(q)]) + 1, First(b) - 1)
  <1> DEFINE c == Append(q, b)
             n == Len(q)
  <1>1. /\ Len(c) = n + 1 /\ n \in Nat
        /\ \A i \in 1 .. n : c[i] = q[i]
        /\ c[n + 1] = b
        /\ q = <<>> <=> n = 0
    BY BlocksGrow
  <1>2. /\ \A i \in 1 .. Len(c) : Good(tx, c[i])
        /\ \A i, j \in 1 .. Len(c) : i < j => Final(c[i]) < First(c[j])
        /\ \A i \in 2 .. Len(c) : NoLetter(tx, Final(c[i - 1]) + 1, First(c[i]) - 1)
    BY DEF Chained
  <1> HIDE DEF c, n
  <1>3. n + 1 \in 1 .. Len(c) /\ 1 .. n \subseteq 1 .. Len(c) BY <1>1
  <1>4. Good(tx, b) BY <1>1, <1>2, <1>3
  <1>5. \A i \in 1 .. n : Good(tx, q[i]) BY <1>1, <1>2, <1>3
  <1>6. \A i, j \in 1 .. n : i < j => Final(q[i]) < First(q[j])
    <2> SUFFICES ASSUME NEW i \in 1 .. n, NEW j \in 1 .. n, i < j
                 PROVE  Final(q[i]) < First(q[j])
      OBVIOUS
    <2>1. Final(c[i]) < First(c[j]) BY <1>2, <1>3
    <2> QED BY <2>1, <1>1
  <1>7. \A i \in 2 .. n : NoLetter(tx, Final(q[i - 1]) + 1, First(q[i]) - 1)
    <2> TAKE i \in 2 .. n
    <2>1. i \in 2 .. Len(c) /\ i \in 1 .. n /\ i - 1 \in 1 .. n BY <1>1
    <2>2. NoLetter(tx, Final(c[i - 1]) + 1, First(c[i]) - 1) BY <2>1, <1>2
    <2> QED BY <2>1, <2>2, <1>1
  <1>8. ASSUME q # <<>>
        PROVE  Final(q[n]) < First(b) /\ NoLetter(tx, Final(q[n]) + 1, First(b) - 1)
    <2>1. n \in 1 .. n /\ n + 1 \in 2 .. Len(c) /\ n + 1 - 1 = n /\ n < n + 1 BY <1>1, <1>8
    <2>2. c[n] = q[n] BY <2>1, <1>1
    <2>3. Final(c[n]) < First(c[n + 1]) BY <2>1, <1>2, <1>3
    <2>4. NoLetter(tx, Final(c[n]) + 1, First(c[n + 1]) - 1) BY <2>1, <1>2
    <2> QED BY <2>2, <2>3, <2>4, <1>1
  <1> QED BY <1>4, <1>5, <1>6, <1>7, <1>8 DEF Chained, n

\* One more block: it goes on where the others end, with the sentences there.
LEMMA SplitGrows ==
  ASSUME NEW tx, IsText(tx), NEW q, NEW n, Split(tx, q, n), NEW b, Good(tx, b),
         n <= First(b), NoLetter(tx, n, First(b) - 1),
         NEW m \in Final(b) + 1 .. Len(tx) + 1, NoLetter(tx, Final(b) + 1, m - 1),
         \A f, t : Short(tx, f, t) /\ n <= t /\ t < m => Has(b, f, t)
  PROVE  Split(tx, Append(q, b), m)
  <1> DEFINE c == Append(q, b)
             k == Len(q)
  <1>0. q \in Seq(Seq(Int)) /\ b \in Seq(Int) BY GoodNumbers DEF Split, Chained
  <1>1. /\ c \in Seq(Seq(Int)) /\ Len(c) = k + 1 /\ k \in Nat /\ c # <<>>
        /\ \A i \in 1 .. k : c[i] = q[i]
        /\ c[k + 1] = b
        /\ q = <<>> <=> k = 0
    BY <1>0, BlocksGrow
  <1>2. /\ First(b) \in 1 .. Len(tx) /\ Final(b) \in 1 .. Len(tx) /\ First(b) <= Final(b)
        /\ tx[First(b)] > 0 /\ n \in Nat /\ Len(tx) \in Nat /\ tx[1] > 0 /\ m \in Nat
    BY GoodNumbers, TextNumbers DEF Split
  <1>3. ASSUME q # <<>>
        PROVE  /\ Final(q[k]) < First(b)
               /\ NoLetter(tx, Final(q[k]) + 1, First(b) - 1)
               /\ First(q[1]) = 1
    <2>1. /\ First(q[1]) = 1 /\ Final(q[k]) < n
          /\ NoLetter(tx, Final(q[k]) + 1, n - 1)
      BY <1>3 DEF Split
    <2>2. Final(q[k]) \in Nat
      <3>1. Good(tx, q[k]) BY <1>1, <1>3 DEF Split, Chained
      <3> QED BY <3>1, GoodNumbers
    <2>3. NoLetter(tx, Final(q[k]) + 1, First(b) - 1)
      <3>1. \A i \in Final(q[k]) + 1 .. First(b) - 1 :
              i \in Final(q[k]) + 1 .. n - 1 \/ i \in n .. First(b) - 1
        BY <1>2, <2>2
      <3> QED BY <3>1, <2>1 DEF NoLetter
    <2> QED BY <2>1, <2>2, <2>3, <1>2
  <1>4. Chained(tx, c)
    <2>1. Chained(tx, q) BY DEF Split
    <2> QED BY <2>1, <1>3, ChainGrows
  <1>5. First(c[1]) = 1
    <2>1. CASE q = <<>>
      <3>1. n = 1 /\ c[1] = b BY <2>1, <1>1 DEF Split
      <3>2. ~(1 \in n .. First(b) - 1)
        <4>1. tx[1] \in Int BY TextNumbers
        <4> QED BY <4>1, <1>2 DEF NoLetter
      <3> QED BY <3>1, <3>2, <1>2
    <2>2. CASE q # <<>>
      <3>1. 1 \in 1 .. k BY <1>1, <2>2
      <3> QED BY <3>1, <1>1, <1>3, <2>2
    <2> QED BY <2>1, <2>2
  <1> HIDE DEF c, k
  <1>6. /\ Final(c[Len(c)]) < m
        /\ NoLetter(tx, Final(c[Len(c)]) + 1, m - 1)
    <2>1. c[Len(c)] = b BY <1>1
    <2> QED BY <2>1, <1>2
  <1>7. ASSUME NEW f, NEW t, Short(tx, f, t), t < m
        PROVE  \E i \in 1 .. Len(c) : Has(c[i], f, t)
    <2>0. t \in Nat BY <1>7 DEF Short
    <2>1. CASE t < n
      <3>1. PICK i \in 1 .. k : Has(q[i], f, t) BY <2>1, <1>7 DEF Split, k
      <3>2. i \in 1 .. Len(c) /\ c[i] = q[i] BY <1>1, <3>1
      <3> QED BY <3>1, <3>2
    <2>2. CASE n <= t
      <3>1. Has(b, f, t) BY <2>2, <1>7
      <3>2. k + 1 \in 1 .. Len(c) BY <1>1
      <3> QED BY <3>1, <3>2, <1>1
    <2> QED BY <2>0, <2>1, <2>2, <1>2
  <1>8. m \in 1 .. Len(tx) + 1 BY <1>2
  <1> QED BY <1>1, <1>4, <1>5, <1>6, <1>7, <1>8 DEF Split, c

\* The last block goes on.
LEMMA SplitJoins ==
  ASSUME NEW tx, IsText(tx), NEW q \in Seq(Seq(Int)), NEW b \in Seq(Int), NEW n,
         Split(tx, Append(q, b), n),
         NEW c, Good(tx, c), First(c) = First(b), n <= Final(c),
         NEW m \in Final(c) + 1 .. Len(tx) + 1, NoLetter(tx, Final(c) + 1, m - 1),
         \A f, t : Short(tx, f, t) /\ n <= t /\ t < m => Has(c, f, t)
  PROVE  Split(tx, Append(q, c), m)
  <1> DEFINE r == Append(q, c)
             p == Append(q, b)
             k == Len(q)
  <1>0. c \in Seq(Int) BY GoodNumbers
  <1>1. /\ r \in Seq(Seq(Int)) /\ Len(r) = k + 1 /\ k \in Nat /\ r # <<>>
        /\ \A i \in 1 .. k : r[i] = q[i]
        /\ r[k + 1] = c
        /\ q = <<>> <=> k = 0
    BY <1>0, BlocksGrow
  <1>2. /\ Len(p) = k + 1 /\ p # <<>>
        /\ \A i \in 1 .. k : p[i] = q[i]
        /\ p[k + 1] = b
    BY BlocksGrow
  <1>3. /\ Chained(tx, p) /\ n \in 1 .. Len(tx) + 1
        /\ First(p[1]) = 1 /\ Final(p[Len(p)]) < n
        /\ \A f, t : Short(tx, f, t) /\ t < n => \E i \in 1 .. Len(p) : Has(p[i], f, t)
    BY <1>2 DEF Split
  <1>4. /\ Chained(tx, q) /\ Good(tx, b)
        /\ q # <<>> => /\ Final(q[k]) < First(b)
                       /\ NoLetter(tx, Final(q[k]) + 1, First(b) - 1)
    BY <1>3, ChainShrinks
  <1>5. Chained(tx, r) BY <1>4, ChainGrows
  <1>6. /\ Final(c) \in 1 .. Len(tx) /\ Len(tx) \in Nat /\ m \in Nat /\ n \in Nat
        /\ Final(b) \in Nat
    BY <1>3, <1>4, GoodNumbers, TextNumbers, SMTT(30)
  <1> HIDE DEF r, p, k
  <1>7. First(r[1]) = 1
    <2>1. CASE q = <<>> BY <2>1, <1>1, <1>2, <1>3
    <2>2. CASE q # <<>>
      <3>1. 1 \in 1 .. k BY <1>1, <2>2
      <3> QED BY <3>1, <1>1, <1>2, <1>3
    <2> QED BY <2>1, <2>2
  <1>8. Final(b) < Final(c)
    <2>1. Final(b) < n BY <1>1, <1>2, <1>3
    <2> QED BY <2>1, <1>6
  <1>9. ASSUME NEW f, NEW t, Short(tx, f, t), t < m
        PROVE  \E i \in 1 .. Len(r) : Has(r[i], f, t)
    <2>0. t \in Nat BY <1>9 DEF Short
    <2>1. CASE t < n
      <3>1. PICK i \in 1 .. Len(p) : Has(p[i], f, t) BY <2>1, <1>9, <1>3
      <3>2. CASE i \in 1 .. k
        <4>1. i \in 1 .. Len(r) /\ r[i] = p[i] BY <1>1, <1>2, <3>2
        <4> QED BY <3>1, <4>1
      <3>3. CASE i = k + 1
        <4>1. First(b) <= f /\ t <= Final(b) BY <3>1, <3>3, <1>2 DEF Has
        <4>2. Has(c, f, t) BY <4>1, <1>8, <1>6, <2>0 DEF Has
        <4>3. k + 1 \in 1 .. Len(r) BY <1>1
        <4> QED BY <4>2, <4>3, <1>1
      <3> QED BY <3>2, <3>3, <1>1, <1>2
    <2>2. CASE n <= t
      <3>1. Has(c, f, t) BY <2>2, <1>9
      <3>2. k + 1 \in 1 .. Len(r) BY <1>1
      <3> QED BY <3>1, <3>2, <1>1
    <2> QED BY <2>0, <2>1, <2>2, <1>6
  <1>10. /\ Final(r[Len(r)]) < m /\ NoLetter(tx, Final(r[Len(r)]) + 1, m - 1)
    <2>1. r[Len(r)] = c BY <1>1
    <2> QED BY <2>1, <1>6
  <1>11. m \in 1 .. Len(tx) + 1 BY <1>6
  <1> QED BY <1>1, <1>5, <1>7, <1>9, <1>10, <1>11 DEF Split, r

-----------------------------------------------------------------------------
\* Sections S, and blocks q that go on from them to the end of tx.
Sectioned(tx, S) ==
  /\ S \in Seq(Seq(Int))
  /\ \A k \in 1 .. Len(S) : Good(tx, S[k])
  /\ S # <<>> => First(S[1]) = 1
  /\ \A k \in 2 .. Len(S) : /\ Final(S[k - 1]) < Final(S[k])
                            /\ NoLetter(tx, Final(S[k - 1]) + 1, First(S[k]) - 1)

\* b goes on after the last of S, or begins the text.
Continues(tx, S, b) ==
  IF S = <<>> THEN First(b) = 1
  ELSE /\ Final(S[Len(S)]) < Final(b)
       /\ NoLetter(tx, Final(S[Len(S)]) + 1, First(b) - 1)

Beyond(S, b) == S # <<>> => Final(S[Len(S)]) < First(b)

Packed(tx, S, q) ==
  /\ Sectioned(tx, S) /\ Chained(tx, q)
  /\ q # <<>> => Continues(tx, S, q[1]) /\ Final(q[Len(q)]) = Len(tx)
  /\ q = <<>> => S # <<>> /\ Final(S[Len(S)]) = Len(tx)
  /\ \A i \in 1 .. Len(q) : Beyond(S, q[i])
  /\ \A f, t : Short(tx, f, t) =>
       \/ \E k \in 1 .. Len(S) : Has(S[k], f, t)
       \/ \E i \in 1 .. Len(q) : Has(q[i], f, t)

LEMMA SectionsGrow ==
  ASSUME NEW tx, IsText(tx), NEW S, Sectioned(tx, S), NEW c, Good(tx, c), Continues(tx, S, c)
  PROVE  Sectioned(tx, Append(S, c))
  <1> DEFINE r == Append(S, c)
             n == Len(S)
  <1>1. /\ r \in Seq(Seq(Int)) /\ Len(r) = n + 1 /\ n \in Nat
        /\ \A i \in 1 .. n : r[i] = S[i]
        /\ r[n + 1] = c
        /\ S = <<>> <=> n = 0
    <2>1. S \in Seq(Seq(Int)) /\ c \in Seq(Int) BY GoodNumbers DEF Sectioned
    <2> QED BY <2>1, BlocksGrow
  <1> HIDE DEF r
  <1>2. \A k \in 1 .. Len(r) : Good(tx, r[k])
    <2> TAKE k \in 1 .. Len(r)
    <2>1. k \in 1 .. n \/ k = n + 1 BY <1>1
    <2> QED BY <2>1, <1>1 DEF Sectioned
  <1>3. First(r[1]) = 1
    <2>1. CASE S = <<>> BY <2>1, <1>1 DEF Continues
    <2>2. CASE S # <<>>
      <3>1. 1 \in 1 .. n BY <1>1, <2>2
      <3> QED BY <3>1, <2>2, <1>1 DEF Sectioned
    <2> QED BY <2>1, <2>2
  <1>4. ASSUME NEW k \in 2 .. Len(r)
        PROVE  /\ Final(r[k - 1]) < Final(r[k])
               /\ NoLetter(tx, Final(r[k - 1]) + 1, First(r[k]) - 1)
    <2>0. k - 1 \in 1 .. n
      <3> HIDE DEF n
      <3> QED BY <1>1
    <2>1. k - 1 \in 1 .. n /\ r[k - 1] = S[k - 1] BY <2>0, <1>1
    <2>2. CASE k \in 2 .. n
      <3>1. r[k] = S[k] BY <2>2, <1>1
      <3> QED BY <2>1, <2>2, <3>1 DEF Sectioned
    <2>3. CASE k = n + 1
      <3>1. S # <<>> /\ k - 1 = Len(S) /\ r[k] = c BY <2>1, <2>3, <1>1
      <3> QED BY <2>1, <3>1 DEF Continues
    <2> QED BY <2>2, <2>3, <1>1
  <1> QED BY <1>1, <1>2, <1>3, <1>4 DEF Sectioned, r

LEMMA SectionsShrink ==
  ASSUME NEW tx, NEW S \in Seq(Seq(Int)), NEW c \in Seq(Int), Sectioned(tx, Append(S, c))
  PROVE  Sectioned(tx, S) /\ Good(tx, c) /\ Continues(tx, S, c)
  <1> DEFINE r == Append(S, c)
             n == Len(S)
  <1>1. /\ Len(r) = n + 1 /\ n \in Nat /\ r # <<>>
        /\ \A i \in 1 .. n : r[i] = S[i]
        /\ r[n + 1] = c
        /\ S = <<>> <=> n = 0
    BY BlocksGrow
  <1>2. /\ \A k \in 1 .. Len(r) : Good(tx, r[k])
        /\ First(r[1]) = 1
        /\ \A k \in 2 .. Len(r) : /\ Final(r[k - 1]) < Final(r[k])
                                  /\ NoLetter(tx, Final(r[k - 1]) + 1, First(r[k]) - 1)
    BY <1>1 DEF Sectioned
  <1> HIDE DEF r
  <1>3. Good(tx, c)
    <2>1. n + 1 \in 1 .. Len(r) BY <1>1
    <2> QED BY <2>1, <1>1, <1>2
  <1>4. ASSUME NEW k \in 1 .. n PROVE Good(tx, S[k])
    <2>1. k \in 1 .. Len(r) BY <1>1
    <2> QED BY <2>1, <1>1, <1>2
  <1>5. ASSUME S # <<>> PROVE First(S[1]) = 1
    <2>1. 1 \in 1 .. n BY <1>1, <1>5
    <2> QED BY <2>1, <1>1, <1>2
  <1>6. ASSUME NEW k \in 2 .. n
        PROVE  /\ Final(S[k - 1]) < Final(S[k])
               /\ NoLetter(tx, Final(S[k - 1]) + 1, First(S[k]) - 1)
    <2>1. k \in 2 .. Len(r) /\ k \in 1 .. n /\ k - 1 \in 1 .. n BY <1>1
    <2>2. r[k] = S[k] /\ r[k - 1] = S[k - 1] BY <2>1, <1>1
    <2> QED BY <2>1, <2>2, <1>2
  <1>7. Continues(tx, S, c)
    <2>1. CASE S = <<>> BY <2>1, <1>1, <1>2 DEF Continues
    <2>2. CASE S # <<>>
      <3>1. n \in 1 .. n /\ n + 1 \in 2 .. Len(r) /\ n + 1 - 1 = n BY <1>1, <2>2
      <3>2. r[n] = S[n] BY <3>1, <1>1
      <3>3. /\ Final(r[n]) < Final(r[n + 1])
            /\ NoLetter(tx, Final(r[n]) + 1, First(r[n + 1]) - 1)
        BY <3>1, <1>2
      <3> QED BY <2>2, <3>2, <3>3, <1>1 DEF Continues
    <2> QED BY <2>1, <2>2
  <1> QED BY <1>3, <1>4, <1>5, <1>6, <1>7 DEF Sectioned

\* The first of the blocks is taken, and c ends with it.
LEMMA PackedGrows ==
  ASSUME NEW tx, IsText(tx), NEW S, Sectioned(tx, S), NEW q, Chained(tx, q), q # <<>>,
         Final(q[Len(q)]) = Len(tx),
         NEW c, Good(tx, c), Continues(tx, S, c),
         First(c) <= First(q[1]), Final(c) = Final(q[1]),
         \A f, t : Short(tx, f, t) =>
           \/ \E k \in 1 .. Len(S) : Has(S[k], f, t)
           \/ \E i \in 1 .. Len(q) : Has(q[i], f, t)
           \/ Has(c, f, t)
  PROVE  Packed(tx, Append(S, c), Tail(q))
  <1> DEFINE r == Append(S, c)
             z == Tail(q)
             n == Len(S)
             l == Len(q)
  <1>0. S \in Seq(Seq(Int)) /\ c \in Seq(Int) /\ q \in Seq(Seq(Int))
    BY GoodNumbers DEF Sectioned, Chained
  <1>1. /\ r \in Seq(Seq(Int)) /\ Len(r) = n + 1 /\ n \in Nat /\ r # <<>>
        /\ \A i \in 1 .. n : r[i] = S[i]
        /\ r[n + 1] = c
    BY <1>0, BlocksGrow
  <1>2. /\ z \in Seq(Seq(Int)) /\ Len(z) = l - 1 /\ l \in Nat \ {0}
        /\ \A i \in 1 .. l - 1 : z[i] = q[i + 1]
    BY <1>0, HeadTailProperties
  <1>3. Sectioned(tx, r) BY SectionsGrow
  <1>4. /\ \A i \in 1 .. l : Good(tx, q[i])
        /\ \A i, j \in 1 .. l : i < j => Final(q[i]) < First(q[j])
        /\ \A i \in 2 .. l : NoLetter(tx, Final(q[i - 1]) + 1, First(q[i]) - 1)
    BY DEF Chained
  <1> HIDE DEF r, z, n, l
  <1>5. Chained(tx, z)
    <2>1. \A i \in 1 .. Len(z) : Good(tx, z[i])
      <3> TAKE i \in 1 .. Len(z)
      <3>1. i + 1 \in 1 .. l /\ z[i] = q[i + 1] BY <1>2
      <3> QED BY <3>1, <1>4
    <2>2. \A i, j \in 1 .. Len(z) : i < j => Final(z[i]) < First(z[j])
      <3> SUFFICES ASSUME NEW i \in 1 .. Len(z), NEW j \in 1 .. Len(z), i < j
                   PROVE  Final(z[i]) < First(z[j])
        OBVIOUS
      <3>1. i + 1 \in 1 .. l /\ z[i] = q[i + 1] BY <1>2
      <3>2. j + 1 \in 1 .. l /\ z[j] = q[j + 1] /\ i + 1 < j + 1 BY <1>2
      <3>3. Final(q[i + 1]) < First(q[j + 1]) BY <3>1, <3>2, <1>4
      <3> QED BY <3>1, <3>2, <3>3
    <2>3. \A i \in 2 .. Len(z) : NoLetter(tx, Final(z[i - 1]) + 1, First(z[i]) - 1)
      <3> TAKE i \in 2 .. Len(z)
      <3>1. i + 1 \in 2 .. l /\ i + 1 - 1 = i /\ z[i] = q[i + 1] BY <1>2
      <3>2. z[i - 1] = q[i]
        <4> DEFINE h == i - 1
        <4>1. h \in 1 .. l - 1 /\ h + 1 = i BY <1>2
        <4> HIDE DEF h
        <4>2. z[h] = q[h + 1] BY <4>1, <1>2
        <4> QED BY <4>1, <4>2 DEF h
      <3>3. NoLetter(tx, Final(q[i + 1 - 1]) + 1, First(q[i + 1]) - 1) BY <3>1, <1>4
      <3> QED BY <3>1, <3>2, <3>3
    <2> QED BY <1>2, <2>1, <2>2, <2>3 DEF Chained
  <1>6. r[Len(r)] = c BY <1>1
  <1>7. \A i \in 1 .. Len(z) : Final(c) < First(z[i])
    <2> TAKE i \in 1 .. Len(z)
    <2>1. i + 1 \in 1 .. l /\ z[i] = q[i + 1] /\ 1 < i + 1 /\ 1 \in 1 .. l BY <1>2
    <2>2. Final(q[1]) < First(q[i + 1]) BY <2>1, <1>4
    <2> QED BY <2>1, <2>2
  <1>8. ASSUME z # <<>>
        PROVE  Continues(tx, r, z[1]) /\ Final(z[Len(z)]) = Len(tx)
    <2>1. Len(z) # 0 BY <1>2, <1>8
    <2>2. /\ l - 1 \in 1 .. l - 1 /\ 1 \in 1 .. l - 1 /\ l - 1 + 1 = l /\ 1 + 1 = 2 /\ 2 \in 2 .. l
          /\ 2 - 1 = 1
      BY <2>1, <1>2
    <2>3. z[1] = q[2] /\ z[Len(z)] = q[l] BY <2>2, <1>2
    <2>4. NoLetter(tx, Final(q[1]) + 1, First(q[2]) - 1) BY <2>2, <1>4
    <2>5. Final(c) < First(z[1])
      <3>1. 1 \in 1 .. Len(z) BY <2>2, <1>2
      <3> QED BY <3>1, <1>7
    <2>6. Good(tx, z[1])
      <3>1. 1 \in 1 .. Len(z) BY <2>2, <1>2
      <3> QED BY <3>1, <1>5 DEF Chained
    <2>7. First(z[1]) <= Final(z[1]) /\ First(z[1]) \in Nat /\ Final(z[1]) \in Nat /\ Final(c) \in Nat
      BY <2>6, GoodNumbers
    <2>8. Final(c) < Final(z[1]) BY <2>5, <2>7
    <2> QED BY <2>3, <2>4, <2>8, <1>1, <1>6 DEF Continues, l
  <1>9. ASSUME z = <<>> PROVE Final(r[Len(r)]) = Len(tx)
    <2>1. l = 1
      <3>1. Len(z) = 0 BY <1>9
      <3> QED BY <3>1, <1>2
    <2> QED BY <2>1, <1>6 DEF l
  <1>10. ASSUME NEW f, NEW t, Short(tx, f, t)
         PROVE  \/ \E k \in 1 .. Len(r) : Has(r[k], f, t)
                \/ \E i \in 1 .. Len(z) : Has(z[i], f, t)
    <2>1. CASE \E k \in 1 .. n : Has(S[k], f, t)
      <3>1. PICK k \in 1 .. n : Has(S[k], f, t) BY <2>1
      <3>2. k \in 1 .. Len(r) /\ r[k] = S[k] BY <1>1
      <3> QED BY <3>1, <3>2
    <2>2. CASE Has(c, f, t)
      <3>1. n + 1 \in 1 .. Len(r) BY <1>1
      <3> QED BY <2>2, <3>1, <1>1
    <2>3. CASE \E i \in 1 .. l : Has(q[i], f, t)
      <3>1. PICK i \in 1 .. l : Has(q[i], f, t) BY <2>3
      <3>2. CASE i = 1
        <4>1. First(q[1]) <= f /\ t <= Final(c) BY <3>1, <3>2 DEF Has
        <4>2. First(c) <= f
          <5>1. First(c) \in Nat /\ First(q[1]) \in Nat BY <3>2, <1>4, GoodNumbers
          <5>2. f \in Nat BY <1>10 DEF Short
          <5> QED BY <4>1, <5>1, <5>2
        <4>3. Has(c, f, t) BY <4>1, <4>2 DEF Has
        <4> QED BY <4>3, <2>2
      <3>3. CASE i # 1
        <4> DEFINE h == i - 1
        <4>1. h \in 1 .. l - 1 /\ h + 1 = i /\ h \in 1 .. Len(z) BY <3>3, <1>2
        <4> HIDE DEF h
        <4>2. z[h] = q[i] BY <4>1, <1>2
        <4> QED BY <3>1, <4>1, <4>2
      <3> QED BY <3>2, <3>3
    <2> QED BY <1>10, <2>1, <2>2, <2>3 DEF n, l
  <1>11. \A i \in 1 .. Len(z) : Beyond(r, z[i])
    BY <1>6, <1>7 DEF Beyond
  <1> QED BY <1>1, <1>3, <1>5, <1>8, <1>9, <1>10, <1>11 DEF Packed, r, z

\* A section more.
LEMMA PackFollows ==
  ASSUME NEW tx, IsText(tx), NEW S, NEW q, Packed(tx, S, q), q # <<>>,
         NEW c, Good(tx, c), First(c) <= First(q[1]), Final(c) = Final(q[1]),
         S = <<>> => First(c) = 1,
         S # <<>> => NoLetter(tx, Final(S[Len(S)]) + 1, First(c) - 1)
  PROVE  Packed(tx, Append(S, c), Tail(q))
  <1>1. /\ Sectioned(tx, S) /\ Chained(tx, q) /\ Final(q[Len(q)]) = Len(tx)
        /\ Continues(tx, S, q[1])
    BY DEF Packed
  <1>2. Continues(tx, S, c) BY <1>1 DEF Continues
  <1>3. \A f, t : Short(tx, f, t) =>
          \/ \E k \in 1 .. Len(S) : Has(S[k], f, t)
          \/ \E i \in 1 .. Len(q) : Has(q[i], f, t)
          \/ Has(c, f, t)
    BY DEF Packed
  <1> QED BY <1>1, <1>2, <1>3, PackedGrows

\* The last section goes on.
LEMMA PackJoins ==
  ASSUME NEW tx, IsText(tx), NEW P \in Seq(Seq(Int)), NEW x \in Seq(Int), NEW q,
         Packed(tx, Append(P, x), q), q # <<>>,
         NEW c, Good(tx, c), First(c) = First(x), Final(c) = Final(q[1])
  PROVE  Packed(tx, Append(P, c), Tail(q))
  <1> DEFINE S == Append(P, x)
             n == Len(P)
  <1>1. /\ Len(S) = n + 1 /\ n \in Nat /\ S # <<>>
        /\ \A i \in 1 .. n : S[i] = P[i]
        /\ S[n + 1] = x
    BY BlocksGrow
  <1>2. /\ Sectioned(tx, S) /\ Chained(tx, q) /\ Final(q[Len(q)]) = Len(tx)
        /\ Continues(tx, S, q[1]) /\ \A i \in 1 .. Len(q) : Beyond(S, q[i])
        /\ \A f, t : Short(tx, f, t) =>
             \/ \E k \in 1 .. Len(S) : Has(S[k], f, t)
             \/ \E i \in 1 .. Len(q) : Has(q[i], f, t)
    BY DEF Packed
  <1>3. Sectioned(tx, P) /\ Good(tx, x) /\ Continues(tx, P, x) BY <1>2, SectionsShrink
  <1> HIDE DEF S, n
  <1>4. S[Len(S)] = x BY <1>1
  <1>5. 1 \in 1 .. Len(q) /\ Good(tx, q[1])
    <2>1. q \in Seq(Seq(Int)) BY <1>2 DEF Chained
    <2>2. Len(q) \in Nat /\ Len(q) # 0 BY <2>1
    <2>3. 1 \in 1 .. Len(q) BY <2>2
    <2> QED BY <2>3, <1>2 DEF Chained
  <1>6. Final(x) < First(q[1]) BY <1>1, <1>2, <1>4, <1>5 DEF Beyond
  <1>7. /\ First(x) \in Nat /\ Final(x) \in Nat /\ First(x) <= Final(x)
        /\ First(q[1]) \in Nat /\ Final(q[1]) \in Nat /\ First(q[1]) <= Final(q[1])
    BY <1>3, <1>5, GoodNumbers, SMTT(30)
  <1>8. First(c) <= First(q[1]) /\ Final(x) < Final(c) BY <1>6, <1>7
  <1>9. Continues(tx, P, c)
    <2>1. CASE P = <<>> BY <2>1, <1>3 DEF Continues
    <2>2. CASE P # <<>>
      <3>1. /\ Final(P[Len(P)]) < Final(x)
            /\ NoLetter(tx, Final(P[Len(P)]) + 1, First(x) - 1)
        BY <2>2, <1>3 DEF Continues
      <3>2. Final(P[Len(P)]) \in Nat
        <4>1. Len(P) \in 1 .. Len(P) BY <2>2
        <4>2. Good(tx, P[Len(P)]) BY <4>1, <1>3 DEF Sectioned
        <4> QED BY <4>2, GoodNumbers
      <3>3. Final(P[Len(P)]) < Final(c) BY <3>1, <3>2, <1>7, <1>8
      <3> QED BY <2>2, <3>1, <3>3 DEF Continues
    <2> QED BY <2>1, <2>2
  <1>10. ASSUME NEW f, NEW t, Short(tx, f, t)
         PROVE  \/ \E k \in 1 .. Len(P) : Has(P[k], f, t)
                \/ \E i \in 1 .. Len(q) : Has(q[i], f, t)
                \/ Has(c, f, t)
    <2>1. CASE \E i \in 1 .. Len(q) : Has(q[i], f, t) BY <2>1
    <2>2. CASE \E k \in 1 .. Len(S) : Has(S[k], f, t)
      <3>1. PICK k \in 1 .. Len(S) : Has(S[k], f, t) BY <2>2
      <3>2. CASE k \in 1 .. n BY <3>1, <3>2, <1>1 DEF n
      <3>3. CASE k = n + 1
        <4>1. First(x) <= f /\ t <= Final(x) BY <3>1, <3>3, <1>1 DEF Has
        <4>2. t \in Nat BY <1>10 DEF Short
        <4>3. t <= Final(c) BY <4>1, <4>2, <1>7, <1>8
        <4> QED BY <4>1, <4>3 DEF Has
      <3> QED BY <3>2, <3>3, <1>1
    <2> QED BY <1>2, <1>10, <2>1, <2>2
  <1> QED BY <1>2, <1>3, <1>8, <1>9, <1>10, PackedGrows

-----------------------------------------------------------------------------
\* What SectionsCoverTheText says, of a text and sections.
Covered(tx, S) ==
  /\ Sectioned(tx, S) /\ Len(S) \in 1 .. MaxSections
  /\ Len(S) < MaxSections => Final(S[Len(S)]) = Len(tx)
  /\ \A f, t : Short(tx, f, t) /\ t <= Final(S[Len(S)]) =>
       \E k \in 1 .. Len(S) : Has(S[k], f, t)

LEMMA PackedCovers ==
  ASSUME NEW tx, IsText(tx), NEW S, NEW q, Packed(tx, S, q), Len(S) \in 1 .. MaxSections,
         q = <<>> \/ Len(S) >= MaxSections
  PROVE  Covered(tx, S)
  <1>1. /\ Sectioned(tx, S)
        /\ \A i \in 1 .. Len(q) : Beyond(S, q[i]) /\ Good(tx, q[i])
        /\ q = <<>> => Final(S[Len(S)]) = Len(tx)
        /\ \A f, t : Short(tx, f, t) =>
             \/ \E k \in 1 .. Len(S) : Has(S[k], f, t)
             \/ \E i \in 1 .. Len(q) : Has(q[i], f, t)
    BY DEF Packed, Chained
  <1>2. Len(S) < MaxSections => Final(S[Len(S)]) = Len(tx)
    <2>1. MaxSections \in Nat BY ReadingAssumption
    <2> QED BY <1>1, <2>1
  <1>3. S # <<>> /\ Len(S) \in 1 .. Len(S)
    <2>1. Len(<<>>) = 0 /\ MaxSections \in Nat BY ReadingAssumption
    <2> QED BY <2>1
  <1>4. ASSUME NEW f, NEW t, Short(tx, f, t), t <= Final(S[Len(S)])
        PROVE  \E k \in 1 .. Len(S) : Has(S[k], f, t)
    <2>1. CASE \E i \in 1 .. Len(q) : Has(q[i], f, t)
      <3>1. PICK i \in 1 .. Len(q) : Has(q[i], f, t) BY <2>1
      <3>2. Final(S[Len(S)]) < First(q[i]) BY <1>1, <1>3, <3>1 DEF Beyond
      <3>3. First(q[i]) <= f BY <3>1 DEF Has
      <3>4. f \in Nat /\ t \in Nat /\ f <= t BY <1>4 DEF Short
      <3>5. First(q[i]) \in Nat BY <3>1, <1>1, GoodNumbers
      <3>6. Final(S[Len(S)]) \in Nat
        <4>1. Good(tx, S[Len(S)]) BY <1>1, <1>3 DEF Sectioned
        <4> QED BY <4>1, GoodNumbers
      <3> QED BY <3>2, <3>3, <3>4, <3>5, <3>6, <1>4
    <2> QED BY <1>1, <1>4, <2>1
  <1> QED BY <1>1, <1>2, <1>4 DEF Covered

\* A text that fits is one section.
LEMMA FittingIsCovered ==
  ASSUME NEW tx, IsText(tx), Len(tx) <= MaxChars
  PROVE  Covered(tx, <<tx>>)
  <1>1. /\ DOMAIN tx = 1 .. Len(tx) /\ Len(tx) \in Nat /\ Len(tx) > 0
        /\ tx[1] > 0 /\ tx[Len(tx)] > 0 /\ tx \in Seq(Int)
    BY TextNumbers DEF IsText
  <1>2. Covers(tx, tx, 1, Len(tx))
    <2>1. \A i \in 1 .. Len(tx) : tx[i] > 0 => tx[i] = i BY TextNumbers
    <2> QED BY <1>1, <2>1 DEF Covers
  <1>3. Good(tx, tx) /\ First(tx) = 1 /\ Final(tx) = Len(tx) BY <1>2, CoversIsGood
  <1> DEFINE S == <<tx>>
  <1>4. S \in Seq(Seq(Int)) /\ Len(S) = 1 /\ S[1] = tx BY <1>1
  <1> HIDE DEF S
  <1>5. 1 \in 1 .. MaxSections BY ReadingAssumption
  <1>6. Sectioned(tx, S) BY <1>3, <1>4 DEF Sectioned
  <1>7. ASSUME NEW f, NEW t, Short(tx, f, t) PROVE Has(S[1], f, t)
    BY <1>1, <1>3, <1>4, <1>7 DEF Short, Has
  <1> QED BY <1>3, <1>4, <1>5, <1>6, <1>7 DEF Covered, S

LEMMA CoveredIsWhole ==
  ASSUME IsText(text), Covered(text, sections)
  PROVE  SectionsCoverTheText
  <1> DEFINE last == Len(sections)
  <1>1. /\ sections \in Seq(Seq(Int)) /\ last \in 1 .. MaxSections
        /\ \A k \in 1 .. last : Good(text, sections[k])
        /\ sections # <<>> => First(sections[1]) = 1
        /\ \A k \in 2 .. last : /\ Final(sections[k - 1]) < Final(sections[k])
                                /\ NoLetter(text, Final(sections[k - 1]) + 1, First(sections[k]) - 1)
        /\ last < MaxSections => Final(sections[last]) = Len(text)
        /\ \A f, t : Short(text, f, t) /\ t <= Final(sections[last]) =>
             \E k \in 1 .. last : Has(sections[k], f, t)
    BY DEF Covered, Sectioned
  <1> HIDE DEF last
  <1>2. First(sections[1]) = 1
    <2>1. sections # <<>>
      <3>1. Len(<<>>) = 0 /\ MaxSections \in Nat BY ReadingAssumption
      <3> QED BY <3>1, <1>1 DEF last
    <2> QED BY <2>1, <1>1
  <1>3. ASSUME NEW k \in 1 .. last
        PROVE  /\ Len(sections[k]) <= MaxChars /\ IsStretch(sections[k])
               /\ k > 1 => GoesOn(sections[k - 1], sections[k])
    <2> DEFINE s == sections[k]
    <2>1. Good(text, s) BY <1>1
    <2> HIDE DEF s
    <2>2. /\ Covers(text, s, First(s), Final(s)) /\ Len(s) <= MaxChars
          /\ First(s) \in 1 .. Len(text)
          /\ First(s) <= Final(s) /\ Final(s) \in 1 .. Len(text) /\ text[First(s)] > 0
      BY <2>1, GoodNumbers DEF Good
    <2>3. Letters(s) = {l \in First(s) .. Final(s) : text[l] > 0} BY <2>2, CoversBounds
    <2>4. First(s) \in Letters(s) BY <2>2, <2>3
    <2>5. \A i, j \in DOMAIN s : i < j /\ s[i] > 0 /\ s[j] > 0 => s[i] < s[j]
      BY <2>2 DEF Covers
    <2>6. IsStretch(s) BY <2>3, <2>4, <2>5 DEF IsStretch
    <2>7. ASSUME k > 1 PROVE GoesOn(sections[k - 1], sections[k])
      <3>1. k \in 2 .. last
        <4>1. last \in Int BY <1>1
        <4> QED BY <4>1, <2>7
      <3> QED BY <3>1, <1>1 DEF GoesOn, NoLetter
    <2> QED BY <2>2, <2>6, <2>7 DEF s
  <1>4. ASSUME NEW f \in DOMAIN text, NEW t \in DOMAIN text,
               IsSentence(f, t), t - f < MaxChars, t <= Final(sections[last])
        PROVE  \E k \in 1 .. last : First(sections[k]) <= f /\ t <= Final(sections[k])
    <2>1. f \in 1 .. Len(text) /\ t \in 1 .. Len(text) BY TextNumbers
    <2>2. Short(text, f, t) BY <1>4, <2>1 DEF IsSentence, Short
    <2>3. PICK k \in 1 .. last : Has(sections[k], f, t) BY <1>1, <1>4, <2>2
    <2> QED BY <2>3 DEF Has
  <1> QED BY <1>1, <1>2, <1>3, <1>4 DEF SectionsCoverTheText, last

-----------------------------------------------------------------------------
\* Where the splitting of tx is.
CutHard(tx, i, c) ==
  /\ c \in i .. Len(tx) /\ tx[c] > 0
  /\ \A k \in i .. c : tx[k] \notin {Break, Stop}
  /\ c < Len(tx) => tx[c + 1] \in {Break, Stop}
  /\ \A f : ~Short(tx, f, c)

StartsAt(tx, i) == i <= Len(tx) => tx[i] > 0 /\ (i > 1 => tx[i - 1] \in {Break, Stop})

Placed(tx, i, p, c, s) ==
  /\ p \in 0 .. Len(tx)
  /\ p = 0 => c = 0 /\ s = <<>>
  /\ c = 0 => StartsAt(tx, i)
  /\ c # 0 => s = <<>> /\ CutHard(tx, i, c)

Filled == IF current = <<>> THEN sections ELSE Append(sections, current)

Splitting ==
  /\ IsText(text) /\ blocks \in Seq(Seq(Int)) /\ piece \in Seq(Int)
  /\ Split(text, Flushed, at) /\ Placed(text, at, inside, cutTo, piece)
  /\ sections = <<>> /\ current = <<>>

Packing ==
  /\ IsText(text) /\ sections \in Seq(Seq(Int)) /\ current \in Seq(Int)
  /\ Packed(text, Filled, blocks) /\ Len(sections) < MaxSections

CutInv ==
  /\ doing \in {"nothing", "uploaded", "splitting", "packing", "cut", "asking",
                "collecting", "merged", "raised", "parsed"}
  /\ doing = "splitting" => Splitting
  /\ doing = "packing" => Packing
  /\ doing = "cut" => \/ text = <<>> /\ sections = <<>>
                      \/ IsText(text) /\ Covered(text, sections)
  /\ doing # "splitting" => at = 1 /\ inside = 0 /\ cutTo = 0 /\ piece = <<>>
  /\ doing \notin {"splitting", "packing"} => blocks = <<>> /\ current = <<>>
  /\ doing \notin {"splitting", "packing", "cut"} => text = <<>> /\ sections = <<>>

\* The part that begins at at, and what follows it.
IsPart(separators, e, i) ==
  /\ IsEnd(text, at, separators, e) /\ IsAfter(text, e, i)
  /\ Covers(text, Part(e), at, e) /\ Len(Part(e)) = e - at + 1
  /\ \A f, t : Short(text, f, t) /\ at <= t /\ t < i => at <= f /\ t <= e
  /\ StartsAt(text, i)

LEMMA PartIsFound ==
  ASSUME IsText(text), at \in 1 .. Len(text), StartsAt(text, at),
         NEW separators, separators = {Break} \/ separators = {Break, Stop}
  PROVE  LET e == EndOf(at, separators) IN IsPart(separators, e, After(e))
  <1> DEFINE e == EndOf(at, separators)
             i == After(e)
  <1>0. /\ DOMAIN text = 1 .. Len(text) /\ Len(text) \in Nat
        /\ \A k \in 1 .. Len(text) : text[k] \in Int
    BY TextNumbers
  <1>1. text[at] > 0 /\ (at > 1 => text[at - 1] \in {Break, Stop}) BY <1>0 DEF StartsAt
  <1>2. IsEnd(text, at, separators, e) BY <1>1, EndIsFound
  <1> HIDE DEF e
  <1>3. e \in at .. Len(text) /\ text[e] > 0 /\ e \in 1 .. Len(text) BY <1>0, <1>2 DEF IsEnd
  <1>4. /\ IsAfter(text, e, i)
        /\ i <= Len(text) /\ text[e + 1] \in {Break, Stop} => text[i - 1] \in {Break, Stop}
    BY <1>3, AfterIsFound
  <1> HIDE DEF i
  <1>5. i \in e + 1 .. Len(text) + 1 /\ (i <= Len(text) => text[i] > 0) BY <1>4 DEF IsAfter
  <1>6. i <= Len(text) => text[i - 1] \in {Break, Stop}
    <2>1. i <= Len(text) => e < Len(text) BY <1>0, <1>3, <1>5
    <2>2. e < Len(text) => text[e + 1] \in {Break, Stop} BY <1>2 DEF IsEnd
    <2> QED BY <2>1, <2>2, <1>4
  <1>7. Covers(text, Part(e), at, e) /\ Len(Part(e)) = e - at + 1
    <2>1. /\ at \in DOMAIN text /\ e \in DOMAIN text /\ at \in at .. e /\ e \in at .. e
      BY <1>0, <1>3
    <2>2. NoLetter(text, at, at - 1)
      <3>1. \A k \in at .. at - 1 : FALSE BY <1>0
      <3> QED BY <3>1 DEF NoLetter
    <2>3. NoLetter(text, e + 1, e)
      <3>1. \A k \in e + 1 .. e : FALSE BY <1>0, <1>3
      <3> QED BY <3>1 DEF NoLetter
    <2> QED BY <1>1, <1>3, <2>1, <2>2, <2>3, PartCovers DEF Part
  <1>8. ASSUME NEW f, NEW t, Short(text, f, t), at <= t, t < i
        PROVE  at <= f /\ t <= e
    <2>1. /\ f \in 1 .. Len(text) /\ t \in 1 .. Len(text) /\ f <= t /\ text[t] > 0
          /\ \A k \in f .. t : text[k] \notin {Break, Stop}
      BY <1>8 DEF Short
    <2>2. t <= e
      <3> SUFFICES ASSUME ~(t <= e) PROVE FALSE OBVIOUS
      <3>1. t \in e + 1 .. i - 1 BY <2>1, <1>0, <1>3, <1>5, <1>8
      <3> QED BY <3>1, <2>1, <1>0, <1>4 DEF IsAfter, NoLetter
    <2>3. at <= f
      <3> SUFFICES ASSUME ~(at <= f) PROVE FALSE OBVIOUS
      <3>1. at > 1 /\ at - 1 \in f .. t BY <2>1, <1>0, <1>8
      <3> QED BY <3>1, <2>1, <1>1
    <2> QED BY <2>2, <2>3
  <1>9. StartsAt(text, i) BY <1>5, <1>6 DEF StartsAt
  <1> QED BY <1>2, <1>4, <1>7, <1>8, <1>9 DEF IsPart, e, i

LEMMA PartSplits ==
  ASSUME IsText(text), NEW q, Split(text, q, at), NEW separators, NEW e, NEW i,
         IsPart(separators, e, i), Len(Part(e)) <= MaxChars
  PROVE  /\ Good(text, Part(e)) /\ First(Part(e)) = at /\ Final(Part(e)) = e
         /\ Split(text, Append(q, Part(e)), i)
  <1>1. Good(text, Part(e)) /\ First(Part(e)) = at /\ Final(Part(e)) = e
    BY CoversIsGood DEF IsPart
  <1>2. /\ at \in Nat /\ NoLetter(text, at, at - 1)
    <2>1. at \in Nat BY TextNumbers DEF Split
    <2>2. \A k \in at .. at - 1 : FALSE BY <2>1
    <2> QED BY <2>1, <2>2 DEF NoLetter
  <1>3. i \in e + 1 .. Len(text) + 1 /\ NoLetter(text, e + 1, i - 1)
    BY DEF IsPart, IsAfter
  <1>4. \A f, t : Short(text, f, t) /\ at <= t /\ t < i => Has(Part(e), f, t)
    BY <1>1 DEF IsPart, Has
  <1> QED BY <1>1, <1>2, <1>3, <1>4, SplitGrows

LEMMA SplittingFacts ==
  ASSUME CutInv, doing = "splitting"
  PROVE  /\ Splitting /\ IsText(text) /\ Len(text) \in Nat /\ at \in 1 .. Len(text) + 1
         /\ inside \in 0 .. Len(text)
         /\ inside = 0 => cutTo = 0 /\ piece = <<>>
         /\ cutTo = 0 => StartsAt(text, at)
         /\ Flushed \in Seq(Seq(Int))
  <1>1. Splitting BY DEF CutInv
  <1>2. IsText(text) BY <1>1 DEF Splitting
  <1> QED BY <1>1, <1>2, TextNumbers DEF Splitting, Split, Chained, Placed

LEMMA SplittingHolds ==
  ASSUME IsText(text)', doing' = "splitting", (sections = <<>> /\ current = <<>>)',
         (blocks \in Seq(Seq(Int)) /\ piece \in Seq(Int))',
         Split(text, Flushed, at)', Placed(text, at, inside, cutTo, piece)'
  PROVE  CutInv'
  BY DEF CutInv, Splitting

LEMMA TakeParagraphCuts == CutInv /\ TakeParagraph => CutInv'
  <1> SUFFICES ASSUME CutInv, TakeParagraph PROVE CutInv' OBVIOUS
  <1> DEFINE e == Paragraph(at)
  <1>1. /\ doing = "splitting" /\ inside = 0 /\ at <= Len(text) /\ Len(Part(e)) <= MaxChars
        /\ blocks' = Append(blocks, Part(e)) /\ at' = After(e)
        /\ doing' = doing /\ text' = text /\ inside' = inside /\ cutTo' = cutTo /\ piece' = piece
        /\ current' = current /\ sections' = sections
    BY DEF TakeParagraph
  <1>2. /\ IsText(text) /\ Len(text) \in Nat /\ at \in 1 .. Len(text) + 1
        /\ cutTo = 0 /\ piece = <<>> /\ StartsAt(text, at)
    BY <1>1, SplittingFacts
  <1>3. /\ Split(text, blocks, at) /\ blocks \in Seq(Seq(Int)) /\ sections = <<>> /\ current = <<>>
    BY <1>1, <1>2, SplittingFacts DEF Splitting, Flushed
  <1>4. IsPart({Break}, e, After(e))
    <2>1. at \in 1 .. Len(text) BY <1>1, <1>2
    <2> QED BY <1>2, <2>1, PartIsFound DEF Paragraph
  <1> HIDE DEF e
  <1>5. Good(text, Part(e)) /\ Split(text, Append(blocks, Part(e)), After(e))
    BY <1>1, <1>2, <1>3, <1>4, PartSplits
  <1>6. Part(e) \in Seq(Int) BY <1>2, <1>5, GoodNumbers
  <1>7. blocks' \in Seq(Seq(Int)) BY <1>1, <1>3, <1>6, BlocksGrow
  <1>8. StartsAt(text, After(e)) BY <1>4 DEF IsPart
  <1>9. Split(text', Flushed', at')
    <2>1. Flushed' = Append(blocks, Part(e)) BY <1>1, <1>2 DEF Flushed
    <2> QED BY <1>1, <1>5, <2>1
  <1>10. Placed(text', at', inside', cutTo', piece')
    BY <1>1, <1>2, <1>8 DEF Placed
  <1> QED BY <1>1, <1>2, <1>3, <1>7, <1>9, <1>10, SplittingHolds

LEMMA EnterParagraphCuts == CutInv /\ EnterParagraph => CutInv'
  <1> SUFFICES ASSUME CutInv, EnterParagraph PROVE CutInv' OBVIOUS
  <1> DEFINE e == Paragraph(at)
  <1>1. /\ doing = "splitting" /\ inside = 0 /\ at <= Len(text) /\ inside' = e
        /\ doing' = doing /\ text' = text /\ at' = at /\ cutTo' = cutTo /\ piece' = piece
        /\ blocks' = blocks /\ current' = current /\ sections' = sections
    BY DEF EnterParagraph
  <1>2. /\ IsText(text) /\ Len(text) \in Nat /\ at \in 1 .. Len(text) + 1
        /\ cutTo = 0 /\ piece = <<>> /\ StartsAt(text, at)
    BY <1>1, SplittingFacts
  <1>3. /\ Split(text, Flushed, at) /\ blocks \in Seq(Seq(Int)) /\ sections = <<>> /\ current = <<>>
        /\ piece \in Seq(Int)
    BY <1>1, SplittingFacts DEF Splitting
  <1>4. IsPart({Break}, e, After(e))
    <2>1. at \in 1 .. Len(text) BY <1>1, <1>2
    <2> QED BY <1>2, <2>1, PartIsFound DEF Paragraph
  <1> HIDE DEF e
  <1>5. e \in at .. Len(text) BY <1>4 DEF IsPart, IsEnd
  <1>6. e \in 0 .. Len(text) /\ e # 0 BY <1>2, <1>5
  <1>7. Flushed' = Flushed BY <1>1 DEF Flushed
  <1>8. Placed(text', at', inside', cutTo', piece')
    BY <1>1, <1>2, <1>6 DEF Placed
  <1>9. Split(text', Flushed', at') BY <1>1, <1>3, <1>7
  <1> QED BY <1>1, <1>2, <1>3, <1>8, <1>9, SplittingHolds

LEMMA LeaveParagraphCuts == CutInv /\ LeaveParagraph => CutInv'
  <1> SUFFICES ASSUME CutInv, LeaveParagraph PROVE CutInv' OBVIOUS
  <1>1. /\ doing = "splitting" /\ cutTo = 0 /\ inside' = 0 /\ piece' = <<>> /\ blocks' = Flushed
        /\ doing' = doing /\ text' = text /\ at' = at /\ cutTo' = cutTo
        /\ current' = current /\ sections' = sections
    BY DEF LeaveParagraph
  <1>2. /\ IsText(text) /\ Len(text) \in Nat /\ StartsAt(text, at) /\ Flushed \in Seq(Seq(Int))
    BY <1>1, SplittingFacts
  <1>3. /\ Split(text, Flushed, at) /\ sections = <<>> /\ current = <<>>
    BY <1>1, SplittingFacts DEF Splitting
  <1>4. Flushed' = Flushed BY <1>1 DEF Flushed
  <1>5. Placed(text', at', inside', cutTo', piece')
    BY <1>1, <1>2 DEF Placed
  <1>6. Split(text', Flushed', at') BY <1>1, <1>3, <1>4
  <1>7. piece' \in Seq(Int) BY <1>1
  <1> QED BY <1>1, <1>2, <1>3, <1>5, <1>6, <1>7, SplittingHolds

LEMMA JoinSentenceCuts == CutInv /\ JoinSentence => CutInv'
  <1> SUFFICES ASSUME CutInv, JoinSentence PROVE CutInv' OBVIOUS
  <1> DEFINE e == Sentence(at)
             joins == piece # <<>> /\ Len(piece) + 1 + Len(Part(e)) <= MaxChars
             c == piece \o <<Blank>> \o Part(e)
  <1>1. /\ doing = "splitting" /\ cutTo = 0 /\ at <= inside /\ Len(Part(e)) <= MaxChars
        /\ joins => piece' = c /\ blocks' = blocks
        /\ ~joins => piece' = Part(e) /\ blocks' = Flushed
        /\ at' = After(e)
        /\ doing' = doing /\ text' = text /\ inside' = inside /\ cutTo' = cutTo
        /\ current' = current /\ sections' = sections
    BY DEF JoinSentence
  <1>2. /\ IsText(text) /\ Len(text) \in Nat /\ at \in 1 .. Len(text) + 1
        /\ inside \in 0 .. Len(text) /\ StartsAt(text, at) /\ Flushed \in Seq(Seq(Int))
    BY <1>1, SplittingFacts
  <1>3. /\ Split(text, Flushed, at) /\ sections = <<>> /\ current = <<>>
        /\ blocks \in Seq(Seq(Int)) /\ piece \in Seq(Int)
    BY <1>1, SplittingFacts DEF Splitting
  <1>4. IsPart({Break, Stop}, e, After(e))
    <2>1. at \in 1 .. Len(text) BY <1>1, <1>2
    <2> QED BY <1>2, <2>1, PartIsFound DEF Sentence
  <1> HIDE DEF e
  <1>5. /\ Good(text, Part(e)) /\ First(Part(e)) = at /\ Final(Part(e)) = e
        /\ Split(text, Append(Flushed, Part(e)), After(e))
    BY <1>1, <1>2, <1>3, <1>4, PartSplits
  <1>6. Part(e) \in Seq(Int) /\ Part(e) # <<>> BY <1>2, <1>5, GoodNumbers
  <1>7. Placed(text', at', inside', cutTo', piece')
    <2>1. StartsAt(text, After(e)) BY <1>4 DEF IsPart
    <2>2. inside # 0 BY <1>1, <1>2
    <2> QED BY <1>1, <1>2, <2>1, <2>2 DEF Placed
  <1>8. CASE ~joins
    <2>1. piece' = Part(e) /\ blocks' = Flushed BY <1>1, <1>8
    <2>2. Flushed' = Append(Flushed, Part(e))
      <3>1. Flushed' = Append(blocks', piece') BY <2>1, <1>6 DEF Flushed
      <3> QED BY <2>1, <3>1
    <2>3. Split(text', Flushed', at') BY <1>1, <1>5, <2>2
    <2> QED BY <1>1, <1>2, <1>3, <1>6, <1>7, <2>1, <2>3, SplittingHolds
  <1>9. CASE joins
    <2>1. piece' = c /\ blocks' = blocks BY <1>1, <1>9
    <2>2. Flushed = Append(blocks, piece) BY <1>9 DEF Flushed
    <2>3. /\ Good(text, piece) /\ Final(piece) < at
          /\ NoLetter(text, Final(piece) + 1, at - 1)
      <3>1. /\ Len(Flushed) = Len(blocks) + 1 /\ Flushed # <<>>
            /\ Flushed[Len(blocks) + 1] = piece
        BY <1>3, <2>2, BlocksGrow
      <3>2. Chained(text, Append(blocks, piece)) BY <1>3, <2>2 DEF Split
      <3>3. Good(text, piece) BY <1>3, <3>2, ChainShrinks
      <3>4. /\ Final(Flushed[Len(Flushed)]) < at
            /\ NoLetter(text, Final(Flushed[Len(Flushed)]) + 1, at - 1)
        BY <1>3, <3>1 DEF Split
      <3>5. Flushed[Len(Flushed)] = piece BY <3>1
      <3> QED BY <3>3, <3>4, <3>5
    <2>4. Covers(text, piece, First(piece), Final(piece)) BY <2>3 DEF Good
    <2>5. Covers(text, Part(e), at, e) BY <1>4 DEF IsPart
    <2>6. Covers(text, c, First(piece), e) /\ Len(c) = Len(piece) + 1 + Len(Part(e))
      <3> DEFINE w == <<Blank>>
      <3>1. w \in Seq(Int) /\ Len(w) = 1 /\ \A i \in DOMAIN w : w[i] <= 0 BY DEF Blank
      <3> HIDE DEF w
      <3>2. Covers(text, piece \o w \o Part(e), First(piece), e)
        BY <1>2, <2>3, <2>4, <2>5, <3>1, JoinCovers
      <3>3. Len(piece \o w \o Part(e)) = Len(piece) + Len(w) + Len(Part(e))
        BY <1>3, <1>6, <3>1, CatAt
      <3> QED BY <3>1, <3>2, <3>3 DEF w
    <2>7. Len(c) <= MaxChars BY <1>9, <2>6
    <2> HIDE DEF c
    <2>8. Good(text, c) /\ First(c) = First(piece) /\ Final(c) = e
      BY <1>2, <2>6, <2>7, CoversIsGood
    <2>9. c \in Seq(Int) /\ c # <<>> BY <1>2, <2>8, GoodNumbers
    <2>10. Split(text, Append(blocks, c), After(e))
      <3>1. /\ e \in at .. Len(text) /\ After(e) \in e + 1 .. Len(text) + 1
            /\ NoLetter(text, e + 1, After(e) - 1)
        BY <1>4 DEF IsPart, IsEnd, IsAfter
      <3>2. at <= Final(c) BY <2>8, <3>1
      <3>3. ASSUME NEW f, NEW t, Short(text, f, t), at <= t, t < After(e)
            PROVE  Has(c, f, t)
        <4>1. at <= f /\ t <= e BY <1>4, <3>3 DEF IsPart
        <4>2. First(c) <= f
          <5>1. First(piece) \in Nat /\ Final(piece) \in Nat /\ First(piece) <= Final(piece)
            BY <1>2, <2>3, GoodNumbers
          <5>2. f \in Nat BY <1>2, <3>3 DEF Short
          <5> QED BY <2>3, <2>8, <4>1, <5>1, <5>2, <1>2
        <4> QED BY <4>1, <4>2, <2>8 DEF Has
      <3>4. Split(text, Append(blocks, piece), at) BY <1>3, <2>2
      <3> QED BY <1>2, <1>3, <2>8, <3>1, <3>2, <3>3, <3>4, SplitJoins
    <2>11. Flushed' = Append(blocks, c) BY <2>1, <2>9 DEF Flushed
    <2>12. Split(text', Flushed', at') BY <1>1, <2>10, <2>11
    <2> QED BY <1>1, <1>2, <1>3, <1>7, <2>1, <2>9, <2>12, SplittingHolds
  <1> QED BY <1>8, <1>9

LEMMA BeginHardCutCuts == CutInv /\ BeginHardCut => CutInv'
  <1> SUFFICES ASSUME CutInv, BeginHardCut PROVE CutInv' OBVIOUS
  <1> DEFINE e == Sentence(at)
  <1>1. /\ doing = "splitting" /\ cutTo = 0 /\ at <= inside /\ Len(Part(e)) > MaxChars
        /\ cutTo' = e /\ piece' = <<>> /\ blocks' = Flushed
        /\ doing' = doing /\ text' = text /\ inside' = inside /\ at' = at
        /\ current' = current /\ sections' = sections
    BY DEF BeginHardCut
  <1>2. /\ IsText(text) /\ Len(text) \in Nat /\ at \in 1 .. Len(text) + 1
        /\ inside \in 0 .. Len(text) /\ StartsAt(text, at) /\ Flushed \in Seq(Seq(Int))
    BY <1>1, SplittingFacts
  <1>3. Split(text, Flushed, at) /\ sections = <<>> /\ current = <<>>
    BY <1>1, SplittingFacts DEF Splitting
  <1>4. IsPart({Break, Stop}, e, After(e))
    <2>1. at \in 1 .. Len(text) BY <1>1, <1>2
    <2> QED BY <1>2, <2>1, PartIsFound DEF Sentence
  <1> HIDE DEF e
  <1>5. /\ e \in at .. Len(text) /\ text[e] > 0
        /\ \A k \in at .. e : text[k] \notin {Break, Stop}
        /\ e < Len(text) => text[e + 1] \in {Break, Stop}
        /\ Len(Part(e)) = e - at + 1 /\ After(e) \in e + 1 .. Len(text) + 1
        /\ \A f, t : Short(text, f, t) /\ at <= t /\ t < After(e) => at <= f /\ t <= e
    BY <1>4 DEF IsPart, IsEnd, IsAfter
  <1>6. ASSUME NEW f, Short(text, f, e) PROVE FALSE
    <2>1. at <= f
      <3>1. at <= e /\ e < After(e) BY <1>2, <1>5
      <3> QED BY <3>1, <1>5, <1>6
    <2>2. /\ f \in 1 .. Len(text) /\ e - f < MaxChars /\ f <= e
          /\ f > 1 => text[f - 1] \in {Break, Stop}
      BY <1>6 DEF Short
    <2>3. f = at
      <3> SUFFICES ASSUME f # at PROVE FALSE OBVIOUS
      <3>1. f > 1 /\ f - 1 \in at .. e BY <1>2, <1>5, <2>1, <2>2
      <3> QED BY <3>1, <2>2, <1>5
    <2>4. MaxChars \in Nat BY ReadingAssumption
    <2> QED BY <1>1, <1>2, <1>5, <2>2, <2>3, <2>4
  <1>7. Placed(text', at', inside', cutTo', piece')
    <2>1. CutHard(text, at, e) BY <1>5, <1>6 DEF CutHard
    <2>2. inside # 0 /\ e # 0 BY <1>1, <1>2, <1>5
    <2> QED BY <1>1, <1>2, <2>1, <2>2 DEF Placed
  <1>8. Split(text', Flushed', at')
    <2>1. Flushed' = Flushed BY <1>1 DEF Flushed
    <2> QED BY <1>1, <1>3, <2>1
  <1>9. piece' \in Seq(Int) BY <1>1
  <1> QED BY <1>1, <1>2, <1>3, <1>7, <1>8, <1>9, SplittingHolds

\* Part c of tx from a to b, which has letters from f to t only.
HasLetters(tx, a, b, f, t, c) ==
  /\ f \in a .. b /\ t \in f .. b
  /\ Covers(tx, c, f, t) /\ Len(c) = b - a + 1
  /\ NoLetter(tx, a, f - 1) /\ NoLetter(tx, t + 1, b)
  /\ tx[b] > 0 => t = b

LEMMA LettersAreFound ==
  ASSUME NEW tx, IsText(tx), NEW a \in 1 .. Len(tx), NEW b \in a .. Len(tx),
         \E k \in a .. b : tx[k] > 0
  PROVE  \E f, t : HasLetters(tx, a, b, f, t, SubSeq(tx, a, b))
  <1> DEFINE L == {k \in a .. b : tx[k] > 0}
  <1>1. /\ DOMAIN tx = 1 .. Len(tx) /\ Len(tx) \in Nat
        /\ \A k \in 1 .. Len(tx) : tx[k] \in Int
    BY TextNumbers
  <1>2. L # {} /\ L \subseteq Nat /\ b \in Nat /\ \A k \in L : k <= b BY <1>1
  <1>3. \A k \in a .. b : k \in L \/ tx[k] <= 0
    <2> TAKE k \in a .. b
    <2>1. k \in 1 .. Len(tx) BY <1>1
    <2> QED BY <2>1, <1>1
  <1>4. \A k \in L : k \in a .. b /\ tx[k] > 0 OBVIOUS
  <1>5. tx[b] > 0 => b \in L BY <1>1
  <1> HIDE DEF L
  <1>6. PICK f \in L : \A k \in L : f <= k BY <1>2, LeastNumber
  <1>7. PICK t \in L : \A k \in L : t >= k BY <1>2, GreatestNumber
  <1>8. f \in a .. b /\ t \in f .. b /\ tx[f] > 0 /\ tx[t] > 0 /\ t \in Nat /\ f \in Nat
    BY <1>1, <1>2, <1>4, <1>6, <1>7
  <1>9. NoLetter(tx, a, f - 1)
    <2> SUFFICES ASSUME NEW k \in a .. f - 1 PROVE tx[k] <= 0
      BY DEF NoLetter
    <2>1. k \in a .. b /\ k < f /\ k \in Nat BY <1>1, <1>2, <1>8
    <2>2. k \notin L BY <2>1, <1>6, <1>8
    <2> QED BY <2>1, <2>2, <1>3
  <1>10. NoLetter(tx, t + 1, b)
    <2> SUFFICES ASSUME NEW k \in t + 1 .. b PROVE tx[k] <= 0
      BY DEF NoLetter
    <2>1. k \in a .. b /\ t < k /\ k \in Nat BY <1>1, <1>2, <1>8
    <2>2. k \notin L BY <2>1, <1>7, <1>8
    <2> QED BY <2>1, <2>2, <1>3
  <1>11. a \in DOMAIN tx /\ b \in DOMAIN tx BY <1>1
  <1>12. Covers(tx, SubSeq(tx, a, b), f, t)
    BY <1>8, <1>9, <1>10, <1>11, PartCovers
  <1>13. Len(SubSeq(tx, a, b)) = b - a + 1
    BY <1>8, <1>9, <1>10, <1>11, PartCovers
  <1>14. tx[b] > 0 => t = b BY <1>5, <1>7, <1>8, <1>2
  <1> QED BY <1>8, <1>9, <1>10, <1>12, <1>13, <1>14 DEF HasLetters

LEMMA HardCutCuts == CutInv /\ HardCut => CutInv'
  <1> SUFFICES ASSUME CutInv, HardCut PROVE CutInv' OBVIOUS
  <1> DEFINE end == Lesser(at + MaxChars - 1, cutTo)
             next == IF end = cutTo THEN After(end) ELSE end + 1
  <1>1. /\ doing = "splitting" /\ cutTo # 0
        /\ blocks' = Append(blocks, Part(end)) /\ at' = next
        /\ end = cutTo => cutTo' = 0
        /\ end # cutTo => cutTo' = cutTo
        /\ doing' = doing /\ text' = text /\ inside' = inside /\ piece' = piece
        /\ current' = current /\ sections' = sections
    BY DEF HardCut
  <1>2. /\ IsText(text) /\ Len(text) \in Nat /\ at \in 1 .. Len(text) + 1
        /\ inside \in 0 .. Len(text) /\ inside # 0
    BY <1>1, SplittingFacts
  <1>3. /\ Split(text, Flushed, at) /\ blocks \in Seq(Seq(Int))
        /\ sections = <<>> /\ current = <<>>
        /\ piece = <<>> /\ CutHard(text, at, cutTo)
    BY <1>1, SplittingFacts DEF Splitting, Placed
  <1>4. /\ cutTo \in at .. Len(text) /\ text[cutTo] > 0
        /\ \A k \in at .. cutTo : text[k] \notin {Break, Stop}
        /\ cutTo < Len(text) => text[cutTo + 1] \in {Break, Stop}
        /\ \A f : ~Short(text, f, cutTo)
    BY <1>3 DEF CutHard
  <1>5. /\ DOMAIN text = 1 .. Len(text)
        /\ \A k \in 1 .. Len(text) : text[k] \in Int
    BY <1>2, TextNumbers
  <1>6. MaxChars \in Nat /\ MaxChars > 0 BY ReadingAssumption
  <1>7. end \in at .. cutTo /\ end \in at .. Len(text) /\ end - at + 1 <= MaxChars /\ end \in Nat
    BY <1>2, <1>4, <1>6 DEF Lesser
  <1>8. \E k \in at .. end : text[k] > 0
    <2>1. CASE end = cutTo
      <3>1. cutTo \in at .. end BY <2>1, <1>7
      <3> QED BY <3>1, <1>4
    <2>2. CASE end # cutTo
      <3>1. end = at + MaxChars - 1 BY <2>2 DEF Lesser
      <3>2. at \in DOMAIN text /\ at + MaxChars - 1 \in DOMAIN text BY <3>1, <1>2, <1>5, <1>7
      <3>3. \E k \in at .. at + MaxChars - 1 : text[k] > 0 BY <3>2, <1>2 DEF IsText
      <3> QED BY <3>1, <3>3
    <2> QED BY <2>1, <2>2
  <1>9. PICK f, t : HasLetters(text, at, end, f, t, Part(end))
    <2>1. at \in 1 .. Len(text) BY <1>2, <1>4
    <2> QED BY <2>1, <1>2, <1>7, <1>8, LettersAreFound DEF Part
  <1>10. IsAfter(text, end, After(end))
         /\ (After(end) <= Len(text) /\ text[end + 1] \in {Break, Stop} =>
               text[After(end) - 1] \in {Break, Stop})
    <2>1. end \in 1 .. Len(text) BY <1>2, <1>7
    <2> QED BY <2>1, <1>2, AfterIsFound
  <1> HIDE DEF end
  <1>11. /\ f \in at .. end /\ t \in f .. end /\ NoLetter(text, at, f - 1)
         /\ NoLetter(text, t + 1, end) /\ (end = cutTo => t = end)
         /\ Good(text, Part(end)) /\ First(Part(end)) = f /\ Final(Part(end)) = t
    <2>1. /\ f \in at .. end /\ t \in f .. end
          /\ Covers(text, Part(end), f, t) /\ Len(Part(end)) = end - at + 1
          /\ NoLetter(text, at, f - 1) /\ NoLetter(text, t + 1, end)
          /\ text[end] > 0 => t = end
      BY <1>9 DEF HasLetters
    <2>2. Len(Part(end)) <= MaxChars BY <2>1, <1>7
    <2>3. Good(text, Part(end)) /\ First(Part(end)) = f /\ Final(Part(end)) = t
      BY <1>2, <2>1, <2>2, CoversIsGood
    <2> QED BY <2>1, <2>3, <1>4
  <1>12. /\ next \in end + 1 .. Len(text) + 1 /\ NoLetter(text, end + 1, next - 1)
         /\ end # cutTo => next = end + 1
    <2>1. CASE end = cutTo BY <2>1, <1>10 DEF IsAfter
    <2>2. CASE end # cutTo
      <3>1. next = end + 1 BY <2>2
      <3>2. \A k \in end + 1 .. next - 1 : FALSE BY <3>1, <1>7
      <3> QED BY <3>1, <3>2, <1>2, <1>7 DEF NoLetter
    <2> QED BY <2>1, <2>2
  <1>13. end = cutTo => StartsAt(text, next)
    <2> SUFFICES ASSUME end = cutTo PROVE StartsAt(text, next) OBVIOUS
    <2>1. next = After(end) OBVIOUS
    <2>2. next <= Len(text) => text[next] > 0 BY <2>1, <1>10 DEF IsAfter
    <2>3. next <= Len(text) => text[next - 1] \in {Break, Stop}
      <3>1. next <= Len(text) => end < Len(text) BY <1>2, <1>7, <1>12
      <3> QED BY <3>1, <2>1, <1>4, <1>10
    <2> QED BY <2>2, <2>3 DEF StartsAt
  <1> HIDE DEF next
  <1>14. ASSUME NEW g, NEW h, Short(text, g, h), at <= h, h < next PROVE FALSE
    <2>1. /\ h \in 1 .. Len(text) /\ text[h] > 0
          /\ h < Len(text) => text[h + 1] \in {Break, Stop}
      BY <1>14 DEF Short
    <2>2. h <= end
      <3> SUFFICES ASSUME ~(h <= end) PROVE FALSE OBVIOUS
      <3>1. h \in end + 1 .. next - 1 BY <2>1, <1>2, <1>7, <1>12, <1>14
      <3> QED BY <3>1, <2>1, <1>5, <1>12 DEF NoLetter
    <2>3. h # cutTo BY <1>4, <1>14
    <2>4. h + 1 \in at .. cutTo /\ h < Len(text) BY <2>1, <2>2, <2>3, <1>2, <1>4, <1>7, <1>14
    <2> QED BY <2>1, <2>4, <1>4
  <1>15. Split(text, Append(blocks, Part(end)), next)
    <2>1. Split(text, blocks, at) BY <1>3 DEF Flushed
    <2>2. next \in t + 1 .. Len(text) + 1 /\ NoLetter(text, t + 1, next - 1)
      <3>1. t \in Nat /\ t <= end BY <1>2, <1>7, <1>11
      <3>2. \A k \in t + 1 .. next - 1 : k \in t + 1 .. end \/ k \in end + 1 .. next - 1
        BY <3>1, <1>7, <1>12, <1>2
      <3>3. NoLetter(text, t + 1, next - 1) BY <3>2, <1>11, <1>12 DEF NoLetter
      <3> QED BY <3>1, <3>3, <1>2, <1>7, <1>12
    <2>3. at <= f BY <1>2, <1>7, <1>11
    <2> QED BY <2>1, <2>2, <2>3, <1>2, <1>11, <1>14, SplitGrows
  <1>16. Part(end) \in Seq(Int) BY <1>2, <1>11, GoodNumbers
  <1>17. blocks' \in Seq(Seq(Int)) BY <1>1, <1>3, <1>16, BlocksGrow
  <1>18. Split(text', Flushed', at')
    <2>1. Flushed' = Append(blocks, Part(end)) BY <1>1, <1>3 DEF Flushed
    <2> QED BY <1>1, <1>15, <2>1
  <1>19. Placed(text', at', inside', cutTo', piece')
    <2>1. CASE end = cutTo
      BY <2>1, <1>1, <1>2, <1>3, <1>13 DEF Placed
    <2>2. CASE end # cutTo
      <3>1. CutHard(text, next, cutTo)
        <4>1. next = end + 1 /\ cutTo \in next .. Len(text) /\ next .. cutTo \subseteq at .. cutTo
          BY <2>2, <1>2, <1>4, <1>7, <1>12
        <4> QED BY <4>1, <1>4 DEF CutHard
      <3> QED BY <2>2, <3>1, <1>1, <1>2, <1>3 DEF Placed
    <2> QED BY <2>1, <2>2
  <1>20. piece' \in Seq(Int) BY <1>1, <1>3
  <1> QED BY <1>1, <1>2, <1>3, <1>17, <1>18, <1>19, <1>20, SplittingHolds

LEMMA BeginPackingCuts == CutInv /\ BeginPacking => CutInv'
  <1> SUFFICES ASSUME CutInv, BeginPacking PROVE CutInv' OBVIOUS
  <1>1. /\ doing = "splitting" /\ inside = 0 /\ at > Len(text) /\ doing' = "packing" /\ at' = 1
        /\ text' = text /\ inside' = inside /\ cutTo' = cutTo /\ piece' = piece
        /\ blocks' = blocks /\ current' = current /\ sections' = sections
    BY DEF BeginPacking
  <1>2. /\ IsText(text) /\ Len(text) \in Nat /\ at \in 1 .. Len(text) + 1
        /\ cutTo = 0 /\ piece = <<>> /\ Len(text) > 0
    BY <1>1, SplittingFacts, TextNumbers
  <1>3. /\ Split(text, blocks, at) /\ sections = <<>> /\ current = <<>>
    BY <1>1, <1>2, SplittingFacts DEF Splitting, Flushed
  <1>4. at = Len(text) + 1 BY <1>1, <1>2
  <1>5. /\ Chained(text, blocks) /\ blocks # <<>>
        /\ First(blocks[1]) = 1 /\ Final(blocks[Len(blocks)]) < at
        /\ NoLetter(text, Final(blocks[Len(blocks)]) + 1, Len(text))
        /\ \A f, t : Short(text, f, t) /\ t < at => \E i \in 1 .. Len(blocks) : Has(blocks[i], f, t)
    BY <1>2, <1>3, <1>4 DEF Split
  <1>6. Final(blocks[Len(blocks)]) = Len(text)
    <2> DEFINE l == Final(blocks[Len(blocks)])
    <2>1. l \in 1 .. Len(text)
      <3>1. blocks \in Seq(Seq(Int)) BY <1>5 DEF Chained
      <3>2. Len(blocks) \in 1 .. Len(blocks) BY <3>1, <1>5
      <3>3. Good(text, blocks[Len(blocks)]) BY <3>2, <1>5 DEF Chained
      <3> QED BY <3>3, <1>2, GoodNumbers
    <2>2. NoLetter(text, l + 1, Len(text)) BY <1>5
    <2> HIDE DEF l
    <2>3. ~(Len(text) \in l + 1 .. Len(text))
      <3>1. text[Len(text)] > 0 /\ text[Len(text)] \in Int BY <1>2, TextNumbers
      <3> QED BY <2>2, <3>1 DEF NoLetter
    <2>4. l = Len(text) BY <2>1, <2>3, <1>2
    <2> QED BY <2>4 DEF l
  <1>7. Packed(text, <<>>, blocks)
    <2> DEFINE S == <<>>
    <2>1. S \in Seq(Seq(Int)) /\ Len(S) = 0 /\ S = <<>> OBVIOUS
    <2> HIDE DEF S
    <2>2. Sectioned(text, S) BY <2>1 DEF Sectioned
    <2>3. Continues(text, S, blocks[1]) BY <2>1, <1>5 DEF Continues
    <2>4. \A i \in 1 .. Len(blocks) : Beyond(S, blocks[i]) BY <2>1 DEF Beyond
    <2>5. \A f, t : Short(text, f, t) => \E i \in 1 .. Len(blocks) : Has(blocks[i], f, t)
      <3> SUFFICES ASSUME NEW f, NEW t, Short(text, f, t)
                   PROVE  \E i \in 1 .. Len(blocks) : Has(blocks[i], f, t)
        OBVIOUS
      <3>1. t \in 1 .. Len(text) BY DEF Short
      <3>2. t < at BY <3>1, <1>2, <1>4
      <3> QED BY <3>2, <1>5
    <2>6. Packed(text, S, blocks) BY <2>2, <2>3, <2>4, <2>5, <1>5, <1>6 DEF Packed
    <2> QED BY <2>6 DEF S
  <1>8. Packing'
    <2>1. Filled' = <<>> BY <1>1, <1>3 DEF Filled
    <2>2. Packed(text', Filled', blocks') BY <1>1, <1>7, <2>1
    <2>3. Len(sections') < MaxSections /\ sections' \in Seq(Seq(Int)) /\ current' \in Seq(Int)
      BY <1>1, <1>3, ReadingAssumption
    <2> QED BY <1>1, <1>2, <2>2, <2>3 DEF Packing
  <1> QED BY <1>1, <1>2, <1>8 DEF CutInv

LEMMA CutCuts == ASSUME NEW t \in Texts PROVE CutInv /\ Cut(t) => CutInv'
  <1> SUFFICES ASSUME CutInv, Cut(t) PROVE CutInv' OBVIOUS
  <1>1. /\ doing = "nothing" /\ text' = t
        /\ Len(t) <= MaxChars =>
             doing' = "cut" /\ sections' = IF t = <<>> THEN <<>> ELSE <<t>>
        /\ ~(Len(t) <= MaxChars) => doing' = "splitting" /\ sections' = sections
        /\ at' = at /\ inside' = inside /\ cutTo' = cutTo /\ piece' = piece
        /\ blocks' = blocks /\ current' = current
    BY DEF Cut, splitVars
  <1>2. /\ at = 1 /\ inside = 0 /\ cutTo = 0 /\ piece = <<>> /\ blocks = <<>> /\ current = <<>>
        /\ sections = <<>>
    BY <1>1 DEF CutInv
  <1>3. CASE Len(t) <= MaxChars
    <2>1. doing' = "cut" /\ sections' = IF t = <<>> THEN <<>> ELSE <<t>> BY <1>1, <1>3
    <2>2. CASE t = <<>> BY <1>1, <1>2, <2>1, <2>2 DEF CutInv
    <2>3. CASE t # <<>>
      <3>1. IsText(t) BY <2>3, TextsAreTexts
      <3>2. Covered(t, <<t>>) BY <3>1, <1>3, FittingIsCovered
      <3>3. IsText(text') /\ Covered(text', sections') BY <1>1, <2>1, <2>3, <3>1, <3>2
      <3> QED BY <1>1, <1>2, <2>1, <3>3 DEF CutInv
    <2> QED BY <2>2, <2>3
  <1>4. CASE ~(Len(t) <= MaxChars)
    <2>1. doing' = "splitting" /\ sections' = sections BY <1>1, <1>4
    <2>2. IsText(t)
      <3>1. t # <<>>
        <4>1. Len(<<>>) = 0 /\ MaxChars \in Nat BY ReadingAssumption
        <4> QED BY <4>1, <1>4
      <3> QED BY <3>1, TextsAreTexts
    <2>3. Len(t) \in Nat /\ Len(t) > 0 /\ t[1] > 0 BY <2>2, TextNumbers
    <2> DEFINE q == <<>>
    <2>4. q \in Seq(Seq(Int)) /\ q \in Seq(Int) /\ Len(q) = 0 /\ q = <<>> OBVIOUS
    <2> HIDE DEF q
    <2>5. Split(t, q, 1)
      <3>1. Chained(t, q) BY <2>4 DEF Chained
      <3>2. 1 \in 1 .. Len(t) + 1 BY <2>3
      <3>3. \A f, g : ~(Short(t, f, g) /\ g < 1) BY <2>3 DEF Short
      <3> QED BY <2>4, <3>1, <3>2, <3>3 DEF Split
    <2>6. Placed(t, 1, 0, 0, q)
      <3>1. StartsAt(t, 1) BY <2>3 DEF StartsAt
      <3> QED BY <2>3, <2>4, <3>1 DEF Placed
    <2>7. Flushed' = q BY <1>1, <1>2, <2>4 DEF Flushed
    <2>8. Split(text', Flushed', at') BY <1>1, <1>2, <2>5, <2>7
    <2>9. Placed(text', at', inside', cutTo', piece') BY <1>1, <1>2, <2>4, <2>6
    <2>10. blocks' \in Seq(Seq(Int)) /\ piece' \in Seq(Int) BY <1>1, <1>2, <2>4
    <2>11. sections' = <<>> /\ current' = <<>> BY <1>1, <1>2, <2>1
    <2> QED BY <1>1, <2>1, <2>2, <2>8, <2>9, <2>10, <2>11, SplittingHolds
  <1> QED BY <1>3, <1>4

LEMMA PackingFacts ==
  ASSUME CutInv, doing = "packing"
  PROVE  /\ IsText(text) /\ sections \in Seq(Seq(Int)) /\ current \in Seq(Int)
         /\ Packed(text, Filled, blocks) /\ Len(sections) < MaxSections
         /\ at = 1 /\ inside = 0 /\ cutTo = 0 /\ piece = <<>>
         /\ blocks \in Seq(Seq(Int))
         /\ blocks # <<>> => /\ Head(blocks) = blocks[1] /\ Good(text, blocks[1])
                             /\ Continues(text, Filled, blocks[1]) /\ Beyond(Filled, blocks[1])
         /\ current # <<>> => Good(text, current)
  <1>1. Packing BY DEF CutInv
  <1>2. /\ IsText(text) /\ sections \in Seq(Seq(Int)) /\ current \in Seq(Int)
        /\ Packed(text, Filled, blocks) /\ Len(sections) < MaxSections
    BY <1>1 DEF Packing
  <1>3. Chained(text, blocks) /\ blocks \in Seq(Seq(Int)) /\ Sectioned(text, Filled)
    BY <1>2 DEF Packed, Chained
  <1>4. ASSUME blocks # <<>>
        PROVE  /\ Head(blocks) = blocks[1] /\ Good(text, blocks[1])
               /\ Continues(text, Filled, blocks[1]) /\ Beyond(Filled, blocks[1])
    <2>1. Len(blocks) \in Nat /\ Len(blocks) # 0 BY <1>3, <1>4
    <2>2. 1 \in 1 .. Len(blocks) BY <2>1
    <2>3. Head(blocks) = blocks[1] BY <1>4 DEF Head
    <2> QED BY <2>2, <2>3, <1>2, <1>3, <1>4 DEF Packed, Chained
  <1>5. ASSUME current # <<>> PROVE Good(text, current)
    <2>1. Filled = Append(sections, current) BY <1>5 DEF Filled
    <2> QED BY <2>1, <1>2, <1>3, SectionsShrink
  <1> QED BY <1>2, <1>3, <1>4, <1>5 DEF CutInv

LEMMA PackCuts == CutInv /\ Pack => CutInv'
  <1> SUFFICES ASSUME CutInv, Pack PROVE CutInv' OBVIOUS
  <1> DEFINE b == blocks[1]
             c == current \o Line \o b
  <1>1. /\ doing = "packing" /\ blocks # <<>>
        /\ current = <<>> \/ Len(current) + 2 + Len(Head(blocks)) <= MaxChars
        /\ current = <<>> => current' = Head(blocks)
        /\ current # <<>> => current' = current \o Line \o Head(blocks)
        /\ blocks' = Tail(blocks)
        /\ doing' = doing /\ text' = text /\ sections' = sections
        /\ at' = at /\ inside' = inside /\ cutTo' = cutTo /\ piece' = piece
    BY DEF Pack, splitVars
  <1>2. /\ IsText(text) /\ sections \in Seq(Seq(Int)) /\ current \in Seq(Int)
        /\ Packed(text, Filled, blocks) /\ Len(sections) < MaxSections
        /\ at = 1 /\ inside = 0 /\ cutTo = 0 /\ piece = <<>> /\ blocks \in Seq(Seq(Int))
        /\ Head(blocks) = b /\ Good(text, b)
        /\ Continues(text, Filled, b) /\ Beyond(Filled, b)
        /\ current # <<>> => Good(text, current)
    BY <1>1, PackingFacts
  <1>3. /\ b \in Seq(Int) /\ b # <<>> /\ Covers(text, b, First(b), Final(b))
        /\ First(b) \in Nat /\ Final(b) \in Nat /\ First(b) <= Final(b) /\ Len(b) \in Nat
    BY <1>2, GoodNumbers DEF Good
  <1>4. ASSUME current' # <<>>, current' \in Seq(Int),
               Packed(text, Append(sections, current'), Tail(blocks))
        PROVE  CutInv'
    <2>1. Filled' = Append(sections, current') BY <1>1, <1>4 DEF Filled
    <2>2. Packed(text', Filled', blocks') BY <1>1, <1>4, <2>1
    <2>3. Packing' BY <1>1, <1>2, <1>4, <2>2 DEF Packing
    <2> QED BY <1>1, <1>2, <2>3 DEF CutInv
  <1>5. CASE current = <<>>
    <2>1. current' = b BY <1>1, <1>2, <1>5
    <2>2. Filled = sections BY <1>5 DEF Filled
    <2>3. /\ sections = <<>> => First(b) = 1
          /\ sections # <<>> => NoLetter(text, Final(sections[Len(sections)]) + 1, First(b) - 1)
      BY <1>2, <2>2 DEF Continues
    <2>4. Packed(text, sections, blocks) BY <1>2, <2>2
    <2>5. Packed(text, Append(sections, b), Tail(blocks))
      BY <1>1, <1>2, <1>3, <2>3, <2>4, PackFollows
    <2> QED BY <1>3, <1>4, <2>1, <2>5
  <1>6. CASE current # <<>>
    <2>1. current' = c /\ Len(current) + 2 + Len(b) <= MaxChars BY <1>1, <1>2, <1>6
    <2>2. Filled = Append(sections, current) BY <1>6 DEF Filled
    <2>3. Final(current) < First(b) /\ NoLetter(text, Final(current) + 1, First(b) - 1)
      <3>0. /\ Filled # <<>> /\ Len(Filled) = Len(sections) + 1
            /\ Filled[Len(sections) + 1] = current
        BY <1>2, <2>2, BlocksGrow
      <3>1. Filled # <<>> /\ Filled[Len(Filled)] = current BY <3>0
      <3> QED BY <1>2, <3>1 DEF Continues, Beyond
    <2>4. Covers(text, current, First(current), Final(current)) BY <1>2, <1>6 DEF Good
    <2>5. Covers(text, c, First(current), Final(b))
      BY <1>2, <1>3, <2>3, <2>4, LineIsWhite, JoinCovers
    <2>6. Len(c) <= MaxChars
      <3>0. current \in Seq(Int) /\ b \in Seq(Int) /\ Line \in Seq(Int)
        BY <2>4, <1>3, GoodNumbers, LineIsWhite DEF Covers
      <3>1. Len(c) = Len(current) + Len(Line) + Len(b)
        <4> HIDE DEF b
        <4> QED BY <3>0, CatAt
      <3> QED BY <2>1, <3>1, LineIsWhite
    <2> HIDE DEF b, c
    <2>7. Good(text, c) /\ First(c) = First(current) /\ Final(c) = Final(b)
      BY <1>2, <2>5, <2>6, CoversIsGood
    <2>8. c \in Seq(Int) /\ c # <<>> BY <1>2, <2>7, GoodNumbers
    <2>9. Final(c) = Final(blocks[1]) BY <2>7 DEF b
    <2>10. Packed(text, Append(sections, c), Tail(blocks))
      BY <1>1, <1>2, <2>2, <2>7, <2>9, PackJoins
    <2> QED BY <1>4, <2>1, <2>8, <2>10
  <1> QED BY <1>5, <1>6

LEMMA NextSectionCuts == CutInv /\ NextSection => CutInv'
  <1> SUFFICES ASSUME CutInv, NextSection PROVE CutInv' OBVIOUS
  <1> DEFINE b == blocks[1]
             S == Append(sections, current)
             c == Follow(current, b)
             full == Len(sections) + 1 >= MaxSections
  <1>1. /\ doing = "packing" /\ blocks # <<>> /\ current # <<>>
        /\ sections' = S
        /\ full => doing' = "cut" /\ current' = <<>> /\ blocks' = <<>>
        /\ ~full => current' = Follow(current, Head(blocks)) /\ blocks' = Tail(blocks)
                    /\ doing' = doing
        /\ text' = text /\ at' = at /\ inside' = inside /\ cutTo' = cutTo /\ piece' = piece
    BY DEF NextSection, splitVars
  <1>2. /\ IsText(text) /\ sections \in Seq(Seq(Int)) /\ current \in Seq(Int)
        /\ Packed(text, Filled, blocks) /\ Len(sections) < MaxSections
        /\ at = 1 /\ inside = 0 /\ cutTo = 0 /\ piece = <<>> /\ blocks \in Seq(Seq(Int))
        /\ Head(blocks) = b /\ Good(text, b)
        /\ Continues(text, Filled, b) /\ Beyond(Filled, b) /\ Good(text, current)
    BY <1>1, PackingFacts
  <1>3. Filled = S BY <1>1 DEF Filled
  <1>4. /\ S \in Seq(Seq(Int)) /\ Len(S) = Len(sections) + 1 /\ S # <<>>
        /\ S[Len(sections) + 1] = current /\ Len(sections) \in Nat
    BY <1>2, BlocksGrow
  <1>5. S[Len(S)] = current BY <1>4
  <1>6. MaxSections \in Nat BY ReadingAssumption
  <1>7. Packed(text, S, blocks) BY <1>2, <1>3
  <1> HIDE DEF S
  <1>8. CASE full
    <2>1. Len(S) \in 1 .. MaxSections /\ Len(S) >= MaxSections BY <1>2, <1>4, <1>6, <1>8
    <2>2. Covered(text, S) BY <2>1, <1>2, <1>7, PackedCovers
    <2>3. IsText(text') /\ Covered(text', sections') BY <2>2, <1>1, <1>2
    <2> QED BY <1>1, <1>2, <1>8, <2>3 DEF CutInv
  <1>9. CASE ~full
    <2>1. current' = c /\ blocks' = Tail(blocks) /\ doing' = doing BY <1>1, <1>2, <1>9
    <2>2. /\ Covers(text, current, First(current), Final(current))
          /\ Covers(text, b, First(b), Final(b)) /\ Len(b) <= MaxChars
      BY <1>2 DEF Good
    <2>3. Final(current) < First(b) /\ NoLetter(text, Final(current) + 1, First(b) - 1)
      BY <1>2, <1>3, <1>4, <1>5 DEF Continues, Beyond
    <2> HIDE DEF b
    <2>4. PICK h \in First(current) .. First(b) :
            Covers(text, c, h, Final(b)) /\ NoLetter(text, Final(current) + 1, h - 1)
      BY <1>2, <2>2, <2>3, FollowCovers
    <2>5. Len(c) <= MaxChars BY <1>2, <2>2, <2>3, FollowCovers
    <2> HIDE DEF c
    <2>6. Good(text, c) /\ First(c) = h /\ Final(c) = Final(b)
      BY <1>2, <2>4, <2>5, CoversIsGood
    <2>7. c \in Seq(Int) /\ c # <<>> BY <1>2, <2>6, GoodNumbers
    <2>8. First(b) \in Nat /\ First(current) \in Nat BY <1>2, GoodNumbers
    <2>9. First(c) <= First(blocks[1]) /\ Final(c) = Final(blocks[1])
      BY <2>4, <2>6, <2>8 DEF b
    <2>10. NoLetter(text, Final(S[Len(S)]) + 1, First(c) - 1) BY <1>5, <2>4, <2>6
    <2>11. Packed(text, Append(S, c), Tail(blocks))
      BY <1>1, <1>2, <1>4, <1>7, <2>6, <2>9, <2>10, PackFollows
    <2>12. Filled' = Append(S, c) BY <1>1, <2>1, <2>7 DEF Filled
    <2>13. Packed(text', Filled', blocks') BY <1>1, <2>1, <2>11, <2>12
    <2>14. Len(sections') < MaxSections BY <1>1, <1>4, <1>6, <1>9
    <2>15. Packing' BY <1>1, <1>2, <1>4, <2>1, <2>7, <2>13, <2>14 DEF Packing
    <2> QED BY <1>1, <1>2, <2>1, <2>15 DEF CutInv
  <1> QED BY <1>8, <1>9

LEMMA LastSectionCuts == CutInv /\ LastSection => CutInv'
  <1> SUFFICES ASSUME CutInv, LastSection PROVE CutInv' OBVIOUS
  <1>1. /\ doing = "packing" /\ blocks = <<>> /\ sections' = Filled
        /\ doing' = "cut" /\ current' = <<>> /\ blocks' = blocks
        /\ text' = text /\ at' = at /\ inside' = inside /\ cutTo' = cutTo /\ piece' = piece
    BY DEF LastSection, splitVars, Filled
  <1>2. /\ IsText(text) /\ sections \in Seq(Seq(Int)) /\ current \in Seq(Int)
        /\ Packed(text, Filled, blocks) /\ Len(sections) < MaxSections
        /\ at = 1 /\ inside = 0 /\ cutTo = 0 /\ piece = <<>>
    BY <1>1, PackingFacts
  <1>3. Filled \in Seq(Seq(Int)) /\ Filled # <<>> BY <1>1, <1>2 DEF Packed, Sectioned
  <1>4. Len(Filled) \in 1 .. MaxSections
    <2>1. MaxSections \in Nat /\ Len(sections) \in Nat BY <1>2, ReadingAssumption
    <2>2. Len(Filled) \in Nat /\ Len(Filled) # 0 BY <1>3
    <2>3. Len(Filled) <= Len(sections) + 1
      <3>1. CASE current = <<>> BY <3>1, <2>1 DEF Filled
      <3>2. CASE current # <<>>
        <4>1. Filled = Append(sections, current) BY <3>2 DEF Filled
        <4>2. Len(Filled) = Len(sections) + 1 BY <4>1, <1>2, BlocksGrow
        <4> QED BY <4>2, <2>1
      <3> QED BY <3>1, <3>2
    <2> QED BY <2>1, <2>2, <2>3, <1>2
  <1>5. Covered(text, Filled) BY <1>1, <1>2, <1>4, PackedCovers
  <1>6. IsText(text') /\ Covered(text', sections') BY <1>1, <1>2, <1>5
  <1> QED BY <1>1, <1>2, <1>6 DEF CutInv

LEMMA CutStepCuts == CutInv /\ CutStep => CutInv'
  BY TakeParagraphCuts, EnterParagraphCuts, JoinSentenceCuts, BeginHardCutCuts, HardCutCuts,
     LeaveParagraphCuts, BeginPackingCuts, PackCuts, NextSectionCuts, LastSectionCuts
  DEF CutStep

LEMMA BeginAskingCuts == CutInv /\ BeginAsking => CutInv'
  BY DEF CutInv, BeginAsking, splitVars

\* What is not about a text leaves it.
LEMMA OthersCut ==
  ASSUME CutInv, UNCHANGED cutVars, doing \notin {"splitting", "packing", "cut"},
         doing' \in {"nothing", "uploaded", "asking", "collecting", "merged", "raised", "parsed"}
  PROVE  CutInv'
  BY DEF CutInv, cutVars, splitVars

LEMMA CutIsWhole == CutInv => SectionsCoverTheText
  <1> SUFFICES ASSUME CutInv, doing = "cut", text # <<>> PROVE SectionsCoverTheText
    BY DEF SectionsCoverTheText
  <1>1. IsText(text) /\ Covered(text, sections) BY DEF CutInv
  <1> QED BY <1>1, CoveredIsWhole

-----------------------------------------------------------------------------
\* Drafts d are what is acceptable of the first n of items h, and k are not.
Exact(h, n, d, k) ==
  /\ \A j \in 1 .. n : Acceptable(h[j]) => \E i \in 1 .. Len(d) : d[i] = ToDraft(h[j])
  /\ \A i \in 1 .. Len(d) : \E j \in 1 .. n :
       /\ Acceptable(h[j]) /\ ToDraft(h[j]) = d[i]
       /\ \A m \in i + 1 .. Len(d) : \A l \in 1 .. j :
            ~(Acceptable(h[l]) /\ ToDraft(h[l]) = d[m])
  /\ k = Cardinality({j \in 1 .. n : ~Acceptable(h[j])})

Drafted == {ToDraft(i) : i \in Items}

AnswersInv ==
  /\ asked \in [of : Nat, so : Nat] /\ asked.of <= MaxSections /\ asked.so <= asked.of
  /\ merged \in [drafts : Seq(Drafted), dropped : Nat, failed : Nat]
  /\ merged.failed <= asked.so /\ Len(merged.drafts) <= MaxDrafts
  /\ heard \in Seq(Items) /\ unseen \in Seq(Items) /\ Len(unseen) <= Len(heard)
  /\ \A k \in 1 .. Len(unseen) : unseen[k] = heard[Len(heard) - Len(unseen) + k]
  /\ Exact(heard, Len(heard) - Len(unseen), merged.drafts, merged.dropped)
  /\ doing = "asking" =>
       unseen = <<>> /\ asked.so < asked.of /\ Len(merged.drafts) < MaxDrafts
  /\ doing = "collecting" => asked.so < asked.of
  /\ doing # "collecting" /\ unseen # <<>> => Len(merged.drafts) = MaxDrafts
  /\ doing = "raised" <=> asked.of > 0 /\ merged.failed = asked.of
  /\ doing = "merged" => asked.so = asked.of \/ Len(merged.drafts) = MaxDrafts
  /\ doing \notin {"asking", "collecting", "merged", "raised"} =>
       /\ asked.of = 0 /\ merged.drafts = <<>> /\ merged.dropped = 0
       /\ unseen = <<>> /\ heard = <<>>

LEMMA DraftsGrow ==
  ASSUME NEW d \in Seq(Drafted), NEW x \in Drafted
  PROVE  /\ Append(d, x) \in Seq(Drafted) /\ Len(Append(d, x)) = Len(d) + 1 /\ Len(d) \in Nat
         /\ \A i \in 1 .. Len(d) : Append(d, x)[i] = d[i]
         /\ Append(d, x)[Len(d) + 1] = x
  BY AppendProperties

\* What was looked at does not depend on what follows.
LEMMA ExactExtends ==
  ASSUME NEW g, NEW h, NEW n \in Nat, \A j \in 1 .. n : g[j] = h[j],
         NEW d, NEW k, Exact(g, n, d, k)
  PROVE  Exact(h, n, d, k)
  <1>1. {j \in 1 .. n : ~Acceptable(h[j])} = {j \in 1 .. n : ~Acceptable(g[j])} OBVIOUS
  <1>2. k = Cardinality({j \in 1 .. n : ~Acceptable(h[j])}) BY <1>1 DEF Exact
  <1>3. \A j \in 1 .. n : Acceptable(h[j]) => \E i \in 1 .. Len(d) : d[i] = ToDraft(h[j])
    <2> TAKE j \in 1 .. n
    <2>1. h[j] = g[j] OBVIOUS
    <2> QED BY <2>1 DEF Exact
  <1>4. ASSUME NEW i \in 1 .. Len(d)
        PROVE  \E j \in 1 .. n :
                 /\ Acceptable(h[j]) /\ ToDraft(h[j]) = d[i]
                 /\ \A m \in i + 1 .. Len(d) : \A l \in 1 .. j :
                      ~(Acceptable(h[l]) /\ ToDraft(h[l]) = d[m])
    <2>1. PICK j \in 1 .. n :
                 /\ Acceptable(g[j]) /\ ToDraft(g[j]) = d[i]
                 /\ \A m \in i + 1 .. Len(d) : \A l \in 1 .. j :
                      ~(Acceptable(g[l]) /\ ToDraft(g[l]) = d[m])
      BY DEF Exact
    <2>2. g[j] = h[j] OBVIOUS
    <2>3. \A m \in i + 1 .. Len(d) : \A l \in 1 .. j :
            ~(Acceptable(h[l]) /\ ToDraft(h[l]) = d[m])
      <3> TAKE m \in i + 1 .. Len(d)
      <3> TAKE l \in 1 .. j
      <3>1. l \in 1 .. n OBVIOUS
      <3>2. g[l] = h[l] BY <3>1
      <3> QED BY <2>1, <3>2
    <2> QED BY <2>1, <2>2, <2>3
  <1> QED BY <1>2, <1>3, <1>4 DEF Exact

LEMMA DroppedCounted ==
  ASSUME NEW h, NEW n \in Nat
  PROVE  /\ IsFiniteSet({j \in 1 .. n : ~Acceptable(h[j])})
         /\ Cardinality({j \in 1 .. n : ~Acceptable(h[j])}) \in 0 .. n
  <1> DEFINE D == {j \in 1 .. n : ~Acceptable(h[j])}
  <1>1. IsFiniteSet(1 .. n) /\ Cardinality(1 .. n) = n
    <2>1. 1 \in Int /\ n \in Int OBVIOUS
    <2> HIDE DEF D
    <2>2. IsFiniteSet(1 .. n) /\ Cardinality(1 .. n) = IF 1 > n THEN 0 ELSE n - 1 + 1
      BY <2>1, FS_Interval
    <2> QED BY <2>1, <2>2
  <1>2. D \subseteq 1 .. n OBVIOUS
  <1> HIDE DEF D
  <1>3. IsFiniteSet(D) /\ Cardinality(D) <= n BY <1>1, <1>2, FS_Subset
  <1>4. Cardinality(D) \in Nat BY <1>3, FS_CardinalityType
  <1>5. IsFiniteSet(D) /\ Cardinality(D) \in 0 .. n BY <1>3, <1>4
  <1> QED BY <1>5 DEF D

\* The next item is dropped, or repeats a draft, or is one more.
LEMMA ExactMerges ==
  ASSUME NEW h \in Seq(Items), NEW n \in Nat, n + 1 \in 1 .. Len(h),
         NEW d \in Seq(Drafted), NEW k \in Nat, Exact(h, n, d, k)
  PROVE  /\ ~Acceptable(h[n + 1]) => Exact(h, n + 1, d, k + 1)
         /\ Acceptable(h[n + 1]) /\ (\E i \in DOMAIN d : d[i] = ToDraft(h[n + 1])) =>
              Exact(h, n + 1, d, k)
         /\ Acceptable(h[n + 1]) /\ ~(\E i \in DOMAIN d : d[i] = ToDraft(h[n + 1])) =>
              Exact(h, n + 1, Append(d, ToDraft(h[n + 1])), k)
  <1> DEFINE x == h[n + 1]
             D(m) == {j \in 1 .. m : ~Acceptable(h[j])}
  <1>1. x \in Items BY n + 1 \in 1 .. Len(h)
  <1>2. /\ \A j \in 1 .. n : Acceptable(h[j]) => \E i \in 1 .. Len(d) : d[i] = ToDraft(h[j])
        /\ \A i \in 1 .. Len(d) : \E j \in 1 .. n :
             /\ Acceptable(h[j]) /\ ToDraft(h[j]) = d[i]
             /\ \A m \in i + 1 .. Len(d) : \A l \in 1 .. j :
                  ~(Acceptable(h[l]) /\ ToDraft(h[l]) = d[m])
        /\ k = Cardinality(D(n))
    BY DEF Exact
  <1>3. DOMAIN d = 1 .. Len(d) /\ Len(d) \in Nat OBVIOUS
  <1>4. \A j \in 1 .. n + 1 : j \in 1 .. n \/ j = n + 1 OBVIOUS
  <1>5. 1 .. n \subseteq 1 .. n + 1 /\ n + 1 \in 1 .. n + 1 OBVIOUS
  <1>6. ASSUME ~Acceptable(x) PROVE Exact(h, n + 1, d, k + 1)
    <2>1. D(n + 1) = D(n) \cup {n + 1}
      BY <1>4, <1>5, <1>6
    <2>2. n + 1 \notin D(n) OBVIOUS
    <2>3. IsFiniteSet(D(n)) BY DroppedCounted
    <2>4. Cardinality(D(n + 1)) = k + 1
      <3> HIDE DEF D
      <3>1. Cardinality(D(n) \cup {n + 1}) = Cardinality(D(n)) + 1
        BY <2>2, <2>3, FS_AddElement
      <3> QED BY <3>1, <2>1, <1>2
    <2>5. \A j \in 1 .. n + 1 : Acceptable(h[j]) => \E i \in 1 .. Len(d) : d[i] = ToDraft(h[j])
      BY <1>2, <1>4, <1>6
    <2>6. \A i \in 1 .. Len(d) : \E j \in 1 .. n + 1 :
             /\ Acceptable(h[j]) /\ ToDraft(h[j]) = d[i]
             /\ \A m \in i + 1 .. Len(d) : \A l \in 1 .. j :
                  ~(Acceptable(h[l]) /\ ToDraft(h[l]) = d[m])
      BY <1>2, <1>5
    <2> QED BY <2>4, <2>5, <2>6 DEF Exact
  <1>7. ASSUME Acceptable(x) PROVE D(n + 1) = D(n)
    BY <1>4, <1>5, <1>7
  <1>8. ASSUME Acceptable(x), \E i \in DOMAIN d : d[i] = ToDraft(x)
        PROVE  Exact(h, n + 1, d, k)
    <2>1. k = Cardinality(D(n + 1)) BY <1>2, <1>7, <1>8
    <2>2. \A j \in 1 .. n + 1 : Acceptable(h[j]) => \E i \in 1 .. Len(d) : d[i] = ToDraft(h[j])
      BY <1>2, <1>3, <1>4, <1>8
    <2>3. \A i \in 1 .. Len(d) : \E j \in 1 .. n + 1 :
             /\ Acceptable(h[j]) /\ ToDraft(h[j]) = d[i]
             /\ \A m \in i + 1 .. Len(d) : \A l \in 1 .. j :
                  ~(Acceptable(h[l]) /\ ToDraft(h[l]) = d[m])
      BY <1>2, <1>5
    <2> QED BY <2>1, <2>2, <2>3 DEF Exact
  <1>9. ASSUME Acceptable(x), ~(\E i \in DOMAIN d : d[i] = ToDraft(x))
        PROVE  Exact(h, n + 1, Append(d, ToDraft(x)), k)
    <2> DEFINE e == Append(d, ToDraft(x))
    <2>1. ToDraft(x) \in Drafted BY <1>1 DEF Drafted
    <2>2. /\ Len(e) = Len(d) + 1
          /\ \A i \in 1 .. Len(d) : e[i] = d[i]
          /\ e[Len(d) + 1] = ToDraft(x)
      BY <2>1, DraftsGrow
    <2> HIDE DEF e
    <2>3. \A i \in 1 .. Len(e) : i \in 1 .. Len(d) \/ i = Len(d) + 1 BY <2>2, <1>3
    <2>4. 1 .. Len(d) \subseteq 1 .. Len(e) /\ Len(d) + 1 \in 1 .. Len(e) BY <2>2, <1>3
    <2>5. k = Cardinality(D(n + 1)) BY <1>2, <1>7, <1>9
    <2>6. ASSUME NEW j \in 1 .. n + 1, Acceptable(h[j])
          PROVE  \E i \in 1 .. Len(e) : e[i] = ToDraft(h[j])
      <3>1. CASE j = n + 1 BY <3>1, <2>2, <2>4
      <3>2. CASE j \in 1 .. n
        <4>1. PICK i \in 1 .. Len(d) : d[i] = ToDraft(h[j]) BY <3>2, <2>6, <1>2
        <4> QED BY <4>1, <2>2, <2>4
      <3> QED BY <3>1, <3>2, <1>4
    <2>7. ASSUME NEW i \in 1 .. Len(e)
          PROVE  \E j \in 1 .. n + 1 :
             /\ Acceptable(h[j]) /\ ToDraft(h[j]) = e[i]
             /\ \A m \in i + 1 .. Len(e) : \A l \in 1 .. j :
                  ~(Acceptable(h[l]) /\ ToDraft(h[l]) = e[m])
      <3>1. CASE i = Len(d) + 1
        <4>1. \A m \in i + 1 .. Len(e) : FALSE BY <3>1, <2>2, <1>3
        <4> QED BY <4>1, <3>1, <2>2, <1>5, <1>9
      <3>2. CASE i \in 1 .. Len(d)
        <4>1. PICK j \in 1 .. n :
                /\ Acceptable(h[j]) /\ ToDraft(h[j]) = d[i]
                /\ \A m \in i + 1 .. Len(d) : \A l \in 1 .. j :
                     ~(Acceptable(h[l]) /\ ToDraft(h[l]) = d[m])
          BY <3>2, <1>2
        <4>2. ASSUME NEW m \in i + 1 .. Len(e), NEW l \in 1 .. j,
                     Acceptable(h[l]), ToDraft(h[l]) = e[m]
              PROVE  FALSE
          <5>1. CASE m = Len(d) + 1
            <6>1. l \in 1 .. n BY <4>1
            <6>2. PICK o \in 1 .. Len(d) : d[o] = ToDraft(h[l]) BY <6>1, <4>2, <1>2
            <6> QED BY <6>2, <5>1, <4>2, <2>2, <1>3, <1>9
          <5>2. CASE m # Len(d) + 1
            <6>1. m \in i + 1 .. Len(d) /\ m \in 1 .. Len(d) BY <5>2, <3>2, <2>2, <1>3
            <6> QED BY <6>1, <4>1, <4>2, <2>2
          <5> QED BY <5>1, <5>2
        <4>3. j \in 1 .. n + 1 /\ e[i] = d[i] BY <4>1, <3>2, <1>5, <2>2
        <4> QED BY <4>1, <4>2, <4>3
      <3> QED BY <3>1, <3>2, <2>3
    <2> QED BY <2>5, <2>6, <2>7 DEF Exact, e
  <1> QED BY <1>6, <1>8, <1>9

LEMMA AskFacts ==
  ASSUME AnswersInv
  PROVE  /\ asked.of \in Nat /\ asked.so \in Nat /\ asked.of <= MaxSections
         /\ asked.so <= asked.of /\ asked = [of |-> asked.of, so |-> asked.so]
         /\ merged.drafts \in Seq(Drafted) /\ merged.dropped \in Nat /\ merged.failed \in Nat
         /\ Len(merged.drafts) \in Nat
         /\ merged = [drafts |-> merged.drafts, dropped |-> merged.dropped,
                      failed |-> merged.failed]
         /\ merged.failed <= asked.so /\ Len(merged.drafts) <= MaxDrafts
         /\ heard \in Seq(Items) /\ unseen \in Seq(Items)
         /\ Len(heard) \in Nat /\ Len(unseen) \in Nat /\ Len(unseen) <= Len(heard)
  BY DEF AnswersInv

\* After a section.
LEMMA ContinueAsks ==
  ASSUME AnswersInv, NEW m, doing \in {"asking", "collecting"},
         m = [drafts |-> merged.drafts, dropped |-> merged.dropped, failed |-> m.failed],
         m.failed \in Nat, m.failed <= asked.so + 1,
         asked.so < asked.of, unseen = <<>> \/ Len(merged.drafts) = MaxDrafts,
         Continue(m)
  PROVE  AnswersInv'
  <1>1. /\ merged' = m /\ asked' = [asked EXCEPT !.so = @ + 1]
        /\ doing' = CASE asked.so + 1 < asked.of /\ Len(m.drafts) < MaxDrafts -> "asking"
                      [] m.failed = asked.of -> "raised"
                      [] OTHER -> "merged"
        /\ unseen' = unseen /\ heard' = heard
    BY DEF Continue
  <1>2. /\ asked.of \in Nat /\ asked.so \in Nat /\ asked.of <= MaxSections
        /\ asked = [of |-> asked.of, so |-> asked.so]
        /\ merged.drafts \in Seq(Drafted) /\ merged.dropped \in Nat /\ merged.failed \in Nat
        /\ Len(merged.drafts) \in Nat /\ Len(merged.drafts) <= MaxDrafts
        /\ heard \in Seq(Items) /\ unseen \in Seq(Items)
        /\ Len(heard) \in Nat /\ Len(unseen) \in Nat /\ Len(unseen) <= Len(heard)
    BY AskFacts
  <1>3. MaxDrafts \in Nat BY ReadingAssumption
  <1>4. m.drafts = merged.drafts /\ m.dropped = merged.dropped OBVIOUS
  <1>5. asked' = [of |-> asked.of, so |-> asked.so + 1] BY <1>1, <1>2
  <1>6. /\ asked' \in [of : Nat, so : Nat] /\ asked'.of = asked.of /\ asked'.so = asked.so + 1
        /\ asked'.so <= asked'.of
    BY <1>2, <1>5
  <1>7. /\ merged' \in [drafts : Seq(Drafted), dropped : Nat, failed : Nat]
        /\ merged'.drafts = merged.drafts /\ merged'.dropped = merged.dropped
        /\ merged'.failed = m.failed
    BY <1>1, <1>2, <1>4
  <1>8. \/ doing' = "asking" /\ asked.so + 1 < asked.of /\ Len(merged.drafts) < MaxDrafts
        \/ /\ doing' = "raised" /\ m.failed = asked.of
           /\ ~(asked.so + 1 < asked.of /\ Len(merged.drafts) < MaxDrafts)
        \/ /\ doing' = "merged" /\ m.failed # asked.of
           /\ ~(asked.so + 1 < asked.of /\ Len(merged.drafts) < MaxDrafts)
    <2> DEFINE more == asked.so + 1 < asked.of /\ Len(m.drafts) < MaxDrafts
    <2>1. doing' = CASE more -> "asking" [] m.failed = asked.of -> "raised" [] OTHER -> "merged"
      BY <1>1
    <2>2. more <=> asked.so + 1 < asked.of /\ Len(merged.drafts) < MaxDrafts BY <1>4
    <2> HIDE DEF more
    <2>3. more => m.failed # asked.of
      <3>1. m.failed \in Nat /\ m.failed <= asked.so + 1 OBVIOUS
      <3> QED BY <3>1, <2>2, <1>2
    <2>4. CASE more
      <3>1. doing' = "asking" BY <2>1, <2>3, <2>4
      <3> QED BY <3>1, <2>2, <2>4
    <2>5. CASE ~more /\ m.failed = asked.of
      <3>1. doing' = "raised" BY <2>1, <2>5
      <3> QED BY <3>1, <2>2, <2>5
    <2>6. CASE ~more /\ m.failed # asked.of
      <3>1. doing' = "merged" BY <2>1, <2>6
      <3> QED BY <3>1, <2>2, <2>6
    <2> QED BY <2>4, <2>5, <2>6
  <1>9. /\ Exact(heard, Len(heard) - Len(unseen), merged.drafts, merged.dropped)
        /\ \A k \in 1 .. Len(unseen) : unseen[k] = heard[Len(heard) - Len(unseen) + k]
    BY DEF AnswersInv
  <1>10. /\ doing' = "asking" => unseen = <<>> /\ Len(merged.drafts) < MaxDrafts
         /\ doing' # "collecting"
         /\ unseen # <<>> => Len(merged.drafts) = MaxDrafts
         /\ doing' = "raised" <=> asked.of > 0 /\ m.failed = asked.of
         /\ doing' = "merged" => asked.so + 1 = asked.of \/ Len(merged.drafts) = MaxDrafts
         /\ doing' = "asking" => asked.so + 1 < asked.of
         /\ doing' \in {"asking", "raised", "merged"}
    <2>1. asked.of > 0 BY <1>2
    <2>2. asked.so + 1 < asked.of => m.failed # asked.of BY <1>2
    <2> QED BY <1>2, <1>3, <1>8, <2>1, <2>2
  <1> QED BY <1>1, <1>2, <1>6, <1>7, <1>9, <1>10 DEF AnswersInv

LEMMA EndAnswerAsks == AnswersInv /\ EndAnswer => AnswersInv'
  <1> SUFFICES ASSUME AnswersInv, EndAnswer PROVE AnswersInv' OBVIOUS
  <1>1. /\ doing = "collecting" /\ Continue(merged)
        /\ unseen = <<>> \/ Len(merged.drafts) = MaxDrafts
    BY DEF EndAnswer
  <1>2. asked.so < asked.of BY <1>1 DEF AnswersInv
  <1>3. /\ merged = [drafts |-> merged.drafts, dropped |-> merged.dropped, failed |-> merged.failed]
        /\ merged.failed \in Nat /\ merged.failed <= asked.so /\ asked.so \in Nat
    BY AskFacts
  <1>4. merged.failed <= asked.so + 1 BY <1>3
  <1> QED BY <1>1, <1>2, <1>3, <1>4, ContinueAsks

LEMMA FailSectionAsks == AnswersInv /\ FailSection => AnswersInv'
  <1> SUFFICES ASSUME AnswersInv, FailSection PROVE AnswersInv' OBVIOUS
  <1> DEFINE m == [merged EXCEPT !.failed = @ + 1]
  <1>1. doing = "asking" /\ Continue(m) BY DEF FailSection
  <1>2. unseen = <<>> /\ asked.so < asked.of BY <1>1 DEF AnswersInv
  <1>3. /\ merged = [drafts |-> merged.drafts, dropped |-> merged.dropped, failed |-> merged.failed]
        /\ merged.failed \in Nat /\ merged.failed <= asked.so /\ asked.so \in Nat
    BY AskFacts
  <1>4. m = [drafts |-> merged.drafts, dropped |-> merged.dropped, failed |-> merged.failed + 1]
    BY <1>3
  <1>5. m.failed = merged.failed + 1 BY <1>4
  <1>6. m = [drafts |-> merged.drafts, dropped |-> merged.dropped, failed |-> m.failed]
    BY <1>4, <1>5
  <1>7. m.failed \in Nat /\ m.failed <= asked.so + 1 BY <1>3, <1>5
  <1> HIDE DEF m
  <1> QED BY <1>1, <1>2, <1>6, <1>7, ContinueAsks

LEMMA TakeItemAsks == AnswersInv /\ TakeItem => AnswersInv'
  <1> SUFFICES ASSUME AnswersInv, TakeItem PROVE AnswersInv' OBVIOUS
  <1> DEFINE n == Len(heard) - Len(unseen)
             x == heard[n + 1]
  <1>1. /\ doing = "collecting" /\ unseen # <<>> /\ Len(merged.drafts) < MaxDrafts
        /\ merged' = Merge(merged, Head(unseen)) /\ unseen' = Tail(unseen)
        /\ doing' = doing /\ asked' = asked /\ heard' = heard
    BY DEF TakeItem
  <1>2. /\ asked.of \in Nat /\ asked.so \in Nat /\ asked.of <= MaxSections
        /\ asked.so <= asked.of
        /\ merged.drafts \in Seq(Drafted) /\ merged.dropped \in Nat /\ merged.failed \in Nat
        /\ Len(merged.drafts) \in Nat /\ merged.failed <= asked.so
        /\ merged = [drafts |-> merged.drafts, dropped |-> merged.dropped, failed |-> merged.failed]
        /\ heard \in Seq(Items) /\ unseen \in Seq(Items)
        /\ Len(heard) \in Nat /\ Len(unseen) \in Nat /\ Len(unseen) <= Len(heard)
    BY AskFacts
  <1>3. /\ Exact(heard, n, merged.drafts, merged.dropped)
        /\ \A k \in 1 .. Len(unseen) : unseen[k] = heard[n + k]
        /\ asked \in [of : Nat, so : Nat] /\ asked.so < asked.of
        /\ ~(asked.of > 0 /\ merged.failed = asked.of)
    BY <1>1 DEF AnswersInv
  <1>4. Len(unseen) > 0 /\ MaxDrafts \in Nat
    <2>1. Len(unseen) # 0 BY <1>1, <1>2
    <2> QED BY <2>1, <1>2, ReadingAssumption
  <1>5. n \in Nat /\ n + 1 \in 1 .. Len(heard) BY <1>2, <1>4
  <1>6. Head(unseen) = x
    <2>1. Head(unseen) = unseen[1] BY <1>1 DEF Head
    <2>2. 1 \in 1 .. Len(unseen) BY <1>2, <1>4
    <2> QED BY <2>1, <2>2, <1>3
  <1>7. /\ Tail(unseen) \in Seq(Items) /\ Len(Tail(unseen)) = Len(unseen) - 1
        /\ \A k \in 1 .. Len(unseen) - 1 : Tail(unseen)[k] = unseen[k + 1]
    BY <1>1, <1>2, HeadTailProperties
  <1>8. /\ Len(heard) - Len(unseen') = n + 1 /\ Len(unseen') <= Len(heard)
        /\ unseen' \in Seq(Items) /\ Len(unseen') = Len(unseen) - 1
    BY <1>1, <1>2, <1>4, <1>7
  <1>9. \A k \in 1 .. Len(unseen') : unseen'[k] = heard[n + 1 + k]
    <2> TAKE k \in 1 .. Len(unseen')
    <2> HIDE DEF n
    <2> DEFINE l == Len(unseen)
    <2>0. l \in Nat /\ k \in 1 .. l - 1 /\ n \in Nat BY <1>2, <1>5, <1>8
    <2>4. k + 1 \in 1 .. l /\ n + (k + 1) = n + 1 + k
      <3> HIDE DEF l
      <3> QED BY <2>0
    <2>1. k + 1 \in 1 .. Len(unseen) /\ n + (k + 1) = n + 1 + k /\ k \in 1 .. Len(unseen) - 1
      BY <2>0, <2>4
    <2>2. unseen'[k] = unseen[k + 1] BY <1>1, <1>7, <2>1
    <2>3. unseen[k + 1] = heard[n + (k + 1)] BY <1>3, <2>1
    <2> QED BY <2>1, <2>2, <2>3
  <1> HIDE DEF n
  <1>10. x \in Items BY <1>2, <1>5
  <1>11. \E d \in Seq(Drafted), o \in Nat :
           /\ merged' = [drafts |-> d, dropped |-> o, failed |-> merged.failed]
           /\ Len(d) <= MaxDrafts /\ Exact(heard, n + 1, d, o)
    <2> HIDE DEF x
    <2>1. /\ ~Acceptable(x) => Exact(heard, n + 1, merged.drafts, merged.dropped + 1)
          /\ Acceptable(x) /\ (\E i \in DOMAIN merged.drafts : merged.drafts[i] = ToDraft(x)) =>
               Exact(heard, n + 1, merged.drafts, merged.dropped)
          /\ Acceptable(x) /\ ~(\E i \in DOMAIN merged.drafts : merged.drafts[i] = ToDraft(x)) =>
               Exact(heard, n + 1, Append(merged.drafts, ToDraft(x)), merged.dropped)
      BY <1>2, <1>3, <1>5, ExactMerges DEF x
    <2>2. merged' = Merge(merged, x) BY <1>1, <1>6
    <2>3. CASE ~Acceptable(x)
      <3>1. merged' = [drafts |-> merged.drafts, dropped |-> merged.dropped + 1,
                       failed |-> merged.failed]
        BY <2>2, <2>3, <1>2 DEF Merge
      <3>2. merged.dropped + 1 \in Nat BY <1>2
      <3> QED BY <3>1, <3>2, <2>1, <2>3, <1>1, <1>2, <1>4
    <2>4. CASE Acceptable(x) /\ (\E i \in DOMAIN merged.drafts : merged.drafts[i] = ToDraft(x))
      <3>1. merged' = merged BY <2>2, <2>4 DEF Merge
      <3> QED BY <3>1, <2>1, <2>4, <1>1, <1>2, <1>4
    <2>5. CASE Acceptable(x) /\ ~(\E i \in DOMAIN merged.drafts : merged.drafts[i] = ToDraft(x))
      <3> DEFINE d == Append(merged.drafts, ToDraft(x))
      <3>1. merged' = [drafts |-> d, dropped |-> merged.dropped, failed |-> merged.failed]
        BY <2>2, <2>5, <1>2 DEF Merge
      <3>2. ToDraft(x) \in Drafted BY <1>10 DEF Drafted
      <3>3. d \in Seq(Drafted) /\ Len(d) = Len(merged.drafts) + 1 BY <3>2, <1>2, DraftsGrow
      <3>4. Len(d) <= MaxDrafts BY <3>3, <1>1, <1>2, <1>4
      <3>5. Exact(heard, n + 1, d, merged.dropped) BY <2>1, <2>5
      <3> HIDE DEF d
      <3> QED BY <3>1, <3>3, <3>4, <3>5, <1>2
    <2> QED BY <2>3, <2>4, <2>5
  <1>12. PICK d \in Seq(Drafted), o \in Nat :
           /\ merged' = [drafts |-> d, dropped |-> o, failed |-> merged.failed]
           /\ Len(d) <= MaxDrafts /\ Exact(heard, n + 1, d, o)
    BY <1>11
  <1>13. /\ merged' \in [drafts : Seq(Drafted), dropped : Nat, failed : Nat]
         /\ merged'.drafts = d /\ merged'.dropped = o /\ merged'.failed = merged.failed
    BY <1>2, <1>12
  <1>14. Exact(heard', Len(heard') - Len(unseen'), merged'.drafts, merged'.dropped)
    BY <1>1, <1>8, <1>12, <1>13
  <1>15. \A k \in 1 .. Len(unseen') : unseen'[k] = heard'[Len(heard') - Len(unseen') + k]
    BY <1>1, <1>8, <1>9
  <1>16. /\ asked' \in [of : Nat, so : Nat] /\ asked'.of <= MaxSections /\ asked'.so <= asked'.of
         /\ merged'.failed <= asked'.so /\ Len(merged'.drafts) <= MaxDrafts
         /\ heard' \in Seq(Items) /\ asked'.so < asked'.of
         /\ ~(asked'.of > 0 /\ merged'.failed = asked'.of)
         /\ Len(unseen') <= Len(heard')
    BY <1>1, <1>2, <1>3, <1>8, <1>12, <1>13
  <1>17. doing' = "collecting" BY <1>1
  <1> QED BY <1>8, <1>13, <1>14, <1>15, <1>16, <1>17 DEF AnswersInv

LEMMA SectionAnsweredAsks ==
  ASSUME NEW a \in Answers PROVE AnswersInv /\ SectionAnswered(a) => AnswersInv'
  <1> SUFFICES ASSUME AnswersInv, SectionAnswered(a) PROVE AnswersInv' OBVIOUS
  <1> DEFINE s == CoerceList(a)
             n == Len(heard)
  <1>1. /\ doing = "asking" /\ doing' = "collecting"
        /\ unseen' = s /\ heard' = heard \o s /\ asked' = asked /\ merged' = merged
    BY DEF SectionAnswered
  <1>2. s \in Seq(Items) BY ReadingAssumption
  <1> HIDE DEF s
  <1>3. /\ heard \in Seq(Items) /\ n \in Nat /\ merged.drafts \in Seq(Drafted)
        /\ asked.of \in Nat /\ merged.failed <= asked.so /\ asked.so \in Nat /\ merged.failed \in Nat
    BY AskFacts
  <1>4. /\ unseen = <<>> /\ asked.so < asked.of
        /\ Exact(heard, n - Len(unseen), merged.drafts, merged.dropped)
    BY <1>1 DEF AnswersInv
  <1>5. n - Len(unseen) = n BY <1>3, <1>4
  <1>6. /\ heard' \in Seq(Items) /\ Len(heard') = n + Len(s)
        /\ \A i \in 1 .. n + Len(s) : heard'[i] = IF i <= n THEN heard[i] ELSE s[i - n]
    <2>1. heard' = heard \o s BY <1>1
    <2> QED BY <2>1, <1>2, <1>3, ConcatProperties
  <1>7. Len(s) \in Nat BY <1>2
  <1> HIDE DEF n
  <1>8. Len(heard') - Len(unseen') = n /\ Len(unseen') <= Len(heard') /\ unseen' \in Seq(Items)
    BY <1>1, <1>2, <1>3, <1>6, <1>7
  <1>9. \A k \in 1 .. Len(unseen') : unseen'[k] = heard'[n + k]
    <2> TAKE k \in 1 .. Len(unseen')
    <2> DEFINE j == n + k
    <2>1. j \in 1 .. n + Len(s) /\ ~(j <= n) /\ j - n = k BY <1>1, <1>3, <1>7
    <2> HIDE DEF j
    <2>2. heard'[j] = s[k] BY <1>6, <2>1
    <2> QED BY <1>1, <2>2 DEF j
  <1>10. Exact(heard', n, merged.drafts, merged.dropped)
    <2>1. \A j \in 1 .. n : heard[j] = heard'[j] BY <1>3, <1>6, <1>7
    <2>2. Exact(heard, n, merged.drafts, merged.dropped) BY <1>4, <1>5
    <2> QED BY <1>3, <2>1, <2>2, ExactExtends
  <1>11. ~(asked.of > 0 /\ merged.failed = asked.of) BY <1>3, <1>4
  <1>12. Exact(heard', Len(heard') - Len(unseen'), merged'.drafts, merged'.dropped)
    BY <1>1, <1>8, <1>10
  <1>13. \A k \in 1 .. Len(unseen') : unseen'[k] = heard'[Len(heard') - Len(unseen') + k]
    BY <1>8, <1>9
  <1>14. /\ asked' \in [of : Nat, so : Nat] /\ asked'.of <= MaxSections /\ asked'.so <= asked'.of
         /\ merged' \in [drafts : Seq(Drafted), dropped : Nat, failed : Nat]
         /\ merged'.failed <= asked'.so /\ Len(merged'.drafts) <= MaxDrafts
         /\ asked'.so < asked'.of /\ ~(asked'.of > 0 /\ merged'.failed = asked'.of)
    BY <1>1, <1>4, <1>11 DEF AnswersInv
  <1> QED BY <1>1, <1>6, <1>8, <1>12, <1>13, <1>14 DEF AnswersInv

LEMMA BeginAskingAsks == CutInv /\ AnswersInv /\ BeginAsking => AnswersInv'
  <1> SUFFICES ASSUME CutInv, AnswersInv, BeginAsking PROVE AnswersInv' OBVIOUS
  <1>1. /\ doing = "cut" /\ doing' = IF sections = <<>> THEN "merged" ELSE "asking"
        /\ asked' = [of |-> Len(sections), so |-> 0]
        /\ merged' = merged /\ unseen' = unseen /\ heard' = heard
    BY DEF BeginAsking
  <1>2. /\ asked.of = 0 /\ merged.drafts = <<>> /\ merged.dropped = 0
        /\ unseen = <<>> /\ heard = <<>>
    BY <1>1 DEF AnswersInv
  <1>3. /\ merged.failed \in Nat /\ merged.failed <= asked.so /\ asked.so \in Nat
        /\ asked.so <= asked.of
    BY AskFacts
  <1>4. merged.failed = 0 BY <1>2, <1>3
  <1>5. Len(sections) \in Nat /\ Len(sections) <= MaxSections /\ (sections # <<>> => Len(sections) > 0)
    <2>1. CASE sections = <<>>
      <3>1. Len(<<>>) = 0 OBVIOUS
      <3> QED BY <2>1, <3>1, ReadingAssumption
    <2>2. CASE Covered(text, sections)
      <3>1. Len(sections) \in 1 .. MaxSections BY <2>2 DEF Covered
      <3> QED BY <3>1, ReadingAssumption
    <2> QED BY <1>1, <2>1, <2>2 DEF CutInv
  <1>6. MaxDrafts \in Nat /\ MaxDrafts > 0 /\ Len(merged.drafts) = 0
    BY <1>2, ReadingAssumption
  <1>7. /\ merged' \in [drafts : Seq(Drafted), dropped : Nat, failed : Nat]
        /\ heard' \in Seq(Items) /\ unseen' \in Seq(Items) /\ Len(unseen') <= Len(heard')
        /\ Exact(heard', Len(heard') - Len(unseen'), merged'.drafts, merged'.dropped)
        /\ \A k \in 1 .. Len(unseen') : unseen'[k] = heard'[Len(heard') - Len(unseen') + k]
    BY <1>1 DEF AnswersInv
  <1>8. /\ asked' \in [of : Nat, so : Nat] /\ asked'.of = Len(sections) /\ asked'.so = 0
    BY <1>1, <1>5
  <1>9. CASE sections = <<>>
    <2>1. Len(sections) = 0 BY <1>9
    <2>2. doing' = "merged" BY <1>1, <1>9
    <2> QED BY <2>1, <2>2, <1>1, <1>2, <1>4, <1>5, <1>6, <1>7, <1>8 DEF AnswersInv
  <1>10. CASE sections # <<>>
    <2>1. doing' = "asking" /\ Len(sections) > 0 BY <1>1, <1>5, <1>10
    <2> QED BY <2>1, <1>1, <1>2, <1>4, <1>5, <1>6, <1>7, <1>8 DEF AnswersInv
  <1> QED BY <1>9, <1>10

LEMMA OthersAsk ==
  ASSUME AnswersInv, UNCHANGED askVars,
         doing \notin {"asking", "collecting", "merged", "raised"},
         doing' \notin {"asking", "collecting", "merged", "raised"}
  PROVE  AnswersInv'
  BY DEF AnswersInv, askVars

LEMMA AskIsExact == AnswersInv => MergeIsExact
  <1> SUFFICES ASSUME AnswersInv PROVE MergeIsExact OBVIOUS
  <1> DEFINE n == Len(heard) - Len(unseen)
             drafts == merged.drafts
             good == {j \in 1 .. n : Acceptable(heard[j])}
             Says(j, d) == j \in good /\ ToDraft(heard[j]) = d
  <1>1. drafts \in Seq(Drafted) /\ n \in Nat BY AskFacts
  <1>2. DOMAIN drafts = 1 .. Len(drafts) /\ Len(drafts) \in Nat BY <1>1
  <1>3. /\ \A j \in 1 .. n : Acceptable(heard[j]) =>
             \E i \in 1 .. Len(drafts) : drafts[i] = ToDraft(heard[j])
        /\ \A i \in 1 .. Len(drafts) : \E j \in 1 .. n :
             /\ Acceptable(heard[j]) /\ ToDraft(heard[j]) = drafts[i]
             /\ \A m \in i + 1 .. Len(drafts) : \A l \in 1 .. j :
                  ~(Acceptable(heard[l]) /\ ToDraft(heard[l]) = drafts[m])
        /\ merged.dropped = Cardinality({j \in 1 .. n : ~Acceptable(heard[j])})
    BY DEF AnswersInv, Exact
  <1>4. {j \in 1 .. n : ~Acceptable(heard[j])} = 1 .. n \ good OBVIOUS
  <1>5. \A j \in good : \E i \in DOMAIN drafts : Says(j, drafts[i])
    <2> TAKE j \in good
    <2>1. PICK i \in 1 .. Len(drafts) : drafts[i] = ToDraft(heard[j]) BY <1>3
    <2> QED BY <2>1, <1>2
  <1>6. \A i \in DOMAIN drafts : \E j \in good :
          /\ Says(j, drafts[i])
          /\ \A k \in i + 1 .. Len(drafts) : \A l \in 1 .. j : ~Says(l, drafts[k])
    <2> TAKE i \in DOMAIN drafts
    <2>1. PICK j \in 1 .. n :
            /\ Acceptable(heard[j]) /\ ToDraft(heard[j]) = drafts[i]
            /\ \A m \in i + 1 .. Len(drafts) : \A l \in 1 .. j :
                 ~(Acceptable(heard[l]) /\ ToDraft(heard[l]) = drafts[m])
      BY <1>2, <1>3
    <2>2. j \in good /\ Says(j, drafts[i]) BY <2>1
    <2>3. \A k \in i + 1 .. Len(drafts) : \A l \in 1 .. j : ~Says(l, drafts[k])
      BY <2>1
    <2> QED BY <2>2, <2>3
  <1>7. merged.dropped = Cardinality(1 .. n \ good) BY <1>3, <1>4
  <1>8. /\ unseen # <<>> /\ doing # "collecting" => Len(drafts) = MaxDrafts
        /\ doing = "raised" <=> asked.of > 0 /\ merged.failed = asked.of
        /\ doing = "merged" => asked.so = asked.of \/ Len(drafts) = MaxDrafts
    BY DEF AnswersInv
  <1> QED BY <1>5, <1>6, <1>7, <1>8 DEF MergeIsExact

-----------------------------------------------------------------------------
\* The fewest pages that hold n characters.
LEMMA EstimateHolds ==
  ASSUME NEW n \in Nat, n >= 1
  PROVE  /\ EstimatePages(n) \in Nat /\ EstimatePages(n) >= 1
         /\ EstimatePages(n) * PageSize >= n
         /\ (EstimatePages(n) - 1) * PageSize < n
  <1> DEFINE e == (n + PageSize - 1) \div PageSize
  <1>1. PageSize \in Nat /\ PageSize > 0 BY ReadingAssumption
  <1>2. /\ e \in Int /\ e * PageSize <= n + PageSize - 1
        /\ n + PageSize - 1 < e * PageSize + PageSize
    <2>1. ASSUME NEW x \in Nat, NEW y \in Nat, y > 0
          PROVE  /\ x \div y \in Int /\ (x \div y) * y <= x
                 /\ x < (x \div y) * y + y
      BY <2>1, Z3
    <2> DEFINE x == n + PageSize - 1
    <2>2. x \in Nat BY <1>1
    <2> HIDE DEF x
    <2>3. /\ x \div PageSize \in Int /\ (x \div PageSize) * PageSize <= x
          /\ x < (x \div PageSize) * PageSize + PageSize
      BY <1>1, <2>1, <2>2
    <2> QED BY <2>3 DEF x
  <1> HIDE DEF e
  <1>3. e >= 1
    <2> SUFFICES ASSUME e <= 0 PROVE FALSE BY <1>2
    <2>1. e * PageSize <= 0 BY <1>1, <1>2
    <2>2. e * PageSize \in Int BY <1>1, <1>2
    <2> QED BY <1>1, <1>2, <2>1, <2>2
  <1>4. EstimatePages(n) = e BY <1>2, <1>3 DEF EstimatePages, Greater, e
  <1>5. (e - 1) * PageSize = e * PageSize - PageSize BY <1>1, <1>2
  <1>6. e * PageSize \in Int BY <1>1, <1>2
  <1> QED BY <1>1, <1>2, <1>3, <1>4, <1>5, <1>6

LEMMA PagesSaidTyped ==
  ASSUME NEW f \in Uploads
  PROVE  PagesSaid(f) \in Nat \cup {Unknown}
  <1>1. /\ {f.chars, f.stored, f.rendered, f.manual} \subseteq Nat /\ MaxPages \in Nat
    BY ReadingAssumption
  <1>2. Lesser(f.stored, MaxPages) \in Nat BY <1>1 DEF Lesser
  <1>3. f.rendered + 1 \in Nat /\ f.manual + 1 \in Nat BY <1>1
  <1> DEFINE a == Format(f) = "pdf"
             b == Format(f) = "docx" /\ f.rendered > 0
             c == Format(f) = "docx" /\ f.rendered = 0 /\ f.manual > 0
  <1>4. PagesSaid(f) = CASE a -> Lesser(f.stored, MaxPages) [] b -> f.rendered + 1
                         [] c -> f.manual + 1 [] OTHER -> Unknown
    BY DEF PagesSaid
  <1>5. ~(a /\ b) /\ ~(a /\ c) /\ ~(b /\ c) BY <1>1
  <1> HIDE DEF a, b, c
  <1>6. CASE a BY <1>2, <1>4, <1>5, <1>6
  <1>7. CASE b BY <1>3, <1>4, <1>5, <1>7
  <1>8. CASE c BY <1>3, <1>4, <1>5, <1>8
  <1>9. CASE ~a /\ ~b /\ ~c BY <1>4, <1>9
  <1> QED BY <1>6, <1>7, <1>8, <1>9

LEMMA PagesHold ==
  ASSUME NEW f \in Uploads, doing = "uploaded",
         upload = [of |-> f, as |-> ExtractDocument(f)]
  PROVE  PagesAreExplained
  <1> DEFINE as == ExtractDocument(f)
             n == Lesser(f.chars, MaxText)
             said == PagesSaid(f)
             pdf == Format(f) = "pdf"
             counted == said # Unknown /\ (pdf \/ said >= EstimatePages(n))
  <1> SUFFICES ASSUME as.error = "none"
               PROVE  /\ as.pages >= 1 /\ as.chars \in 1 .. MaxText
                      /\ IF as.basis = "counted"
                         THEN /\ as.pages = Greater(1, said)
                              /\ as.pages * PageSize >= as.chars \/ f.magic = "pdf"
                         ELSE /\ as.pages * PageSize >= as.chars
                              /\ (as.pages - 1) * PageSize < as.chars
                              /\ said # Unknown => said < as.pages
    <2>1. upload.as = as /\ upload.of = f OBVIOUS
    <2> QED BY <2>1 DEF PagesAreExplained
  <1>1. f.chars \in Nat /\ MaxText \in Nat /\ MaxText > 0 /\ PageSize \in Nat /\ PageSize > 0
        /\ Unknown \notin Nat
    BY ReadingAssumption
  <1>2. said \in Nat \cup {Unknown} BY PagesSaidTyped
  <1>3. /\ ~(~f.sound \/ f.chars = 0)
        /\ as = [error |-> "none", chars |-> n, truncated |-> n < f.chars,
                 pages |-> CountPages(n, said, pdf).pages,
                 basis |-> CountPages(n, said, pdf).basis]
    BY DEF ExtractDocument
  <1>4. n \in 1 .. MaxText /\ n \in Nat BY <1>1, <1>3 DEF Lesser
  <1>5. pdf => f.magic = "pdf"
    <2>1. CASE f.magic = "pdf" BY <2>1
    <2>2. CASE f.magic = "zip"
      <3>1. Format(f) = IF f.word THEN "docx" ELSE "refused" BY <2>2 DEF Format
      <3> QED BY <3>1
    <2>3. CASE f.magic # "pdf" /\ f.magic # "zip"
      <3>1. Format(f) = IF f.textual THEN "text" ELSE "refused" BY <2>3 DEF Format
      <3> QED BY <3>1
    <2> QED BY <2>1, <2>2, <2>3
  <1> HIDE DEF as, said, pdf, n
  <1>6. as.chars = n /\ as.pages = CountPages(n, said, pdf).pages
        /\ as.basis = CountPages(n, said, pdf).basis
    BY <1>3
  <1>7. /\ EstimatePages(n) \in Nat /\ EstimatePages(n) >= 1
        /\ EstimatePages(n) * PageSize >= n
        /\ (EstimatePages(n) - 1) * PageSize < n
    BY <1>4, EstimateHolds
  <1>8. CASE counted
    <2>1. CountPages(n, said, pdf) = [pages |-> Greater(1, said), basis |-> "counted"]
      BY <1>8 DEF CountPages
    <2>2. as.pages = Greater(1, said) /\ as.basis = "counted" BY <1>6, <2>1
    <2>3. said \in Nat BY <1>2, <1>8
    <2>4. as.pages \in Nat /\ as.pages >= 1 /\ as.pages >= said BY <2>2, <2>3 DEF Greater
    <2>5. ASSUME ~pdf PROVE as.pages * PageSize >= n
      <3> DEFINE e == EstimatePages(n)
                 p == as.pages
      <3>1. said >= e BY <1>8, <2>5
      <3>2. e \in Nat /\ e * PageSize >= n BY <1>7
      <3>3. p \in Nat /\ p >= said BY <2>4
      <3> HIDE DEF e, p
      <3>4. p >= e BY <3>1, <3>2, <3>3, <2>3
      <3>5. p * PageSize >= e * PageSize BY <3>2, <3>3, <3>4, <1>1
      <3>6. p * PageSize \in Nat /\ e * PageSize \in Nat BY <3>2, <3>3, <1>1
      <3>7. p * PageSize >= n BY <3>2, <3>5, <3>6, <1>4
      <3> QED BY <3>7 DEF p
    <2>6. as.chars = n BY <1>6
    <2> QED BY <2>2, <2>4, <2>5, <2>6, <1>4, <1>5
  <1>9. CASE ~counted
    <2>1. CountPages(n, said, pdf) = [pages |-> EstimatePages(n), basis |-> "estimated"]
      BY <1>9 DEF CountPages
    <2>2. as.pages = EstimatePages(n) /\ as.basis = "estimated" BY <1>6, <2>1
    <2>3. said # Unknown => said < as.pages BY <1>2, <1>7, <1>9, <2>2
    <2>4. as.chars = n BY <1>6
    <2> QED BY <2>2, <2>3, <2>4, <1>4, <1>7
  <1> QED BY <1>8, <1>9

-----------------------------------------------------------------------------
\* The inductive invariant: where the cutting is, the merging, and the upload.
ReadingIndInv ==
  /\ CutInv /\ AnswersInv
  /\ doing = "uploaded" => \E f \in Uploads : upload = [of |-> f, as |-> ExtractDocument(f)]

LEMMA ReadingStarts == ReadingInit => ReadingIndInv
  <1> SUFFICES ASSUME ReadingInit PROVE ReadingIndInv OBVIOUS
  <1>1. CutInv BY DEF ReadingInit, CutInv
  <1>2. AnswersInv
    <2>1. /\ doing = "nothing" /\ asked = [of |-> 0, so |-> 0] /\ unseen = <<>> /\ heard = <<>>
          /\ merged = [drafts |-> <<>>, dropped |-> 0, failed |-> 0]
      BY DEF ReadingInit
    <2>2. <<>> \in Seq(Drafted) /\ <<>> \in Seq(Items) /\ Len(<<>>) = 0 OBVIOUS
    <2>3. Exact(heard, Len(heard) - Len(unseen), merged.drafts, merged.dropped)
      <3>1. 1 .. 0 = {} /\ {j \in 1 .. 0 : ~Acceptable(heard[j])} = {} OBVIOUS
      <3>2. Cardinality({}) = 0 BY FS_EmptySet
      <3>3. Len(heard) - Len(unseen) = 0 /\ Len(merged.drafts) = 0 /\ merged.dropped = 0
        BY <2>1, <2>2
      <3>4. Exact(heard, 0, merged.drafts, 0) BY <3>1, <3>2, <3>3 DEF Exact
      <3> QED BY <3>3, <3>4
    <2>4. MaxSections \in Nat /\ MaxDrafts \in Nat BY ReadingAssumption
    <2> QED BY <2>1, <2>2, <2>3, <2>4 DEF AnswersInv
  <1> QED BY <1>1, <1>2 DEF ReadingInit, ReadingIndInv

LEMMA ReadingSteps == ReadingIndInv /\ [ReadingNext]_readingVars => ReadingIndInv'
  <1> SUFFICES ASSUME ReadingIndInv, [ReadingNext]_readingVars PROVE ReadingIndInv' OBVIOUS
  <1>1. CutInv /\ AnswersInv BY DEF ReadingIndInv
  <1>2. ASSUME NEW f \in Uploads, ReadUpload(f) PROVE ReadingIndInv'
    <2>1. /\ doing = "nothing" /\ doing' = "uploaded"
          /\ upload' = [of |-> f, as |-> ExtractDocument(f)]
          /\ UNCHANGED cutVars /\ UNCHANGED askVars
      BY <1>2 DEF ReadUpload
    <2>2. CutInv' BY <1>1, <2>1, OthersCut
    <2>3. AnswersInv' BY <1>1, <2>1, OthersAsk
    <2> QED BY <2>1, <2>2, <2>3 DEF ReadingIndInv
  <1>3. ASSUME NEW t \in Texts, Cut(t) PROVE ReadingIndInv'
    <2>1. /\ doing = "nothing" /\ doing' \in {"cut", "splitting"} /\ UNCHANGED askVars
      BY <1>3 DEF Cut
    <2>2. CutInv' BY <1>1, <1>3, CutCuts
    <2>3. AnswersInv' BY <1>1, <2>1, OthersAsk
    <2> QED BY <2>1, <2>2, <2>3 DEF ReadingIndInv
  <1>4. CASE CutStep
    <2>1. /\ doing \in {"splitting", "packing"} /\ doing' \in {"splitting", "packing", "cut"}
          /\ UNCHANGED askVars
      BY <1>4 DEF CutStep, TakeParagraph, EnterParagraph, JoinSentence, BeginHardCut, HardCut,
        LeaveParagraph, BeginPacking, Pack, NextSection, LastSection
    <2>2. CutInv' BY <1>1, <1>4, CutStepCuts
    <2>3. AnswersInv' BY <1>1, <2>1, OthersAsk
    <2> QED BY <2>1, <2>2, <2>3 DEF ReadingIndInv
  <1>5. CASE BeginAsking
    <2>1. doing' # "uploaded" BY <1>5 DEF BeginAsking
    <2> QED BY <1>1, <1>5, <2>1, BeginAskingCuts, BeginAskingAsks DEF ReadingIndInv
  <1>6. ASSUME NEW a \in Answers, SectionAnswered(a) PROVE ReadingIndInv'
    <2>1. doing = "asking" /\ doing' = "collecting" /\ UNCHANGED cutVars
      BY <1>6 DEF SectionAnswered
    <2>2. CutInv' BY <1>1, <2>1, OthersCut
    <2>3. AnswersInv' BY <1>1, <1>6, SectionAnsweredAsks
    <2> QED BY <2>1, <2>2, <2>3 DEF ReadingIndInv
  <1>7. CASE TakeItem
    <2>1. doing = "collecting" /\ doing' = "collecting" /\ UNCHANGED cutVars
      BY <1>7 DEF TakeItem
    <2>2. CutInv' BY <1>1, <2>1, OthersCut
    <2>3. AnswersInv' BY <1>1, <1>7, TakeItemAsks
    <2> QED BY <2>1, <2>2, <2>3 DEF ReadingIndInv
  <1>8. CASE EndAnswer
    <2>1. doing = "collecting" /\ doing' \in {"asking", "raised", "merged"} /\ UNCHANGED cutVars
      BY <1>8 DEF EndAnswer, Continue
    <2>2. CutInv' BY <1>1, <2>1, OthersCut
    <2>3. AnswersInv' BY <1>1, <1>8, EndAnswerAsks
    <2> QED BY <2>1, <2>2, <2>3 DEF ReadingIndInv
  <1>9. CASE FailSection
    <2>1. doing = "asking" /\ doing' \in {"asking", "raised", "merged"} /\ UNCHANGED cutVars
      BY <1>9 DEF FailSection, Continue
    <2>2. CutInv' BY <1>1, <2>1, OthersCut
    <2>3. AnswersInv' BY <1>1, <1>9, FailSectionAsks
    <2> QED BY <2>1, <2>2, <2>3 DEF ReadingIndInv
  <1>10. ASSUME NEW m \in Meanings, NEW in \in {"none", "prose", "fence"}, NEW n \in 0 .. Longest,
                NEW where \in {"after", "within", "escape"}, ParseAnswer(m, in, n, where)
         PROVE  ReadingIndInv'
    <2>1. doing = "nothing" /\ doing' = "parsed" /\ UNCHANGED cutVars /\ UNCHANGED askVars
      BY <1>10 DEF ParseAnswer
    <2>2. CutInv' BY <1>1, <2>1, OthersCut
    <2>3. AnswersInv' BY <1>1, <2>1, OthersAsk
    <2> QED BY <2>1, <2>2, <2>3 DEF ReadingIndInv
  <1>11. CASE UNCHANGED readingVars
    <2>1. UNCHANGED <<doing, upload, text, at, inside, cutTo, piece, blocks, current, sections,
                      asked, merged, unseen, heard>>
      BY <1>11 DEF readingVars, cutVars, splitVars, askVars
    <2>2. CutInv'
      BY <1>1, <2>1 DEF CutInv, Splitting, Packing, Filled, Flushed
    <2>3. AnswersInv' BY <1>1, <2>1 DEF AnswersInv
    <2> QED BY <2>1, <2>2, <2>3 DEF ReadingIndInv
  <1> QED BY <1>2, <1>3, <1>4, <1>5, <1>6, <1>7, <1>8, <1>9, <1>10, <1>11 DEF ReadingNext

LEMMA ReadingTyped == ReadingIndInv => ReadingTypeOK
  <1> SUFFICES ASSUME ReadingIndInv PROVE ReadingTypeOK OBVIOUS
  <1>1. CutInv /\ AnswersInv BY DEF ReadingIndInv
  <1>2. MaxChars \in Nat BY ReadingAssumption
  <1>3. /\ at \in 1 .. Len(text) + 1 /\ {inside, cutTo} \subseteq 0 .. Len(text)
        /\ Len(piece) <= MaxChars
    <2>1. CASE doing = "splitting"
      <3>1. /\ IsText(text) /\ Len(text) \in Nat /\ at \in 1 .. Len(text) + 1
            /\ inside \in 0 .. Len(text) /\ Splitting
        BY <1>1, <2>1, SplittingFacts
      <3>2. cutTo \in 0 .. Len(text)
        <4>1. cutTo # 0 => cutTo \in at .. Len(text) BY <3>1 DEF Splitting, Placed, CutHard
        <4> QED BY <4>1, <3>1
      <3>3. Len(piece) <= MaxChars
        <4>1. CASE piece = <<>>
          <5>1. Len(<<>>) = 0 OBVIOUS
          <5> QED BY <4>1, <5>1, <1>2
        <4>2. CASE piece # <<>>
          <5>1. /\ Flushed = Append(blocks, piece) /\ Split(text, Flushed, at)
                /\ blocks \in Seq(Seq(Int)) /\ piece \in Seq(Int)
            BY <4>2, <3>1 DEF Flushed, Splitting
          <5>2. Chained(text, Append(blocks, piece)) BY <5>1 DEF Split
          <5>3. Good(text, piece) BY <5>1, <5>2, ChainShrinks
          <5> QED BY <5>3 DEF Good
        <4> QED BY <4>1, <4>2
      <3> QED BY <3>1, <3>2, <3>3
    <2>2. CASE doing # "splitting"
      <3>1. at = 1 /\ inside = 0 /\ cutTo = 0 /\ piece = <<>> BY <1>1, <2>2 DEF CutInv
      <3>2. Len(text) \in Nat
        <4>1. CASE text = <<>> BY <4>1
        <4>2. CASE IsText(text) BY <4>2, TextNumbers
        <4> QED BY <4>1, <4>2, <1>1, <2>2 DEF CutInv, Packing
      <3>3. Len(<<>>) = 0 OBVIOUS
      <3> QED BY <3>1, <3>2, <3>3, <1>2
    <2> QED BY <2>1, <2>2
  <1>4. Len(current) <= MaxChars
    <2>1. CASE doing = "packing" /\ current # <<>>
      <3>1. Good(text, current) BY <1>1, <2>1, PackingFacts
      <3> QED BY <3>1 DEF Good
    <2>2. CASE current = <<>>
      <3>1. Len(<<>>) = 0 OBVIOUS
      <3> QED BY <2>2, <3>1, <1>2
    <2>3. doing # "packing" => current = <<>> BY <1>1 DEF CutInv, Splitting
    <2> QED BY <2>1, <2>2, <2>3
  <1>5. /\ asked.of \in 0 .. MaxSections /\ asked.so \in 0 .. asked.of
        /\ Len(merged.drafts) \in 0 .. MaxDrafts
        /\ merged.failed \in 0 .. asked.so
        /\ Len(unseen) \in 0 .. Len(heard)
    BY <1>1, AskFacts, ReadingAssumption
  <1>6. merged.dropped \in 0 .. Len(heard)
    <2> DEFINE n == Len(heard) - Len(unseen)
    <2>1. n \in Nat /\ n <= Len(heard) /\ Len(heard) \in Nat BY <1>1, AskFacts
    <2> HIDE DEF n
    <2>2. merged.dropped = Cardinality({j \in 1 .. n : ~Acceptable(heard[j])})
      BY <1>1 DEF AnswersInv, Exact, n
    <2>3. merged.dropped \in 0 .. n BY <2>1, <2>2, DroppedCounted
    <2> QED BY <2>1, <2>3
  <1> QED BY <1>1, <1>3, <1>4, <1>5, <1>6 DEF ReadingTypeOK, CutInv

LEMMA ReadingIsRight == ReadingIndInv => ReadingInv
  <1> SUFFICES ASSUME ReadingIndInv PROVE ReadingInv OBVIOUS
  <1>1. PagesAreExplained
    <2>1. CASE doing = "uploaded"
      <3>1. PICK f \in Uploads : upload = [of |-> f, as |-> ExtractDocument(f)]
        BY <2>1 DEF ReadingIndInv
      <3> QED BY <2>1, <3>1, PagesHold
    <2>2. CASE doing # "uploaded" BY <2>2 DEF PagesAreExplained
    <2> QED BY <2>1, <2>2
  <1> QED BY <1>1, ReadingTyped, CutIsWhole, AskIsExact DEF ReadingInv, ReadingIndInv

\* Whatever the uploads, the texts and the answers are: the pages that are billed
\* can be explained (documents.py:30-58), the sections have all of a text that
\* fits the model, with every sentence whole (chunking.py:28-126), and what is
\* proposed is every acceptable obligation of the answers, once
\* (extraction.py:176-242).
THEOREM ReadingIsWhole == ReadingSpec => []ReadingInv
  <1>1. ReadingInit => ReadingIndInv BY ReadingStarts
  <1>2. ReadingIndInv /\ [ReadingNext]_readingVars => ReadingIndInv' BY ReadingSteps
  <1>3. ReadingIndInv => ReadingInv BY ReadingIsRight
  <1> QED BY <1>1, <1>2, <1>3, PTL DEF ReadingSpec
=============================================================================
