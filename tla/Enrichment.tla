------------------------------ MODULE Enrichment ------------------------------
(***************************************************************************)
(* Reading eligibility prose with the model: batches are scheduled under   *)
(* numbered keys, each selects pending notices in deadline order, reads    *)
(* them one by one through a cache keyed by the text, and writes what was  *)
(* inferred.  Nothing claims a notice, and the daily feed goes on changing *)
(* the texts.  A batch may die between any two statements, or go on after  *)
(* its lease was lost and its job given to another worker.                 *)
(***************************************************************************)
EXTENDS Integers, FiniteSets

CONSTANTS
  Notices,     \* the opportunities, by deadline: 1 closes first
  Texts,       \* eligibility texts
  Unreadable,  \* texts the model cannot read, by refusal or malformed answers
  Batches,     \* batch jobs that run at the same time
  BatchLimit,  \* the payload's batch, at most MAX_BATCH
  MaxRecords,  \* the schedule's max_records
  FeedMax,     \* bound on the texts the feed changes
  DeathMax,    \* bound on deaths and failed statements
  NoText

ASSUME EnrichmentAssumption ==
  /\ Notices = 1 .. Cardinality(Notices) /\ Unreadable \subseteq Texts /\ NoText \notin Texts
  /\ IsFiniteSet(Notices) /\ IsFiniteSet(Batches) /\ BatchLimit \in Nat \ {0} /\ MaxRecords \in Nat
  /\ FeedMax \in Nat /\ DeathMax \in Nat

VARIABLES
  note,      \* eligibility_note
  inferred,  \* the text whose reading the row shows; NoText: enriched_at IS NULL
  cached,    \* texts in enrichment_cache
  keys,      \* numbers of the batch jobs that are queued
  number,    \* the number of the job a batch runs, 0 when it is idle
  selected,  \* notices and texts a batch has selected and not finished
  phase,     \* of the first of them: the statement it is at
  strays,    \* batches that go on without their job
  feeds, deaths,
  \* history variables
  paid,      \* answers paid for a text
  lost,      \* answers that were paid and never stored
  overtaken  \* notices whose text changed after a batch selected them

batchVars == <<keys, number, selected, phase, strays>>
rowVars == <<note, inferred, cached>>
account == <<paid, lost, overtaken>>
enrichVars == <<rowVars, batchVars, feeds, deaths, account>>

EnrichTypeOK ==
  /\ note \in [Notices -> Texts] /\ inferred \in [Notices -> Texts \cup {NoText}]
  /\ cached \subseteq Texts \ Unreadable
  /\ number \in [Batches -> 0 .. Cardinality(Notices)]
  /\ keys \subseteq 1 .. Cardinality(Notices)
  /\ selected \in [Batches -> SUBSET (Notices \X Texts)]
  /\ phase \in [Batches -> {"next", "ask", "meter", "refused", "store", "write"}]
  /\ strays \subseteq {b \in Batches : number[b] # 0}

EnrichInit ==
  /\ note \in [Notices -> Texts]
  /\ inferred = [n \in Notices |-> NoText]
  /\ cached = {} /\ keys = {}
  /\ number = [b \in Batches |-> 0] /\ selected = [b \in Batches |-> {}]
  /\ phase = [b \in Batches |-> "next"] /\ strays = {}
  /\ feeds = 0 /\ deaths = 0
  /\ paid = [t \in Texts |-> 0] /\ lost = [t \in Texts |-> 0] /\ overtaken = {}

-----------------------------------------------------------------------------
Pending == {n \in Notices : inferred[n] = NoText}
Earliest(S) == CHOOSE n \in S : \A m \in S : n <= m
Smaller(a, b) == IF a < b THEN a ELSE b
NumbersOfRunning == {number[b] : b \in Batches \ strays} \ {0}

ScheduleWhole == \* mutant: the last, partial batch is rounded away
  LET records == Smaller(Cardinality(Pending), MaxRecords)
      batches == records \div BatchLimit
  IN /\ keys' = keys \cup (1 .. batches \ NumbersOfRunning)
     /\ UNCHANGED <<rowVars, number, selected, phase, strays, feeds, deaths, account>>

\* schedule_enrichment: one live job per number.
Schedule ==
  LET records == Smaller(Cardinality(Pending), MaxRecords)
      batches == (records + BatchLimit - 1) \div BatchLimit
  IN /\ keys' = keys \cup (1 .. batches \ NumbersOfRunning)
     /\ UNCHANGED <<rowVars, number, selected, phase, strays, feeds, deaths, account>>

\* The first rows by deadline.
First(S) == {n \in S : Cardinality({m \in S : m < n}) < BatchLimit}

\* enrich_eligibility: a job is claimed and selects its notices.
Select(b) ==
  /\ number[b] = 0 /\ keys # {}
  /\ number' = [number EXCEPT ![b] = Earliest(keys)]
  /\ keys' = keys \ {Earliest(keys)}
  /\ selected' = [selected EXCEPT ![b] = {<<n, note[n]>> : n \in First(Pending)}]
  /\ phase' = [phase EXCEPT ![b] = "next"]
  /\ UNCHANGED <<rowVars, strays, feeds, deaths, account>>

CurrentNotice(b) == Earliest({s[1] : s \in selected[b]})
CurrentText(b) == (CHOOSE s \in selected[b] : s[1] = CurrentNotice(b))[2]
Current(b) == <<CurrentNotice(b), CurrentText(b)>>

At(b, s) == number[b] # 0 /\ selected[b] # {} /\ phase[b] = s
GoesTo(b, s) == phase' = [phase EXCEPT ![b] = s]
Drops(b) == selected' = [selected EXCEPT ![b] = @ \ {Current(b)}] /\ GoesTo(b, "next")

LookUpNothing(b) == \* mutant: the cache is not read
  /\ At(b, "next")
  /\ GoesTo(b, "ask")
  /\ UNCHANGED <<rowVars, keys, number, selected, strays, feeds, deaths, account>>

\* _get_cached, by the hash of the exact text.
LookUp(b) ==
  /\ At(b, "next")
  /\ GoesTo(b, IF CurrentText(b) \in cached THEN "write" ELSE "ask")
  /\ UNCHANGED <<rowVars, keys, number, selected, strays, feeds, deaths, account>>

\* The model is asked.
Ask(b) ==
  /\ At(b, "ask")
  /\ IF CurrentText(b) \in Unreadable
     THEN GoesTo(b, "refused") /\ UNCHANGED paid
     ELSE GoesTo(b, "meter") /\ paid' = [paid EXCEPT ![CurrentText(b)] = @ + 1]
  /\ UNCHANGED <<rowVars, keys, number, selected, strays, feeds, deaths, lost, overtaken>>

\* _meter, which never raises (UsageLedger): an answer is recorded before it is stored.
Meter(b) ==
  /\ At(b, "meter")
  /\ GoesTo(b, "store")
  /\ UNCHANGED <<rowVars, keys, number, selected, strays, feeds, deaths, account>>

\* _meter_failure, and the exception leaves the notice.
MeterFailure(b) ==
  /\ At(b, "refused")
  /\ Drops(b)
  /\ UNCHANGED <<rowVars, keys, number, strays, feeds, deaths, account>>

\* _store: INSERT .. ON CONFLICT DO UPDATE.
Store(b) ==
  /\ At(b, "store")
  /\ cached' = cached \cup {CurrentText(b)}
  /\ GoesTo(b, "write")
  /\ UNCHANGED <<note, inferred, keys, number, selected, strays, feeds, deaths, account>>

\* The UPDATE of the row, whatever its note is by now.
WriteFacts(b) ==
  /\ At(b, "write")
  /\ inferred' = [inferred EXCEPT ![CurrentNotice(b)] = CurrentText(b)]
  /\ Drops(b)
  /\ UNCHANGED <<note, cached, keys, number, strays, feeds, deaths, account>>

EndBatch(b) ==
  /\ number[b] # 0 /\ selected[b] = {}
  /\ number' = [number EXCEPT ![b] = 0]
  /\ strays' = strays \ {b}
  /\ UNCHANGED <<rowVars, keys, selected, phase, feeds, deaths, account>>

Loses(b) ==
  lost' = IF At(b, "meter") \/ At(b, "store")
          THEN [lost EXCEPT ![CurrentText(b)] = @ + 1] ELSE lost

\* A statement raises: the notice is left for a later batch.
RowFails(b) ==
  /\ number[b] # 0 /\ selected[b] # {} /\ phase[b] # "meter" /\ deaths < DeathMax
  /\ deaths' = deaths + 1
  /\ Drops(b)
  /\ Loses(b)
  /\ UNCHANGED <<rowVars, keys, number, strays, feeds, paid, overtaken>>

\* The lease runs out under a batch that stalls: the ledger queues its job
\* again, and the batch goes on, whatever its heartbeats are answered.
LeaseLost(b) ==
  /\ number[b] # 0 /\ b \notin strays /\ deaths < DeathMax
  /\ deaths' = deaths + 1
  /\ keys' = keys \cup {number[b]}
  /\ strays' = strays \cup {b}
  /\ UNCHANGED <<rowVars, number, selected, phase, feeds, account>>

\* The worker dies; the ledger queues the job again.
BatchDies(b) ==
  /\ number[b] # 0 /\ deaths < DeathMax
  /\ deaths' = deaths + 1
  /\ keys' = IF b \in strays THEN keys ELSE keys \cup {number[b]}
  /\ number' = [number EXCEPT ![b] = 0] /\ strays' = strays \ {b}
  /\ selected' = [selected EXCEPT ![b] = {}]
  /\ Loses(b)
  /\ UNCHANGED <<rowVars, phase, feeds, paid, overtaken>>

\* The daily load gives a notice another text; enriched_at is not among the
\* columns it sets.
FeedChanges(n, t) ==
  /\ feeds < FeedMax /\ note[n] # t
  /\ feeds' = feeds + 1
  /\ note' = [note EXCEPT ![n] = t]
  /\ overtaken' = IF inferred[n] # NoText \/ \E b \in Batches : \E s \in selected[b] : s[1] = n
                  THEN overtaken \cup {n} ELSE overtaken
  /\ UNCHANGED <<inferred, cached, batchVars, deaths, paid, lost>>

BatchStep(b) ==
  \/ Select(b) \/ LookUp(b) \/ Ask(b) \/ Meter(b) \/ MeterFailure(b) \/ Store(b)
  \/ WriteFacts(b) \/ EndBatch(b)

EnrichNext ==
  \/ Schedule
  \/ \E b \in Batches : BatchStep(b) \/ RowFails(b) \/ LeaseLost(b) \/ BatchDies(b)
  \/ \E n \in Notices, t \in Texts : FeedChanges(n, t)

\* The scheduler comes round, and batches that run go on.
EnrichFairness == WF_enrichVars(Schedule) /\ \A b \in Batches : WF_enrichVars(BatchStep(b))

EnrichSpec == EnrichInit /\ [][EnrichNext]_enrichVars

-----------------------------------------------------------------------------
Asking(t) ==
  {b \in Batches : (\E s \in {"ask", "meter", "store"} : At(b, s)) /\ CurrentText(b) = t}

\* Types; "never repeated for free" (grant_enrichment.py:27) for batches that
\* run at once: a text is paid for at most once per such batch, plus once per
\* answer that was lost before it was stored, also when a batch lost its lease
\* and "a second worker starts paying for the same reads" (enrichment_jobs.py:
\* 79); and the facts a notice shows are those of its own text unless the feed
\* changed it after it was selected.
PaidOnceEach ==
  /\ EnrichTypeOK
  /\ \A t \in Texts :
       /\ paid[t] <= lost[t] + Cardinality(Batches)
       /\ t \notin cached => paid[t] <= lost[t] + Cardinality(Asking(t))
  /\ \A n \in Notices : inferred[n] \notin {NoText, note[n]} => n \in overtaken

HeadIsPassable == Cardinality({n \in Notices : note[n] \in Unreadable}) < BatchLimit

\* "The record stays unenriched and is picked up by a later batch"
\* (enrichment_jobs.py:88): every readable notice is read some day, provided
\* there are always fewer unreadable ones than a batch takes, for those keep
\* their place at the head and are selected again and again.
EveryNoticeIsRead ==
  []HeadIsPassable =>
    \A n \in Notices : <>[](inferred[n] # NoText \/ note[n] \in Unreadable)
=============================================================================
