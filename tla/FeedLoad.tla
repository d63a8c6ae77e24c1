------------------------------- MODULE FeedLoad -------------------------------
(***************************************************************************)
(* The daily load of the Grants.gov extract: records are built from the    *)
(* XML, batched, and upserted by source_uid, one statement per batch.  A   *)
(* statement that raises, for a row the table refuses or for a fault of    *)
(* the database, is repeated row by row.  The job may die between two      *)
(* statements, and the ledger runs it again from the beginning.            *)
(***************************************************************************)
EXTENDS Integers, Sequences, FiniteSets

CONSTANTS
  Uids,      \* OpportunityID
  Days,      \* dates, as numbers
  Amounts,   \* award amounts
  Extracts,  \* the extracts the funder may publish: sequences of RawRecords
  BatchSizes,
  MaxRuns,   \* bound on the attempts of the job
  FaultMax,  \* bound on the faults of the database
  Missing,   \* an element that is absent, empty or cannot be parsed
  Old,       \* a row that an earlier load wrote
  NoRow

\* The elements of a record that the load looks at.  An unstorable record is
\* one the table refuses whatever _build does: an amount beyond numeric(14,2)
\* or a text with a NUL.
RawRecords ==
  [uid: Uids \cup {Missing}, posted: Days \cup {Missing}, closes: Days \cup {Missing},
   floor: Amounts \cup {Missing}, ceiling: Amounts \cup {Missing}, storable: BOOLEAN]

ASSUME FeedAssumption ==
  /\ Days \subseteq Nat /\ Amounts \subseteq Nat /\ Missing \notin Uids
  /\ Missing \notin Days \cup Amounts /\ Old # NoRow
  /\ Extracts \subseteq Seq(RawRecords)
  /\ BatchSizes \subseteq Nat \ {0} /\ MaxRuns \in Nat \ {0} /\ FaultMax \in Nat

VARIABLES
  extract,   \* what was downloaded
  batchSize,
  next,      \* the first record that is not loaded
  retryTo,   \* the last record of the batch that is being repeated row by row, or 0
  table,     \* platform.opportunities
  result,    \* the LoadResult
  loading,   \* "running", "done" or "failed"
  runs,
  faults,    \* so far
  \* history variables
  before,    \* the table before the first run
  unlucky    \* the records of this run whose own statement met a fault

feedVars == <<extract, batchSize, next, retryTo, table, result, loading, runs, faults, before,
              unlucky>>

-----------------------------------------------------------------------------
Reversed(low, high) == low # Missing /\ high # Missing /\ high < low

BuildAsGiven(raw) == raw \* mutant: the elements are copied as they are

\* _build: contradictory dates or amounts are dropped, the record is kept.
Build(raw) ==
  LET closes == IF Reversed(raw.posted, raw.closes) THEN Missing ELSE raw.closes
      amounts == Reversed(raw.floor, raw.ceiling)
  IN [raw EXCEPT !.closes = closes,
                 !.floor = IF amounts THEN Missing ELSE @,
                 !.ceiling = IF amounts THEN Missing ELSE @]

\* parse: a record without an identifier is skipped.
Usable == {i \in DOMAIN extract : extract[i].uid # Missing}
Total == Cardinality(Usable)
Place(n) == CHOOSE i \in Usable : Cardinality({j \in Usable : j <= i}) = n
Parsed == [n \in 1 .. Total |-> Build(extract[Place(n)])]

\* The constraints of platform.opportunities.
Accepted(r) ==
  r.storable /\ ~Reversed(r.posted, r.closes) /\ ~Reversed(r.floor, r.ceiling)

-----------------------------------------------------------------------------
Nothing == [inserted |-> 0, updated |-> 0, failed |-> 0]

FeedInit ==
  /\ extract \in Extracts /\ batchSize \in BatchSizes
  /\ \E known \in SUBSET Uids : table = [u \in Uids |-> IF u \in known THEN Old ELSE NoRow]
  /\ before = table
  /\ next = 1 /\ retryTo = 0 /\ result = Nothing /\ loading = "running" /\ runs = 1
  /\ faults = 0 /\ unlucky = {}

Upserted(rows) ==
  [u \in Uids |-> IF \E r \in rows : r.uid = u THEN CHOOSE r \in rows : r.uid = u ELSE table[u]]

\* RETURNING (xmax = 0): what was inserted and what was updated.
Tallied(rows) ==
  LET new == Cardinality({r.uid : r \in {q \in rows : table[q.uid] = NoRow}})
  IN [result EXCEPT !.inserted = @ + new, !.updated = @ + Cardinality(rows) - new]

\* An INSERT .. ON CONFLICT may not meet one row twice.
Repeats(first, last) ==
  \E i, j \in first .. last : i # j /\ Parsed[i].uid = Parsed[j].uid

RowsOf(first, last) == {Parsed[i] : i \in first .. last}

BatchEnd ==
  IF next + batchSize - 1 < Total THEN next + batchSize - 1 ELSE Total

SkipBatch == \* mutant: a batch that raises is given up
  /\ loading = "running" /\ retryTo = 0 /\ next <= Total
  /\ next' = BatchEnd + 1
  /\ IF Repeats(next, BatchEnd) \/ \E r \in RowsOf(next, BatchEnd) : ~Accepted(r)
     THEN UNCHANGED <<retryTo, table, result>>
     ELSE /\ table' = Upserted(RowsOf(next, BatchEnd))
          /\ result' = Tallied(RowsOf(next, BatchEnd))
          /\ UNCHANGED retryTo
  /\ UNCHANGED <<extract, batchSize, loading, runs, faults, before, unlucky>>

\* load: one statement for the batch, all of it or none.
LoadBatch ==
  /\ loading = "running" /\ retryTo = 0 /\ next <= Total
  /\ IF Repeats(next, BatchEnd) \/ \E r \in RowsOf(next, BatchEnd) : ~Accepted(r)
     THEN retryTo' = BatchEnd /\ UNCHANGED <<next, table, result>>
     ELSE /\ table' = Upserted(RowsOf(next, BatchEnd))
          /\ result' = Tallied(RowsOf(next, BatchEnd))
          /\ next' = BatchEnd + 1
          /\ UNCHANGED retryTo
  /\ UNCHANGED <<extract, batchSize, loading, runs, faults, before, unlucky>>

\* _retry_individually, one row of it.
LoadRow ==
  /\ loading = "running" /\ retryTo # 0
  /\ IF Accepted(Parsed[next])
     THEN table' = Upserted({Parsed[next]}) /\ result' = Tallied({Parsed[next]})
     ELSE result' = [result EXCEPT !.failed = @ + 1] /\ UNCHANGED table
  /\ next' = next + 1
  /\ retryTo' = IF next = retryTo THEN 0 ELSE retryTo
  /\ UNCHANGED <<extract, batchSize, loading, runs, faults, before, unlucky>>

\* The database fails under a statement, of a batch or of one row.
BatchFails ==
  /\ loading = "running" /\ retryTo = 0 /\ next <= Total /\ faults < FaultMax
  /\ faults' = faults + 1
  /\ retryTo' = BatchEnd
  /\ UNCHANGED <<extract, batchSize, next, table, result, loading, runs, before, unlucky>>

RowFails ==
  /\ loading = "running" /\ retryTo # 0 /\ faults < FaultMax
  /\ faults' = faults + 1
  /\ unlucky' = unlucky \cup {next}
  /\ result' = [result EXCEPT !.failed = @ + 1]
  /\ next' = next + 1
  /\ retryTo' = IF next = retryTo THEN 0 ELSE retryTo
  /\ UNCHANGED <<extract, batchSize, table, loading, runs, before>>

\* The rest of the handler: a load that wrote nothing raises.
EndLoad ==
  /\ loading = "running" /\ retryTo = 0 /\ next > Total
  /\ loading' = IF result.inserted + result.updated = 0 THEN "failed" ELSE "done"
  /\ UNCHANGED <<extract, batchSize, next, retryTo, table, result, runs, faults, before, unlucky>>

\* The worker dies or the handler raised, and the ledger runs the job again.
LoadAgain ==
  /\ loading # "done" /\ runs < MaxRuns
  /\ runs' = runs + 1
  /\ loading' = "running" /\ next' = 1 /\ retryTo' = 0 /\ result' = Nothing
  /\ unlucky' = {}
  /\ UNCHANGED <<extract, batchSize, table, faults, before>>

FeedNext == LoadBatch \/ BatchFails \/ LoadRow \/ RowFails \/ EndLoad \/ LoadAgain

FeedSpec == FeedInit /\ [][FeedNext]_feedVars

-----------------------------------------------------------------------------
FeedTypeOK ==
  /\ next \in 1 .. Total + 1 /\ retryTo \in 0 .. Total
  /\ table \in [Uids -> RawRecords \cup {Old, NoRow}]
  /\ loading \in {"running", "done", "failed"} /\ runs \in 1 .. MaxRuns

\* What one row at a time would have made of the first n records.
Sequentially(n) ==
  [u \in Uids |->
     LET good == {i \in 1 .. n : Parsed[i].uid = u /\ Accepted(Parsed[i])}
     IN IF good = {} THEN before[u] ELSE Parsed[CHOOSE i \in good : \A j \in good : j <= i]]

\* The table shows that of the first n records, but for the notices that a
\* fault hit.
Shows(n) ==
  \A u \in Uids :
    (\A i \in unlucky : Parsed[i].uid # u) => table[u] = Sequentially(n)[u]

\* Types; the constraints never see dates or amounts that _build should have
\* dropped (grants_gov.py:140-152); and "one malformed record should cost that
\* record, not the 999 loaded beside it" (loader.py:159-163): whatever the batch
\* size, the repetitions of a uid, the poison, the faults and the runs that
\* died, a load that ends has made of the table what loading the records one by
\* one would have, failed counts exactly the records that were refused or met a
\* fault by themselves, and every record is counted once.
LoadIsSequential ==
  /\ FeedTypeOK
  /\ \A i \in DOMAIN Parsed : Accepted(Parsed[i]) <=> Parsed[i].storable
  /\ runs = 1 => Shows(next - 1)
  /\ loading # "running" =>
       LET lost == {i \in DOMAIN Parsed : ~Parsed[i].storable} \cup unlucky
       IN /\ Shows(Total)
          /\ result.failed = Cardinality(lost)
          /\ result.inserted + result.updated + result.failed = Total
          /\ loading = "failed" <=> lost = DOMAIN Parsed
=============================================================================
