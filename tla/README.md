# ZeusGrant in TLA+

TLA+ models of the ZeusGrant platform (`src/platform`), the configurations that
check them with TLC on small instances, and theorems about the core of it that
TLAPS checks for every instance. File names below are relative to
`src/platform`; `platform-core`, `contract-compliance` stand for the packages
under `services/`, `service-kit` and `adapters` for those under `packages/`.

Run a check with `tlc -config <run>.cfg <module>.tla`, a proof with
`tlapm <Module>Proofs.tla`.

Contents: 1 the system · 2 modules and code · 3 runs · 4 fairness · 5 theorems ·
6 where the code and its comments part · 7 what is not modelled · 8 plan.

## 1. The system

ZeusGrant is a multi-tenant platform: a *core* service (accounts, workspaces,
billing, entitlements, grant search, the job queue) and a *module* service
(contract compliance), both FastAPI programs over one Postgres database, Redis,
an S3-like store, Stripe, a queue used as a doorbell, an e-mail service and LLM
providers; worker processes that run jobs; and a single-page console.

Two facts about it decide how everything is modelled. Nearly every repository
method is **one SQL statement that commits by itself** (a pooled connection in
autocommit), so a request handler is a *sequence* of atomic steps between which
any other request runs and after any of which the process may die. And the only
multi-row logic that is atomic is in **SQL functions** (the job queue's), each of
which is one step.

| component | state | operations | what makes it hard | what makes it correct |
|---|---|---|---|---|
| job ledger: migrations 0009, 0012, **0018** | `platform.jobs`: status, attempts, lease, holder, idempotency key | INSERT, `claim_job` (sweeps first), `heartbeat_job`, `finish_job`, `cancel_job`, `retry_job`, `reap_expired_leases` | leases expire under live workers; cancel, retry and late reports meet | lease exactly while running; one live job per key; attempts within the limit; settled stays settled |
| producers and doorbell: `service-kit` `jobs.py`, `dispatch.py` | what is being enqueued; undelivered messages | INSERT, publish, look up | lost and repeated messages; lookup after a conflict | no job twice under one key |
| worker: `worker.py`, `worker_main.py`, drain endpoints | loop, claimed job, heartbeat task, stop flag | run_forever, drain, run_once, progress, report, stop | stalls, crashes, lost answers, two holders of one job | only the current holder's verdict counts; nothing accepted is lost; stop ends the loop |
| operator: `admin_jobs.py` | – | cancel, retry, reap | acts on running jobs, without locks | as the ledger |
| sessions: `session_service.py`, `repositories/sessions.py`, `routers/auth.py` | refresh tokens in families; password | refresh (rotation, leeway, reuse detection), logout, login, reset | races on one cookie; revocation during a rotation | reuse kills the family; the deadline never moves; reset locks out |
| console session handling: `auth.tsx`, `api.ts` | cookie jar shared by tabs | refresh, logout, answers | answers out of order, late, lost or given up on | a tab is accused only over a refresh that went wrong; a late answer does not sign out |
| entitlements: `entitlements_service.py`, `service-kit` `security.py` | four parts of the truth, saved rows, cache with TTL | recompute, invalidate, two guards | stale recomputation over newer; fallbacks | quiet changes show at once; the cache becomes right |
| billing webhooks: `billing_service.py`, `repositories/billing.py` | event ledger, subscription row | claim, resolve, upsert, mark | duplicates, disorder, failure after the claim | access never moves back; each event once; nothing acked is lost |
| tenancy: `tenancy_service.py`, `repositories/tenants.py` | roles, owner, invites, seats, cached membership | change role, remove, transfer, invite, revoke, accept, look up | transfer in three statements; seats counted before use | one owner; seats; an invite admits once; removal evicts |
| e-mail codes: `email_verification_service.py` | codes, attempts, sends | issue, supersede, check, consume | check-then-act limits | attempts counted before compared; a code is spent |
| documents: `ingestion.py`, `repository.py` | rows, objects, body text | upload, delete, delete contract | two stores without a transaction | answered rows have bytes, bytes have rows, quotas |
| analysis: `analysis.py`, `extraction.py`, `job_handlers.py` | obligations, edits, mark | clear, sections, insert, mark, bill | minutes-long model call between delete and insert, runs overlap | human work survives; the mark and the bill mean a stored result |
| reading: `documents.py`, `chunking.py`, `extraction.py`, `json_parsing.py` | the text of a file, its sections, the answers about them | extract, cut, ask, parse, merge, deduplicate | every limit is a boundary; answers are malformed, wrapped or cut off | sections cover the text and fit; what a section answers is kept once; a readable answer is not lost |
| contracts and their audit trail: `contract-compliance` `routers.py`, `repository.py` | contracts, obligations, `audit_log` | create, change, delete | the entry follows the change; the status left is read before it | every change has its entry or died before it; ceilings |
| LLM gateway: `adapters/llm/resilient.py` | failures, opened at | retry, open, half-open, reset | concurrent calls through one counter | opens after a streak, fails fast, closes again |
| metering: `metering.py`, `admin_catalog.py`, `repositories/usage.py`, `routers/usage.py` | model prices, their cache entries, `ai_usage`, `ai_usage_monthly` | price, record, edit a price, roll up, show a page | a price cached after its edit; an allowance checked long before it is charged; totals and details read apart | bounded overshoot; a stale price is charged for the TTL at most; ledger, counter and rollups agree |
| grant scans: `grant_service.py` | jobs of the month | count, enqueue | count-then-enqueue, keys by minute | bounded stretch |
| grant feed: `sources/grants_gov.py`, `sources/loader.py` | `opportunities`, the load's result | parse, repair, load in batches, repeat row by row, die and run again | a batch fails as a whole; a row is in it twice | as if each record had been loaded by itself, in order |
| enrichment: `grant_enrichment.py`, `enrichment_jobs.py` | notices, the readings paid for and cached, batch jobs | schedule, select, ask, store, write | batches read the same notices; the feed changes them meanwhile | paid once a batch; in the end every notice is read |
| matching: `grant_service.py`, `grant_jobs.py`, `repositories/opportunities.py` | profile, offers, matches, rescoring jobs | edit, scan, rescore, fan out, dismiss | an edit swallowed by a job already queued; rescores that overlap | stale matches have one of the known reasons; what was dismissed stays so |
| runtime configuration: `runtime_config.py`, `container.py` | setting rows, shared cache, each instance's snapshot and clients | edit, refresh, reset, flush, use | refreshes in flight during an edit; clients built from old snapshots | an edit takes effect within the bounds of the two caches, or for a known reason does not |
| prompts: `config_registry.py` | versions, the active one | add, activate, fetch | two statements, two owners | an undisturbed activation is what is sent |
| accounts: `auth_service.py`, `google_oauth.py`, `tenancy_service.py` | accounts, passwords, identity, workspaces, trials | sign up, log in, Google, reset, provision | requests about one address in any order | the account of an address is its owner's |
| plans: `admin_catalog.py`, `repositories/plans.py`, `domain/entitlements.py` | plan rows, limits, exceptions, subscription, snapshot | create, patch, set limits, except, check out, cancel, compute | limits replaced row by row; a price id that changes | subscribers are heard; ceilings are current; a price that does not fit is reported |
| operators: `admin_tenants.py`, `admin_audit.py`, `security.py`, `scripts/grant_platform_admin.py` | the privilege, tokens, a workspace's status and exception, `admin_audit` | grant, revoke, mint, set, clear, record | tokens outlive a revocation; the entry is a statement of its own | entries are true; every change has one or died before it; a revocation is over with the tokens |
| lists: `admin_jobs.py`, `admin_tenants.py`, `grants.py` | – | filter, page, count | rows move while they are paged | a row is missed or shown twice only because rows moved |

Interactions. Producers, workers and the operator share `platform.jobs` only;
`JobSystem` composes them over `JobLedger`. A browser reaches sessions by
requests whose answers set its cookie; `BrowserSessions` composes both. An
analysis asks the allowance (`AiBudget`), runs as a job or inline, calls the
model through the breaker (`LlmBreaker`); `ContractAnalysis` composes the three.
What an answer becomes is `ContractReading`, which takes the parser from
`AnswerParsing`. Webhooks, administrators and the plan catalogue change what
entitlements are computed from and drop the snapshot: `EntitlementCache` has
them as `Change`, whatever they change; `PlanCatalogue` has the rows themselves,
and takes the pricing of a plan from `PlanPricing`. Scans count rows of the job
ledger: `ScanQuota`, `GrantMatching` and `Enrichment` have the jobs as statuses
or as the live job under a key, with the moves the ledger gives them.

The remaining components are in section 7. `PROJECT.json` lists all of them,
every hazard with its line, and for each definition the code it stands for.

## 2. Modules and code

Common conventions. A request is a record or a control state naming its next
statement; `Fail`, `Die`, `Crash` are its death or an exception there. Time is
in ticks; `now()` of the database where the code uses it. Variables under
*history* exist for the properties only: no guard reads them, except to compare a
count with its bound. Operators marked
`\* mutant:` are plausible bugs of the definition below them, and are used in no
specification; each property of each run is violated when one of them replaces
its definition. Symmetry is declared only in runs without liveness properties.

* **JobLedger** – the table and its functions, open: any caller calls anything
  at any time. One action per SQL function or branch (`Insert`, `ClaimJob`,
  `ClaimNothing`, `Heartbeat`, `FinishSucceeded/Failed/Requeued`, `Cancel`,
  `Requeue`, `Reap`, `Tick`). Timestamps are kept relative to now; `SKIP LOCKED`
  only chooses among serial orders, as every function is one transaction.
  `finish_job` of a worker that no longer holds the row changes nothing.
* **JobContract** – what the ledger promises, without leases, clocks, sweeps or
  keys: every job moves along its own life cycle. `JobLedger` instantiates it
  (`Contract`) and `ImplementsContract` is checked and proved.
* **JobSystem** – the real callers: producers (INSERT, doorbell, lookup), worker
  processes (pollers, `--once`, drain calls) with each `await` a step and the
  heartbeat task beside the handler, the operator with `retry_job`'s check and
  UPDATE apart. A stalled worker misses heartbeats because its event loop is
  blocked; a lost answer is `ClaimAnswerLost` or `ReportRaises`. A recycled
  process has a fresh worker id (`FreshId`; `default_worker_id`).
* **Sessions**, **BrowserSessions** – rows, and requests that read, claim, issue,
  revoke. A token may be presented by anyone at any time. `BrowserSessions` adds
  the jar: a request carries the cookie of the moment it is sent, and the answer
  replaces or clears it when it arrives. It need not arrive: a refresh may be lost on
  its way (`Vanish`), die between two statements (`Die`), or its answer be lost, given
  up on by the console, which waits `Patience`, or be an error after the rotation
  (`Lose`); the spent cookie then stays. A refusal clears the cookie or does not, as
  the router clears it on one response and the framework answers the exception with
  another. The user may sign in at any time in a tab that has no session. History:
  `home` (the family last signed in to and not out of), `crossed` (since then an answer
  to a request of another family arrived), `missed` (cookies of a refresh whose answer
  did not come after the server had read them, or that was out for more than half the
  leeway).
* **EntitlementCache** – the truth is four counters, each change moving one of
  them on; even means granting. Refresh is four reads, a save and a cache write.
* **BillingWebhook** – one subscription, its events with their second, deliveries
  in any order, two handlers. `Claim`, `Resolve`, `Write`, `Refresh`, `Mark`,
  `Answer`; `Raise` and `Crash` anywhere. `MapPrices` maps a price late.
* **Membership** – statement by statement, with the viewer's cached membership
  (`Lookup`, `Store`, `Evict`, `Forget`). History: `orphaned` (a promotion was
  lost or the owner's role overwritten), `oversold` (counting was overtaken),
  `misled` (a change overtook the lookup that stored it, or the eviction
  failed), `stranded` (died after consuming the invite).
* **EmailCodes** – six-digit codes as model values; a guess is one of them.
* **DocumentStore** – keys are `<<contract, file, name>>`; history: `clashed`
  (two requests handled the key at once), `broken` (a call failed or a request
  died), and in a row whether its INSERT was `answered`: one that was committed and not
  answered is compensated like one that failed. `Quota` stands for each of the four limits of `ingest`, in one month.
* **AiBudget**, **LlmBreaker**, **ContractAnalysis** – the allowance, the breaker
  and the analysis. `ContractAnalysis` EXTENDS the first and INSTANCEs the second
  (`Llm`), one breaker shared by all runs of a process. Its queued runs are not
  deduplicated: inline runs are not, so the key excludes no overlap. The
  breaker's clock is relative (`cooling`: the rest of the cooldown; `calm`: time
  since the last trip). A retry of a job is a run of its own and billed as one.
* **ContractReading**, **AnswerParsing** – from an upload to obligations. A text is a
  sequence of characters: a letter is the number of its place, by which it is found
  again in the sections, and white space a number that says what it separates.
  `chunk_text` goes step by step, as its loops do: first the text is split into
  blocks (`TakeParagraph`, `JoinSentence`, `HardCut`, …), then the blocks are packed
  (`Pack`, `NextSection`, `LastSection`); in the code the split is one call that ends
  before the packing begins. The merge of the answers takes an item at a time. An
  answer that is parsed is a sequence of tokens with its wrapping and the place where
  it stops, within a string or an escape of it too, and the parser a function of it. A run of white space is of one kind, and
  its length is kept; `normalize_text` leaves the same.
* **ContractFiling** – a clerk's request reads, changes and records, a statement
  at a time; `lost` has what was changed by a request that died before its entry, and
  `born` the status an obligation was created with, which its entry does not say.
* **UsageLedger** – one model's price, its cache entry with its age, and calls,
  each of which awaits the cache, the table, the cache and the ledger. The clock
  is relative. A page of the ledger is opened by its totals and finished by its
  seats.
* **PlanPricing**, **PlanCatalogue** – a plan as operators edit it. `PlanPricing`
  compares what the row says with what Stripe says (`Faults`) and with what the
  answers said (`told`); `PlanCatalogue` has limits deleted and inserted row by
  row, the exceptions, one customer, and `Recompute` in its four reads.
* **ScanQuota** – the count, the enqueue with a key of the minute, the jobs.
* **FeedLoad** – an extract is a sequence of records; the specification of the load
  applies them one after the other (`Sequentially`), and the batches, faults and
  repetitions are checked against it.
* **Enrichment** – batches select, ask, store and write; a reading is the text it was
  made from, so that a row shows whether it is out of date.
* **GrantMatching** – a match is the profile it was scored for; how an offer scores is
  a rank that depends on the profile. Its moves are bounded together (`MoveMax`).
* **RuntimeConfig** – one key; `time.monotonic()` starts with the machine, which is
  how `_effective_at = 0` is not always long ago. **PromptRegistry** – the versions.
* **Accounts** – the owner of an address and another person who names it; sessions
  are the pairs of person and account. A reset is three statements (`MarkVerified`,
  `SetPassword`, `RevokeAll`), provisioning too (`Provision`, `Found`, `Own`). History:
  `late` (a sign-up set its password after the owner's proof), `exposed` (a reset
  verified the address over the other person's password and is not through),
  `crowded` (two requests provisioned at once), `broken` (a creation died).
* **OperatorTrail** – who is an operator, by the row and by a token; changes are kept
  in their order (`changes`) beside the entries (`trail`).
* **Listings** – a table of rows with the columns a list filters and sorts by, pages
  read one at a time, rows that change in between.
* The **MC** modules – instances, and
  formulas that comments of the code claim and the code does not satisfy
  (section 6). `MC*` also define the symmetry sets. An MC module with several
  models that share no state has a variable `part`: one model, chosen at the
  start, moves, and the others stay in one initial state, so that the states are
  the sum and not the product, and each property is checked of its model as if
  it were alone. Models that do interact are composed by modules of their own
  (`JobSystem`, `BrowserSessions`, `ContractAnalysis`, `PlanCatalogue`,
  `ContractReading`).
* **\*Proofs** – section 5.

## 3. Runs

Distinct states and times are for two TLC workers.

| run | states | asks and shows |
|---|---|---|
| `job_system` | 923 k, 2m40 | A poller, a drain, a producer with colliding keys and an operator with two actions, over two jobs of two attempts; workers stall, crash and lose answers, messages get lost and are repeated. `SystemInv` (types, lease iff running, attempts within the limit), `OneLiveJobPerKey`, `HolderRunsCurrentAttempt` (a worker that still holds a row holds it for the attempt it runs), `SuccessIsTheHoldersVerdict`, `NoTakeoverWithinLease`, `ImplementsContract`. |
| `job_liveness` | 62 k, 65 s | One poller that is never killed, one that is, an unknown kind, an operator action: `EveryJobSettles`, `StoppedWorkerLeaves`; and `HealthyWorkerKeepsLease` with two heartbeats lost in a row. |
| `sessions` | 2.2 M, 2m25 | Two families of one user, three tokens, two requests that do anything and die anywhere, one reset. `SessionInv` (types; one deadline per family; nobody exchanges a token later than the leeway), `SignedOutForGood` (what was revoked while nothing was in flight, a family by a logout or all of them by a reset, stays dead). |
| `session_browser` | 2.7 M, 2m40 | Two tabs, two families, three tokens, sign-ins, leeway 2, a console that waits 3; requests die, answers are late, lost, given up on or errors after the rotation. `BrowserInv`: a tab is accused only over a cookie of which a refresh went wrong so; a spent cookie is in the jar only while it is being replaced or after that; a browser that is signed in holds a live cookie of its session, and no late answer of that session takes it away. |
| `billing` | 0.8 M, 2m | *Webhooks*: three events, two of one second, one irrelevant, two deliveries each, two handlers, one fault, a price mapped late: `AccessNeverMovesBack`, `BillingInv` (what was acknowledged is accounted for, an event takes effect at most once). *Catalogue*: a plan priced and repriced by two operators, with and without Stripe's answer, its limits replaced, a customer: `CatalogueInv` (ceilings are those of the plan and its exceptions, or somebody is still at work, or a known way to be stale; a price that does not match Stripe's was reported or could not be). *Usage*: two requests that call, edit the price and read the ledger: `UsageInv` (how long a stale price is charged; ledger, counter and rollups agree; a page's parts). |
| `repriced` | violation | `CancellationBites`, section 6. |
| `console` | 1.3 M, 2m | *Membership*: three people, two invites, two seats, five requests two at a time, dying anywhere: `MembershipInv` (one owner or a transfer broken off, seats, an invite admits once and never after it was revoked, the removed are evicted or a known race misled the cache). *Lists*: `PagesAreExplained`. *Operators*: `TrailInv` (entries are true; a change without an entry is of a request that died or is under way; a revoked operator acts no longer than a token lives). |
| `accounts` | 1.3 M, 1m30 | *Codes*: three codes, three guesses, two requests: `CodeInv` (attempts are counted before they are compared; accepted is spent; the limits stretch by one less than the concurrent requests; only overlapping requests leave two codes live). *Accounts*: two people, four requests: `OwnersAccount` (once an address is verified nobody else has a session or a password of the account, except by a sign-up whose last statement came after the owner's proof, or while a reset that verified it over that password is not through, because it is at work, died or was overtaken by a login; every account has its workspace and trials, every workspace its owner, or a known reason not to). *Configuration*: `EditsTakeEffect` (two edits of a row, one of them possibly by hand; an old value in use has one of the known reasons; an undisturbed activation of a prompt is what is sent). |
| `provisioning` | violation | `ProvisioningKeepsTheUser`, section 6. |
| `contracts` | 1.2 M, 2m50 | *Documents*: two files, one of them under two names, two requests, every call failing, an INSERT also after its commit; and *limits*: three files against a limit of one: `DocumentInv` (a row that was answered has its object; no orphans if nothing failed; the limits stretch by the concurrent uploads less one). *Analysis*: two overlapping runs, a failing provider, every edit and deletion: `AnalysisInv`, `HumanWorkSurvives`, `PaidMeansStored`, and `UsesAllowance`: the analysis implements `AiBudget`, so the theorem about the allowance is about it. *Filing*: two clerks: `FilingInv` (what was created, deleted or given another status has its entry or its request died before it; the ceiling stretches by the concurrent requests less one). *Reading*: `ReadingInv` (pages that are billed can be explained; sections fit, leave no gap and sever no sentence that fits; what is proposed is what was answered, once), `AnswersAreRecovered` (of an answer that stops anywhere but in a name, a literal or an escape, every whole item is taken and at most one that was cut). |
| `services` | 417 k, 105 s | *Breaker*: three callers, two attempts, threshold three, outages: `BreakerInv`, `FailsFast`, `ClosesAgain`. *Entitlements*: two calls of any kind, three changing parts: `CacheInv` (a change published in quiet is never hidden again), `EventuallyCurrent`. *Enrichment*: three notices, two batches, one of which may die or lose its lease and go on: `PaidOnceEach`, `EveryNoticeIsRead`. |
| `grants` | 352 k, 80 s | *Scans*: two requests, limit two, four jobs over three minutes, one retry: `ScanInv`. *Feed*: every extract of up to three records, in batches of one to three, loaded twice, a fault: `LoadIsSequential`. *Matching*: two offers, two profiles: `StaleMatchesAreExplained`. |

**Why these bounds are enough.**

* Jobs. Two jobs make keys, claim order and the sweep of several rows matter;
  an attempt limit of two has a first, a last and an exhausted attempt; two
  workers give every takeover; two operator actions give cancel-then-retry,
  which is what revives a row under a worker that still runs it. Attempts,
  lease and the holder's attempt are compared, never added up, so longer ones
  repeat these. `job_liveness` uses lease 3, heartbeat 1, two lost: the code's
  300 s, 90 s, of which three fit, made one step tighter.
* Sessions. Two requests contend for one token and two tokens are in a chain.
  In `sessions` a tick is longer than the leeway (0): requests of one tick are
  within it, the next tick is beyond, the one after is expiry. `session_browser`
  has a leeway of two and a console that waits three, longer as in the code (15 s, 20 s): an
  answer may be within half the leeway, within it, beyond it or given up on. One missed
  cookie at a time (`OneMissed`, a CONSTRAINT of the run) is what an accusation takes;
  the theorem has no such bound. The history of `Sessions`, which no part of the run
  reads, is left out of what tells states apart (`Seen`, its VIEW). With them the first
  claim that `MCBrowserSessions` refutes takes one lost answer.
* Limits (`MaxAttempts` 1 for 10, `MaxSends` 1 for 5, `Quota` 1, `Seats` 2,
  `Limit` 2, `Cap` 2, `ContractsMax` 1) are compared with counts; a race needs
  the count at the limit less one. The stretches are stated in terms of
  `Cardinality(Requests)`, and with two requests a stretch does occur (the limits
  themselves are refuted: section 6) and one beyond it could: there are three guesses,
  codes, files and contracts for a bound of two.
* `RequestMax` (membership) 5: the longest story found, an owner overwritten by
  an old invite, takes two invitations, two acceptances and a transfer.
  `CallMax` (accounts) 4: somebody registers another's address, the owner claims
  it, and one more flow of each.
* `DeliveryMax` 2 in `billing` is a delivery and one retry; `FaultMax` 1 because
  a fault ends a delivery.
* Catalogue and matching bound all moves together (`MoveMax` 3): an edit, what
  overtakes it, and what reads both. `SaveMax` 2 has a price entered and changed.
* Usage. `DayMax`, `CallMax`, `EditMax`: the part `usage` has calls and edits in
  one span of days that are not told apart, with a price that may be cached at
  every age; the part `pages` has three days and no edits, for a page that spans
  them.
* `TimeMax` 2 (configuration): the snapshot's life and the cache's are one tick
  each, so that a setting can be one of either old, or both.
* `ChangesMax` 3 (operators) are a grant of the privilege and two changes by
  overlapping requests, which is the least for entries in another order than the
  changes; `TokenLife` 2 has a token that outlives the revocation by a tick.
* Reading: texts of up to four
  sentences around a section of six characters with an overlap of two (the cases are
  a sentence that fits, one that exactly fits with another, one that must be cut hard
  within a word or before a blank, and an overlap that has room or not), in up to four
  sections, so that some are one too many; files of up to three pages over a page size of
  two; lists of drafts up to one more than is kept; answers of two obligations,
  bare, in prose, in a fence or in an object, stopped at every one of up to 26
  tokens.
* Feed: extracts of up to three records are the least in which a batch has a
  good record on both sides of a bad one, or one record twice across a boundary.
* Lists: three rows, one of which changes while two pages are read.
* Enrichment: three notices with a batch of two, so that one waits; one change by
  the feed and one death or lost lease, each of which sends notices round again.

## 4. Fairness

Two runs are fair.

* `JobSystem!FairSpec` (`job_liveness`): workers are started (a process manager
  restarts them), loops go on, **handlers end**, calls return or raise, time
  passes. Nothing is assumed of producers, operators, signals, crashes or the
  doorbell. Handlers ending is an assumption: the code has no bound on a handler.
  One poller is neither killed nor stalled; a deployment that has none relies on
  the doorbell or on an external scheduler, of which the repository has none:
  `job_liveness` with `Pollers = {}` and `BellMax = 1` violates `EveryJobSettles`
  when the one message is lost.
* `MCServices!ServicesFairness` (`services`) is the fairness of three models, each
  of the part that moves. `LlmBreaker!Fairness`: time passes, attempts end, and a
  caller that may call at all times calls; `ClosesAgain` is about a provider that
  is up from some time on. `EntitlementCache!CacheFairness`: time passes (the TTL)
  and begun calls end or raise; changes are bounded by `ChangeMax`, so they cease.
  `Enrichment!EnrichFairness`: batch jobs that were begun go on (their ledger
  retries them: `job_liveness`), and the schedule runs again and again. The last
  is an assumption about the deployment: `enrichment.schedule` and
  `grants_gov.daily` have handlers, and nothing in the repository enqueues them.

Everything else is safety, and holds without fairness.

## 5. Theorems

All are for arbitrary jobs, workers, keys, requests, notices, rows and limits, under
the named ASSUMEs of the modules, which TLC evaluates in every run of the module:
types of the constants, positive limits, times that are not negative, finite sets
where a theorem counts (analyses, requests, scans, editors, notices, meters), and
that values of different kinds differ (`FilingAssumption`, `CatalogueAssumption`,
`PricingAssumption`, `ListingAssumption`). `TextAssumption` says what `strip` and
`normalize_text` leave of a text: no white space at its ends, runs of one kind each,
and no run as long as a section. Two theorems have a hypothesis of their own, which
the code or its settings decide and which is named where it is used: `CadenceFits` (the lease outlasts the heartbeats that may be missed and one
more; the code's 300 s, 90 s, two) and `FounderSeated` (a workspace has a seat for
its founder). The header of each proof module says on which
argument it rests; in short:

* **JobSystemProofs.** Of the open ledger, `LedgerInv` is inductive: types, lease
  and holder exactly while running, one live row per key, attempts within the
  limit and, what the last needs, an attempt left in every queued row. One lemma per
  kind of step (`SweepKeepsInv`, `TakeKeepsInv`). From it `LeasesAreExact`,
  `KeysAreUnique`, `BudgetIsKept`, `LeaseIsRespected`, `FinishedStaysFinished`, and
  the refinement `LedgerImplementsContract`, for which each row's step is shown to
  be a step of its life cycle (`StepLives`). Then `SystemUsesLedger`: every step of
  the programs is a call of a ledger function or leaves the ledger alone, so all
  that holds of the system (`SystemKeepsLedger`). Of the programs themselves:
  `HoldersAreCurrent` and `SuccessIsEarned` (who may write a result),
  `RunningRowsAreLeased` (`SystemInv`), and `CadenceProtects`
  (`HealthyWorkerKeepsLease`), whose invariant bounds, for a worker whose loop
  runs, what is left of the lease by the heartbeats that it still owes.
* **SessionsProofs.** `RotationIsBounded` (one deadline per family, no exchange of a
  used token beyond the leeway) and `SignOutsLast`. `BrowserUsesSessions` makes
  them theorems about the console's requests; `HonestBrowserIsSafe` follows every
  token through its life: known to one request, in the jar, or in cookies of requests
  that were sent before it was replaced -- unless it was missed. Of leeway and timeout
  nothing is assumed: that an answer is out for no longer than half the leeway is an
  excuse in the property and not a hypothesis.
* **BillingProofs.** *Webhooks*: the invariant follows an event from its claim; one
  handler has it until it is marked, writes it once or never, and then the row is
  as new as it, or it is still to be written, or that failed. `AppliedAtMostOnce`,
  `NothingElseIsLost`, `RowMovesForward`. *Catalogue* (`CatalogueHolds`): what a
  request has read is what there is unless something overtook it; of several
  replacements of the same limits one at most can insert the last. *Usage*
  (`UsageHolds`): how old the price is that an entry shows and a request holds; and
  sums over the ledger are sizes of disjoint sets, so the rollups add up.
* **ConsoleProofs.** *Membership* (`WorkspaceIsSound`) part by part: invites, owners,
  cache, seats. *Operators* (`TrailTells`): a change has one entry or a request that
  is about to write it or died. *Lists* (`PagesExplained`): how many rows that were
  shown stand behind the pages read, and how many that were not stand before; a
  row that moves pushes at most one other over the edge.
* **AccountsProofs.** *Codes* (`GuessesAreBounded`): a request between its check and
  its count is counted already. *Accounts* (`OwnerPrevails`): whoever is not the
  owner and gets past a proof of the address has a sign-up under way since before, or a
  reset that has yet to replace the password or to revoke.
  *Configuration and prompts* (`EditsPrevail`): a value is as old as the cell, the
  refresh or the snapshot that holds it allows, and behind an edit that was handled
  no refresh restores what was before.
* **AnalysisProofs.** `OvershootIsBounded` (the counter plus `MaxTokens` for each run
  that may still record) and `AnalysesUseTheAllowance`, which makes it a bound on
  analyses. The invariant of the obligations is in parts: how far a run has come by
  its stage (`RunShape`), that it has written nothing before its insertions and
  everything after them (`Stored`), who may have removed what it wrote (`Missing`);
  from it `AnalyzedRunsAreStored`, `EarlierOutputIsGone`, `EffortIsKept`,
  `ChargedRunsAreStored`. *Filing* (`TrailExplains`) and *documents*
  (`RowsAndBytesAgree`): what a request relies on, by its step, of the keys that it
  alone handles, and that a step of one request keeps it for the others. *Reading*
  (`ReadingIsWhole`): every block, and every section with it, is a slice of the text
  up to white space or is joined from such (`Covers`, `Good`), the next one begins
  where it ends or within it (`Chained`), and every sentence that fits is in one of
  those that are done or ahead (`Has`, `Packed`); what was merged is exact for the
  items that were seen so far (`Exact`). Where a text is in the blocks needs induction
  over it, which is the least place at which it were not.
* **ServicesProofs.** *Breaker* (`OpeningIsEarned`, `OutagesFailFast`): the count is
  the streak of given-up calls cut off below the threshold; cooldown left and time
  since the trip make up the recovery time. *Entitlements* (`PublishedChangesShow`):
  no reading that will be cached is older than what was published of its part.
  *Enrichment* (`ReadingsArePaidOnce`): a paid answer is stored, lost or about to be
  stored, and each batch that has seen no stored answer may pay once more.
* **GrantsProofs.** *Scans* (`StretchIsBounded`): a request that has counted and not
  yet enqueued is as good as a scan. *Matching* (`MatchesAreExplained`): a step that
  makes a rescore owed leaves one coming; one that ends it pays or says why not.
  *Feed* (`LoadsAreSequential`): what the records gone through have made of the
  table, at every step of a first load and of a repetition.

What is computed by recursion over data (a sum over the ledger's rows, the records of
an extract) is proved about by a least counterexample: a smallest set or prefix for
which it were otherwise (`LeastNumber`, `LeastOf`). What cannot be done here is to
cite the library's own induction theorems, which take an operator.

Proving has changed the models where they were too small or could not be reasoned
about. One edit of a setting at a time had hidden that a row written by hand while an
edit is under way takes the edit's known reason away: `accounts` has two now
(`WriteMax` 2), and `EditsTakeEffect` names that race. One family of tokens in
`session_browser` had hidden the crossing of two sessions in one browser (section 6):
it has two now, with sign-ins. In a repeated load the table is not, midway, what the
records gone through would have made of it one by one; `FeedIndInv` says what it is.
The cutting of texts was one recursive function at first, and the merge of an answer
one step: both go through their loops by steps now, which is what the code does.

Model-checked only: `AnswersAreRecovered` and what holds under fairness
(`EveryJobSettles`, `StoppedWorkerLeaves`, `ClosesAgain`, `EventuallyCurrent`,
`EveryNoticeIsRead`), as liveness and ENABLED are beyond the prover. `AnswersAreRecovered` is about the
parser's five candidates, of which each is read by a fold over its tokens; it would
take an invariant of the reader's stack for every prefix of every answer, cut and
repaired, and the answers themselves are put together by folds (`Written`). In a
model that parses by steps it would be in reach, as the cutting of texts was.

## 6. Where the code and its comments part

Two runs expect a violation, as the code does what its documentation denies:

* `provisioning` (`ProvisioningKeepsTheUser`): `POST /tenancy/provision` is
  "Idempotent on the user record" (`tenancy_service.py:108`). The tokens that
  `supabase_auth.py:41-51` issues carry no address, so the router passes an empty
  one (`routers/tenancy.py:123`), which `upsert_user` writes over the user's
  (`tenants.py:34-35`): the account is no longer found by its address, and the
  next user's call violates the column's uniqueness.
* `repriced` (`CancellationBites`): a new price id "only affects future checkouts"
  (`admin_catalog.py:24-26`). Events are mapped to a plan by the price id it has
  now (`billing_service.py:221`), so every later event of the subscriptions
  already created is dropped for good, their cancellation too, and the access
  stays.

Each formula below states what a comment, a docstring or a document says. It is
defined in the module named, and TLC refutes it when it is added to the run's
configuration (with the change in brackets). The properties of section 3 are
what does hold instead.

| formula (run) | the claim | what the code does |
|---|---|---|
| `MCJobSystem!LostLeaseStopsHandler` (`job_system`) | `worker.py:12`: a lost lease stops the handler | a rejected heartbeat ends the heartbeat task only (`worker.py:309`); the handler runs on, and only its report is refused |
| `InterruptedIsNotFailed` (`job_system`) | `worker.py:266`: left to expire "rather than marked failed" | on the last attempt the sweep fails it (`0018_job_operations.sql:58`) |
| `SucceededHasNoError` (`job_system`) | `grant_service.py:244`: an error means that the scan failed | `finish_job` keeps `last_error` of an earlier attempt (`0018:317`), 0012 cleared it |
| `EnqueueReturnsAJob` (`job_system`) | `jobs.py:128`: returns the live job | the lookup after the conflict may find none, and raises (`jobs.py:180`); the comment at 178 speaks of a retry that does not exist |
| `RetryNeverCollides` (`job_system`) | `0018:207`: a collision is reported | the check does not lock the key, so the UPDATE may violate the index (`0018:251`); the index still keeps keys unique |
| `StopEndsTheLoop` (`job_system`, [`Onces = {w2}`, no symmetry]) | `worker_main.py:10`: a signal stops after the current job | `drain` does not look at the flag (`worker.py:213`) |
| `UnknownKindNotRetried` (`job_liveness`) | `worker.py:234`: failed without retrying | `finish_job` requeues any failure while attempts remain |
| `EveryJobSettles` (`job_liveness`, [`Pollers = {}`, `BellMax = 1`]) | `dispatch.py:20`: a lost message is picked up by a scheduled drain | no schedule is in the repository |
| `MCSessions!OneExchangePerToken` (`sessions`) | `repositories/sessions.py:59`: the loser of a race is treated as reuse | both are issued a token (`session_service.py:171`); the leeway needs it |
| `RevokedFamilyHasNoLiveRow` (`sessions`) | `session_service.py:188`: logout takes sibling tabs along | a rotation between its read and its INSERT leaves a live row behind |
| `ResetLocksOut` (`sessions`, [`Failing = FALSE`]) | `routers/auth.py:267`: no session survives a reset | one whose rotation or login was in flight does |
| `MCBrowserSessions!HonestBrowserNotAccused` (`session_browser`) | `session_service.py:19-24`: reuse well after the rotation is theft | the answer of the refresh that spent the cookie was lost, an error (`routers/auth.py:333`) or given up on after 20 s (`api.ts:236`); the browser still holds the cookie and presents it |
| `MCBrowserSessions!SignedInStaysIn` (`session_browser`) | `auth.tsx:118`: no silent logout mid-session | a late answer to a request of the session before replaces or clears the cookie of the one signed in to since |
| `MCServices!SuspensionBites` (`services`) | `entitlements_service.py:98`: bites immediately | a refresh that read the old status writes it back after the invalidation, until the TTL |
| `SuspensionHoldsEverywhere` (`services`) | `domain/entitlements.py:77` | the saved rows of a suspended tenant remain and the module services fall back to them (`security.py:75`) |
| `MCBilling!RetryAppliesTheChange` (`billing`, [`FaultMax = 0`]) | `routers/billing.py:119`: 500, because a retry is wanted | the retry finds the event claimed and is answered 200 (`billing_service.py:182`): an event whose price was not yet mapped is lost |
| `LatestEventWins` (`billing`, [`FaultMax = 0`]) | `0004_billing_hardening.sql:8`: stale events are dropped | of one second's events the one delivered last wins |
| `TyposAreToldOf` (`billing`) | `admin_catalog.py:471`: a typo in a price is impossible to miss | a patch that names the cents alone is not compared with Stripe's price |
| `EditsShowAtOnce` (`billing`) | `metering.py:142`: every instance sees a new price at once | a call that read the old price caches it after the edit deleted the key (`metering.py:188`) |
| `AuditSaysWhatChanged` (`billing`) | `plans.py:343` | the row is read before the upsert, and another edit may come between |
| `MCConsole!ExactlyOneOwner` (`console`, [`Failing = FALSE`]) | `tenancy_service.py:10`, `tenants.py:661`: one transaction | three statements without a transaction (`tenants.py:664`); and the next row |
| `OwnershipMovesByTransfer` (`console`, [`Failing = FALSE`, no symmetry]) | `tenancy_service.py:12` | accepting an old invite overwrites any role (`tenants.py:312`), the owner's too |
| `SeatsAreNotOversold` (same) | `tenancy_service.py:14` | seats are counted before the insert |
| `RemovedIsNotAdmitted` (same) | `tenancy_service.py:18`, `security.py:96` | a lookup that read before the removal caches after the eviction |
| `TotalIsReal` (`console`) | `admin_jobs.py:79`: the total is a real count | it is a second statement, of a later moment than the page |
| `DashboardAgrees` (`console`) | `jobs_admin.py:240`: dashboard and rows cannot disagree | the list has failed jobs of any age, the dashboard those of a day |
| `TotalIsOfTheList` (`console`) | `grant_service.py:157`: "showing 25 of 312" | the total of matches ignores the filters of the list |
| `NewestEntryIsCurrent` (`console`) | `0016_platform_admin.sql:34`: a log of what happened | of two overlapping changes the first may be recorded last |
| `NoGapAtTheBeginning` (`console`) | `grant_platform_admin.py:20`: every grant is recorded | the script dies, or the account acts, before its entry |
| `NoMintAfterRevocation` (`console`) | `auth_service.py:278`: effective at the next refresh | a refresh that read the row before issues its token after |
| `MCAccounts!AttemptLimit`, `SendLimit`, `OneLiveCode` (`accounts`) | `email_verification_service.py:29`, `:31`, `tenants.py:187` | read, then act: stretched by the concurrent requests less one |
| `ImpostorLockedOut` (`accounts`) | `auth_service.py:206` | a sign-up's password may land after the takeover; and a reset verifies the address before it replaces the password (`routers/auth.py:262`, `:266`): until then, or for good if it dies, the password of whoever signed up first opens a proved account |
| `OneActivePrompt` (`accounts`) | `config_registry.py:96` | deactivate and activate are two statements: two owners activate one each |
| `NoPromptIsHardcoded` (`accounts`) | `extraction.py:5`: fetched live | without an active version the built-in prompt is sent |
| `MCContracts!RowsHaveObjects`, `NoOrphans`, `IntakeWithinQuota` (`contracts`, [`Failing = FALSE`]) | `ingestion.py:7-10`, `:145` | two uploads of one file: the loser's compensation removes the winner's object; a deletion and a new upload likewise; limits are counted first; and with failures, the bytes of a row go whose INSERT was committed and its answer lost (`ingestion.py:226-232`) |
| `OneRunsOutput`, `OnlyUntouchedReplaced`, `OvershootIsOneAnalysis` (`contracts`) | `job_handlers.py:18`, `analysis.py:57`, `routers.py:130` | inline runs are not deduplicated; rows edited but still open are deleted; the allowance is checked once, before the run |
| `BothSidesAreRecorded` (`contracts`) | `routers.py:554` | the status that is left is read before the UPDATE (`routers.py:543-557`) |
| `OnlyReadPagesAreBilled` (`contracts`) | `documents.py:242-244` | the text is cut off after its pages were counted |
| `NothingIsDropped` (`contracts`) | `chunking.py:5-6` | what is beyond the last section allowed is dropped (`chunking.py:63`, `:76`) |
| `NothingIsSevered` (`contracts`) | `chunking.py:14-17`: overlap keeps what spans two sections whole | when the next sentence leaves no room for it, the overlap is given up |
| `NothingIsOverlooked` (`contracts`) | `json_parsing.py:7-8` | a bare list around one whole object, in prose or cut off, is read as that object: no obligations, and no error |
| `MCGrants!WithinLimit`, `DoubleClickTakesOne` (`grants`) | `grant_service.py:3`, `:210` | count, then enqueue; the key splits at the minute and is free once the first job ended |

Met while modelling, and part of the models' behaviour or next to it; no formula
of its own:

* LLM. `resilient.py:15` and `:70` promise a *single* trial call after the
  cooldown, but the first `before_call` closes the circuit with the count one
  below the threshold, so every concurrent caller is let in
  (`LlmBreaker!HalfOpen`). The `MalformedModelOutputError` handler of
  `extraction.py:191` is not reached through the resilient wrapper, which turns
  it into its own error after the retries.
* Grants. A profile field sent as null is to be cleared (`routers/grants.py:157`),
  and COALESCE keeps it (`opportunities.py:266-281`). `grant_jobs.py:170`: "gives
  the ingest room", but `run_after` is now. An edit whose rescore is deduplicated
  onto one that has read the old profile is swallowed; of two rescores the slower
  one's scores stay; a crash between the profile's write and the enqueue leaves
  the matches stale. Two enrichment batches at once pay for a notice twice, and
  notices that cannot be read keep their place at the head of every batch.
* Configuration. A refresh in flight during an edit makes the edit invisible for
  60 s on the instance that made it (`container.py:274-279`). `reset_provider`
  acts on its own instance only: the others keep the old Stripe client for good,
  against `admin.py:81-83`. A client cached as a property (`container.py:438`)
  never sees an edit. `PUT /config` accepts any value and the bootstrap keys, and
  drops no cache.
* Accounts. The password of a sign-up may land after Google's claim cleared it
  (`auth_service.py:132` and `207`); the OAuth state is read and deleted in two
  steps (`google_oauth.py:108-112`); two calls of `ensure_tenant` make two
  workspaces, and slugs are checked before they are inserted
  (`tenancy_service.py:96-103`).
* Catalogue. `set_limits` deletes and inserts without a transaction
  (`plans.py:230-240`): a crash leaves a plan without limits, two replacements mix
  or one fails; what is read between is cached. Tenants of the plan are
  invalidated, not recomputed. The value before an exception is read apart from
  its upsert (`tenants.py:495-529`), which `tenants.py:424-426` says would make
  the audit trail a lie. Checkout does not look at `is_active`.
* Usage. `_period(days)` spans one day more than it says (`routers/usage.py:97`);
  a page's totals and its seats are separate reads.
* Contracts. An audit entry is lost with a request that dies after its change
  (`routers.py:180`). Monthly limits are counted from rows that a deletion
  removes. An answer that stops inside a field's name, a literal or an escape loses
  its whole items as well; the quote that is added to close the string is escaped
  (`json_parsing.py:123`). The trail does not say the status an obligation is created
  with (`routers.py:508-516`), which need not be open (`domain.py:111`).
* Sessions. A refused refresh clears the cookies of a response that is then replaced
  by that of an exception (`routers/auth.py:321-331`).
* Lists and operators. Cancelling a job that is cancelled answers 200 and is
  audited again (`admin_jobs.py:134-138`).

## 7. Not modelled, and why

* What happens inside a SQL statement or function: each is atomic. Row locks only
  order them; a deadlock that the database resolves by an error, and anomalies of
  isolation inside a statement, are not modelled.
* Worker ids are distinct (16 random bits beside host and pid).
* Sessions: `delete_expired` is called by nobody. Absolute times beyond `Horizon`.
* Entitlements: `tenant_ids_on_plan`'s read before an invalidation of all tenants
  of a plan. Exceptions hold for every module alike, and one module is modelled.
* Billing: two Stripe subscriptions for one module (they share a row); the portal,
  which is a call of Stripe; dunning mails.
* Tenancy: an administrator's or another member's cache entry (the model has the
  member's own).
* Accounts: rate limits, signatures and hashes; whoever knows a secret presents it.
* Documents: the parsers of PDF and DOCX are what they report.
* Reading: a line break within a paragraph is a blank like any other, where `_tail`
  looks for a space only; a text that was pasted may have more kinds of white space
  in one run than the model has.
* Analysis: the text of an obligation; which of the obligations a model finds.
* Grants: how an offer scores, which text becomes which field, the download.
* Operators: the entries of the routers other than those of `OperatorTrail`,
  `UsageLedger` and `PlanCatalogue` follow their changes in the same way.
* Not modelled at all, see `PROJECT.json`: thin adapters of storage, cache, queue
  and e-mail; the console other than its session handling; the gateway; the MCP
  server (read-only); probes and one-off scripts.

## 8. Plan

Order of work: what every other part relies on first.

1. *Done: the core.* Ledger, contract, system; proofs of them. Sessions and
   browser. Entitlements, billing, membership, e-mail codes, documents. Analysis
   over allowance and breaker; scan quota. Proofs of billing, the analysis, both
   its parts, and the scan quota.
2. *Done: the rest of the system.* Catalogue and pricing, usage, accounts,
   configuration and prompts, feed, enrichment, matching, filing, reading and
   parsing, lists, operators; liveness of enrichment; the two violations.
3. *Done: proofs.* The ledger and what uses it, then every other safety property of
   section 3 but those that section 5 names as model-checked only.
4. Left: liveness by machine-checked proof, for which the prover would have to know
   fairness and ENABLED; and the parser by steps (section 5).
