----------------------------- MODULE UsageLedger -----------------------------
(***************************************************************************)
(* What model calls cost: the price of one model that the platform owner   *)
(* edits, its entry in the shared cache, the recording of a call, and the  *)
(* ledger with its monthly counter, the rollups and a page read from it.   *)
(* Recording a call awaits the cache, the table, the cache and the ledger  *)
(* in turn, and swallows every failure; an edit awaits the old price, the  *)
(* table, the cache and the audit trail.                                   *)
(*                                                                         *)
(* The clock is relative: how old the entry is, how long a request has     *)
(* been going on, how long ago a price was last in effect.                 *)
(***************************************************************************)
EXTENDS FiniteSetsExt, Integers

CONSTANTS
  Meters,    \* concurrent requests, which record a call or edit the price
  Rates,     \* what the model may cost a call, in money
  NoRate,    \* no row of model_pricing; in the ledger, NULL
  NoEntry,
  Spenders,  \* tenants
  Asker,     \* Asker[n]: whom the n-th call is for: a member, or NULL if a job made it
  Platform,  \* tenant_id NULL
  PriceTtl,  \* PRICE_CACHE_TTL_SECONDS
  Longest,   \* bound on the time a request takes
  NoPage,
  Days,      \* what the pages' days may be
  DayMax, CallMax, EditMax \* bounds

ASSUME UsageAssumption ==
  /\ Rates \subseteq Nat /\ NoRate \notin Nat /\ Platform \notin Spenders
  /\ IsFiniteSet(Meters) /\ DOMAIN Asker = 1 .. CallMax /\ Days \subseteq Nat \ {0}
  /\ PriceTtl \in Nat \ {0} /\ Longest \in Nat
  /\ DayMax \in Nat \ {0} /\ CallMax \in Nat /\ EditMax \in Nat

VARIABLES
  rate,    \* the row of model_pricing
  entry,   \* modelprice:<model> in the cache: a price and its age
  errand,  \* a request: its step, the price it holds and the one it is to
           \* set, how long it has been going on
  usage,   \* the rows of ai_usage
  counter, \* the rows of ai_usage_monthly: calls and cost
  day,     \* today
  page,    \* a workspace's page whose totals have been read
  priced,  \* how many edits there have been
  \* history variables
  called,  \* how many calls of the model there have been
  gone,    \* a price: how long ago it was last in effect
  slipped, \* a price was cached after its edit, or a drop of it was lost
  met,     \* two edits have been under way at once
  misled   \* an edit is to be recorded with what was not so before it

usageVars == <<rate, entry, errand, usage, counter, day, page, priced,
               called, gone, slipped, met, misled>>
book == <<usage, counter, day, page, called>>
audit == <<priced, met, misled>>

Priced == Rates \cup {NoRate}
Months == 1 .. 2
MonthOf(d) == IF d = 1 THEN 1 ELSE 2
Payers == Spenders \cup {Platform}
AtHome == [step |-> "home", holds |-> NoRate, to |-> NoRate, time |-> 0]
Metering == {"read", "cache", "write"}
Editing == {"upsert", "drop", "audit"}

\* Longer than this is as good as ever.
Stale == PriceTtl + 2 * Longest + 1

UsageTypeOK ==
  /\ rate \in Priced
  /\ entry = NoEntry \/ entry \in [price : Priced, age : 0 .. PriceTtl]
  /\ errand \in [Meters -> [step : {"home"} \cup Metering \cup Editing,
                            holds : Priced, to : Priced, time : 0 .. Longest]]
  /\ \A r \in usage : r.id \in 1 .. CallMax /\ r.payer \in Payers
                       /\ r.seat = Asker[r.id] /\ r.cost \in Priced /\ r.day \in 1 .. DayMax
  /\ counter \in [Spenders \X Months -> [calls : Nat, cost : Nat]]
  /\ day \in 1 .. DayMax /\ priced \in 0 .. EditMax /\ called \in 0 .. CallMax
  /\ gone \in [Priced -> 0 .. Stale]
  /\ {slipped, met, misled} \subseteq BOOLEAN

UsageInit ==
  /\ rate \in Priced /\ entry = NoEntry
  /\ errand = [m \in Meters |-> AtHome]
  /\ usage = {} /\ counter = [k \in Spenders \X Months |-> [calls |-> 0, cost |-> 0]]
  /\ day = 1 /\ page = NoPage /\ priced = 0 /\ called = 0
  /\ gone = [p \in Priced |-> IF p = rate THEN 0 ELSE Stale]
  /\ slipped = FALSE /\ met = FALSE /\ misled = FALSE

-----------------------------------------------------------------------------
Steps(m, s) == errand[m].step = s
GoesHome(m) == errand' = [errand EXCEPT ![m] = AtHome]
Turns(m, s, p) == errand' = [errand EXCEPT ![m].step = s, ![m].holds = p]

\* A call of the model is over.  price_for: the cache, a cached absence of a
\* price included, then the table.
BeginCall(m) ==
  /\ Steps(m, "home") /\ called < CallMax
  /\ called' = called + 1
  /\ IF entry = NoEntry THEN Turns(m, "read", NoRate) ELSE Turns(m, "write", entry.price)
  /\ UNCHANGED <<rate, entry, usage, counter, day, page, gone, slipped, audit>>

ReadPrice(m) ==
  /\ Steps(m, "read")
  /\ Turns(m, "cache", rate)
  /\ UNCHANGED <<rate, entry, book, gone, slipped, audit>>

CachePrice(m) ==
  /\ Steps(m, "cache")
  /\ entry' = [price |-> errand[m].holds, age |-> 0]
  /\ slipped' = (slipped \/ errand[m].holds # rate)
  /\ Turns(m, "write", errand[m].holds)
  /\ UNCHANGED <<rate, book, gone, audit>>

CountFirst(r) == \* mutant: ON CONFLICT DO NOTHING
  counter' = IF r.payer = Platform THEN counter
             ELSE [counter EXCEPT ![<<r.payer, MonthOf(r.day)>>] =
                     IF @.calls = 0
                     THEN [calls |-> 1, cost |-> IF r.cost = NoRate THEN 0 ELSE r.cost]
                     ELSE @]

\* The trigger bump_ai_usage_monthly.
Bump(r) ==
  counter' = IF r.payer = Platform THEN counter
             ELSE [counter EXCEPT ![<<r.payer, MonthOf(r.day)>>] =
                     [calls |-> @.calls + 1,
                      cost |-> @.cost + IF r.cost = NoRate THEN 0 ELSE r.cost]]

\* compute_cost, and the INSERT with its trigger.  A call that failed, or whose
\* usage the provider did not report, has no cost.
WriteUsage(m) ==
  /\ Steps(m, "write")
  /\ \E w \in Payers, c \in {errand[m].holds, NoRate} :
       LET line == [id |-> Cardinality(usage) + 1, payer |-> w, seat |-> Asker[Cardinality(usage) + 1], cost |-> c,
                   day |-> day, lag |-> gone[errand[m].holds], sure |-> ~slipped]
       IN usage' = usage \cup {line} /\ Bump(line)
  /\ GoesHome(m)
  /\ UNCHANGED <<rate, entry, day, page, called, gone, slipped, audit>>

-----------------------------------------------------------------------------
\* PUT and DELETE /admin/models/{model}: upsert reads what it replaces in a
\* statement before, a DELETE returns it.
Edits(m) ==
  /\ Steps(m, "home") /\ priced < EditMax
  /\ priced' = priced + 1
  /\ met' = (met \/ \E o \in Meters : errand[o].step \in Editing)

BeginSet(m, p) ==
  /\ Edits(m)
  /\ errand' = [errand EXCEPT ![m] = [AtHome EXCEPT !.step = "upsert", !.holds = rate, !.to = p]]
  /\ UNCHANGED <<rate, entry, book, gone, slipped, misled>>

PriceIs(p) == rate' = p /\ gone' = [gone EXCEPT ![rate] = 0, ![p] = 0]

SetPrice(m) ==
  /\ Steps(m, "upsert")
  /\ PriceIs(errand[m].to)
  /\ Turns(m, "drop", errand[m].holds)
  /\ misled' = (misled \/ errand[m].holds # rate)
  /\ UNCHANGED <<entry, book, slipped, priced, met>>

DeletePrice(m) ==
  /\ Edits(m) /\ rate # NoRate
  /\ PriceIs(NoRate)
  /\ Turns(m, "drop", rate)
  /\ UNCHANGED <<entry, book, slipped, misled>>

\* Once the last of the edits has dropped it, an entry is right unless a
\* recording that has read the table before still holds what it read.
DropPrice(m) ==
  /\ Steps(m, "drop")
  /\ entry' = NoEntry
  /\ Turns(m, "audit", errand[m].holds)
  /\ UNCHANGED <<rate, book, gone, slipped, audit>>

TellEdit(m) ==
  /\ Steps(m, "audit")
  /\ GoesHome(m)
  /\ UNCHANGED <<rate, entry, book, gone, slipped, audit>>

-----------------------------------------------------------------------------
\* A statement fails, or the request dies.
ErrandFails(m) ==
  /\ ~Steps(m, "home")
  /\ slipped' = (slipped \/ Steps(m, "drop"))
  /\ GoesHome(m)
  /\ UNCHANGED <<rate, entry, book, gone, audit>>

OlderBy(p) == IF p = rate THEN 0 ELSE IF gone[p] < Stale THEN gone[p] + 1 ELSE Stale

\* The entry a moment later.
Aged == IF entry = NoEntry \/ entry.age = PriceTtl THEN NoEntry
        ELSE [entry EXCEPT !.age = @ + 1]

TimePasses ==
  /\ \A m \in Meters : ~Steps(m, "home") => errand[m].time < Longest
  /\ errand' = [m \in Meters |-> IF Steps(m, "home") THEN AtHome
                                 ELSE [errand[m] EXCEPT !.time = @ + 1]]
  /\ entry' = Aged
  /\ gone' = [p \in Priced |-> OlderBy(p)]
  /\ UNCHANGED <<rate, book, slipped, audit>>

Midnight ==
  /\ day < DayMax
  /\ day' = day + 1
  /\ UNCHANGED <<rate, entry, errand, usage, counter, page, called, gone, slipped, audit>>

-----------------------------------------------------------------------------
\* The rollups.  sum() of no priced row is NULL, and a period is half-open.
Cost(rows) == IF \A r \in rows : r.cost = NoRate THEN NoRate
              ELSE MapThenSumSet(LAMBDA r : r.cost, {r \in rows : r.cost # NoRate})
Total(rows) == [calls |-> Cardinality(rows), cost |-> Cost(rows),
                unpriced |-> Cardinality({r \in rows : r.cost = NoRate})]
Period(since, until) == {r \in usage : since <= r.day /\ r.day < until}
OfPayer(w, since, until) == {r \in Period(since, until) : r.payer = w}
DailySeries(w, since, until) == [d \in since .. until - 1 |-> Total(OfPayer(w, d, d + 1))]

\* _period: a window of days + 1 days that ends tomorrow.
Since(days) == IF day < days THEN 1 ELSE day - days
Tomorrow == day + 1

\* by_actor keeps the calls that have no actor in a group of their own.
ByActor(w, since, until) ==
  LET rows == OfPayer(w, since, until)
  IN [a \in {r.seat : r \in rows} |-> Total({r \in rows : r.seat = a})]

PlatformTotals(since, until) ==
  [whole |-> Total(Period(since, until)), own |-> Total(OfPayer(Platform, since, until))]

\* top_tenants_by_cost, with fewer tenants than its limit.
TopTenants(since, until) ==
  [w \in {r.payer : r \in Period(since, until)} \ {Platform} |-> Total(OfPayer(w, since, until))]

UnpricedModels(since, until) == Cardinality({r \in Period(since, until) : r.cost = NoRate})

\* The usage page asks /usage/me for the totals and then /usage/by-seat for
\* the table under them, each for the days up to its own today.
AskTotals(w, n) ==
  /\ page = NoPage
  /\ page' = [of |-> w, days |-> n, on |-> day, totals |-> Total(OfPayer(w, Since(n), Tomorrow)),
              rows |-> Cardinality(usage)]
  /\ UNCHANGED <<rate, entry, errand, usage, counter, day, called, gone, slipped, audit>>

AskSeats ==
  /\ page # NoPage
  /\ page' = NoPage
  /\ UNCHANGED <<rate, entry, errand, usage, counter, day, called, gone, slipped, audit>>

UsageNext ==
  \/ TimePasses \/ Midnight \/ AskSeats
  \/ \E w \in Spenders, n \in Days : AskTotals(w, n)
  \/ \E m \in Meters :
       \/ BeginCall(m) \/ ReadPrice(m) \/ CachePrice(m) \/ WriteUsage(m)
       \/ \E p \in Rates : BeginSet(m, p)
       \/ SetPrice(m) \/ DeletePrice(m) \/ DropPrice(m) \/ TellEdit(m)
       \/ ErrandFails(m)

UsageSpec == UsageInit /\ [][UsageNext]_usageVars

-----------------------------------------------------------------------------
Money(c) == IF c = NoRate THEN 0 ELSE c
Summed(table, F(_)) == MapThenSumSet(LAMBDA x : F(table[x]), DOMAIN table)

-----------------------------------------------------------------------------
\* "The TTL only bounds how long a missed invalidation can be wrong"
\* (metering.py:53-56): no call is charged a price that went out of effect
\* longer ago than the cache's TTL and the time of two requests, the one that
\* cached it and the one that found it.  While no price was cached after its
\* edit and no drop was lost, the time of two requests is all: the edit's, from
\* the table to the cache, and the call's.
ChargesAreRecent ==
  \A r \in usage : r.lag < Stale /\ (r.sure => r.lag <= 2 * Longest)

\* "the audit record can state what changed" (plans.py:343): with edits one at
\* a time, every entry says what the price was before it.
TrailIsTrue == ~met => ~misled

\* The workspace's page, its chart, the monthly counter that the budget is
\* checked against, and the owner's total are of the same rows: nothing is
\* lost between them, counted twice at a boundary or charged to a tenant that
\* is the platform's, and what has no price is told apart (usage.py:7-25,
\* 0022_ai_usage_monthly.sql).
RollupsAgree ==
  /\ \A w \in Payers, s, u \in 1 .. DayMax + 1 :
       s < u =>
         LET whole == Total(OfPayer(w, s, u))
             first == DailySeries(w, s, u)[s]
             rest == Total(OfPayer(w, s + 1, u))
         IN /\ whole.calls = first.calls + rest.calls
            /\ whole.unpriced = first.unpriced + rest.unpriced
            /\ Money(whole.cost) = Money(first.cost) + Money(rest.cost)
            /\ whole.cost = NoRate <=> whole.unpriced = whole.calls
  /\ \A w \in Spenders, n \in Months :
       LET rows == {r \in usage : r.payer = w /\ MonthOf(r.day) = n}
       IN counter[<<w, n>>] = [calls |-> Cardinality(rows), cost |-> Money(Cost(rows))]
  /\ \A s, u \in 1 .. DayMax + 1 :
       s < u =>
         LET all == PlatformTotals(s, u)
         IN /\ Money(all.whole.cost) = Money(all.own.cost)
                                        + Summed(TopTenants(s, u), LAMBDA t : Money(t.cost))
            /\ all.whole.unpriced = UnpricedModels(s, u)

\* "dropping those rows would make the per-seat table disagree with the total
\* above it" (usage.py:91): on one page the seats add up to the total read
\* before them and the calls recorded in between, as long as both were asked
\* for on one day.
SeatsAddUp ==
  page # NoPage /\ page.on = day =>
    LET seats == ByActor(page.of, Since(page.days), Tomorrow)
        between == Total({r \in OfPayer(page.of, Since(page.days), Tomorrow) : r.id > page.rows})
    IN /\ Summed(seats, LAMBDA t : t.calls) = page.totals.calls + between.calls
       /\ Summed(seats, LAMBDA t : t.unpriced) = page.totals.unpriced + between.unpriced
       /\ Summed(seats, LAMBDA t : Money(t.cost)) = Money(page.totals.cost) + Money(between.cost)

UsageInv == UsageTypeOK /\ ChargesAreRecent /\ TrailIsTrue /\ RollupsAgree /\ SeatsAddUp
=============================================================================
