--------------------------- MODULE MCBilling ---------------------------
(***************************************************************************)
(* An instance for TLC of what the platform owner charges and is charged:  *)
(* Stripe's webhook, the price that an operator gives a plan, the plan     *)
(* that a price is mapped to, and the ledger of model calls.  They share   *)
(* no state: one of them, chosen at the start, moves, so that the states   *)
(* are those of each by itself.  Below are claims of the code's comments   *)
(* that the instance refutes (README.md tells how).                        *)
(***************************************************************************)
EXTENDS BillingWebhook, PlanCatalogue, UsageLedger, TLC

CONSTANTS e1, e2, e3, e4, low, high, p1, p2, Nobody

\* e2, e3 and e4 are created in the same second.
Seconds == [e \in Events |-> CASE e = e1 -> 1 [] e = e2 -> 2 [] OTHER -> 2]
SameSecond == [e \in Events |-> 1]

\* A member asks for the first call, a job makes the others.
Askers == [n \in 1 .. CallMax |-> IF n = 1 THEN e1 ELSE Nobody]

\* A monthly price and an annual one; there is a third id that Stripe does not know.
StripesPrices == (p1 :> [amount |-> 1, monthly |-> TRUE]) @@ (p2 :> [amount |-> 2, monthly |-> FALSE])

\* A body that names every limit, and one that drops a limit and changes the other.
SomeBodies == {[k \in Keys |-> low], [k \in {1} |-> high]}

\* Handlers, operators and meters have the same names.
Symmetry == Permutations(Handlers)

\* Prices are edited in the part "usage", within a day, and pages of the ledger
\* read in the part "pages", with one more call and over the days: they have
\* only the calls in common.
VARIABLE part

BillingInit ==
  /\ part \in {"webhook", "plan", "pricing", "usage", "pages"}
  /\ part \notin {"usage", "pages"} => rate = NoRate
  /\ part # "pricing" => offer = NoRow
  /\ Init /\ PricingInit /\ CatalogueInit /\ UsageInit

BillingNext ==
  /\ UNCHANGED part
  /\ \/ part = "webhook" /\ Next /\ UNCHANGED <<pricingVars, catalogueVars, usageVars>>
     \/ part = "plan" /\ CatalogueNext /\ UNCHANGED <<vars, pricingVars, usageVars>>
     \/ part = "pricing" /\ PricingNext /\ UNCHANGED <<vars, catalogueVars, usageVars>>
     \/ part = "usage" /\ UsageNext /\ page' = NoPage /\ day' = 1 /\ called' < CallMax
        /\ UNCHANGED <<vars, pricingVars, catalogueVars>>
     \/ part = "pages" /\ UsageNext /\ priced' = 0
        /\ UNCHANGED <<vars, pricingVars, catalogueVars>>

BillingSpec ==
  BillingInit /\ [][BillingNext]_<<part, vars, pricingVars, catalogueVars, usageVars>>

Quiet == \A h \in Handlers : step[h] = "idle"

\* routers/billing.py:119: a change that could not be applied is answered 500,
\* because a retry is wanted.  (The retry finds the event claimed, and is
\* answered 200 as a duplicate.)
RetryAppliesTheChange ==
  Quiet => \A e \in acked \cap Relevant : row # None /\ At[row] >= At[e]

\* 0004_billing_hardening.sql:8: last_event_at lets stale events be dropped.
\* (Of e2 and e3, created in this order in one second, the one delivered last wins.)
LatestEventWins ==
  Quiet /\ Events \subseteq acked /\ failed = {} => row = e3

\* admin_catalog.py:24: changing a plan's Stripe price id only affects future
\* checkouts.  (No event of the subscriptions already created can be mapped to
\* a plan any more, their cancellation neither.)
CancellationBites ==
  Idle /\ ~pending /\ stripe # NoRow /\ ~stripe.live => subscription # TRUE

\* admin_catalog.py:471: a typo is impossible to miss.  (A patch that names the
\* cents alone is not compared with the price that the plan has.)
TyposAreToldOf ==
  offer # NoRow /\ excuse \subseteq {"cents only"} =>
    Faults(offer.price, offer.cents) \subseteq told \/ "unverified" \in told

\* metering.py:142: an edit deletes one key and every instance sees the new
\* price at once.
EditsShowAtOnce ==
  (entry # NoEntry /\ \A m \in Meters : Steps(m, "home")) => entry.price = rate

\* plans.py:343: the audit record can state what changed.
AuditSaysWhatChanged == ~misled
=============================================================================
