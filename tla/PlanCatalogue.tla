---------------------------- MODULE PlanCatalogue ----------------------------
(***************************************************************************)
(* The operators' side of billing: one plan of the catalogue with its      *)
(* Stripe price and its limits, one customer's subscription to it, the     *)
(* limits an operator has overridden for that customer, and the snapshot   *)
(* of ceilings all of this is resolved to and cached as.  Every statement  *)
(* runs in a transaction of its own, and the replacement of a plan's       *)
(* limits is a DELETE and an INSERT for each key, so that operators and    *)
(* those who recompute the snapshot may meet between any two of them.      *)
(*                                                                         *)
(* How an event of Stripe is claimed, retried and ordered is the matter of *)
(* BillingWebhook; here it is handled in one step.  A ceiling of NULL      *)
(* (unlimited) is a member of Ceilings like any other.  What an operator is *)
(* told of a price that does not fit is the matter of PlanPricing.         *)
(***************************************************************************)
EXTENDS PlanPricing, FiniteSetsExt

CONSTANTS
  Keys,      \* limit keys, in their order
  Ceilings,
  Bodies,    \* the limit sets that PUT /admin/plans/{id}/limits is sent
  Prices,    \* Stripe price ids
  MoveMax    \* bound on the requests of operators and of the customer

VARIABLES
  plan,      \* the row of platform.plans
  limits,    \* the plan's rows of platform.plan_limits
  override,  \* the customer's rows of platform.tenant_limit_overrides
  stripe,    \* the customer's subscription at Stripe
  pending,   \* Stripe has an event of it to deliver
  subscription, \* the row of platform.subscriptions, as: does it grant access
  snapshot,  \* the cached entitlements
  stage,     \* a request: what it does next
  order,     \* a request: what it was asked for
  reading,   \* a request: the snapshot it is computing
  moves,
  \* history variables
  asked,     \* the bodies whose replacements have overlapped the latest one
  broken,    \* one of those replacements has died or failed
  overtaken, \* the requests that compute from what has changed since
  raced,     \* the cached snapshot was computed so, or a drop of it was lost
  repriced   \* the plan's price id was changed after the customer's checkout

Rows == [Keys -> Ceilings \cup {NoRow}]
NoRows == [k \in Keys |-> NoRow]
Body(b) == [k \in Keys |-> IF k \in DOMAIN b THEN b[k] ELSE NoRow]
Plan == [price : Prices \cup {NoRow}, active : BOOLEAN]

ASSUME CatalogueAssumption ==
  /\ Keys \subseteq Nat /\ MoveMax \in Nat
  /\ NoRow \notin Ceilings \cup Prices /\ NoRow \notin BOOLEAN /\ NoRow \notin Plan
  /\ \A b \in Bodies : DOMAIN b \subseteq Keys /\ \A k \in DOMAIN b : b[k] \in Ceilings

Claims == [granted : BOOLEAN, caps : Rows]
Nothing == [granted |-> FALSE, caps |-> NoRows]

tables == <<plan, limits, override, subscription>>
customer == <<stripe, pending, repriced>>
computation == <<reading, overtaken, raced>>
replacements == <<asked, broken>>
catalogueVars ==
  <<tables, customer, snapshot, stage, order, computation, replacements, moves>>

Replacing == {"delete", "insert"}
Computing == {"subs", "catalog", "overrides", "set"}

CatalogueTypeOK ==
  /\ plan \in Plan \cup {NoRow}
  /\ limits \in Rows /\ override \in Rows
  /\ stripe \in [price : Prices, live : BOOLEAN] \cup {NoRow}
  /\ subscription \in BOOLEAN \cup {NoRow}
  /\ snapshot \in Claims \cup {NoRow}
  /\ stage \in [Operators ->
                 {"idle", "upsert", "list", "drop"} \cup Replacing \cup Computing]
  /\ \A t \in Operators :
       order[t] \in {NoRow} \cup [left : SUBSET Keys, rows : Rows, writes : BOOLEAN]
  /\ reading \in [Operators -> Claims]
  /\ moves \in 0 .. MoveMax
  /\ asked \subseteq Rows /\ overtaken \subseteq Operators
  /\ {pending, broken, raced, repriced} \subseteq BOOLEAN

CatalogueInit ==
  /\ plan = NoRow /\ limits = NoRows /\ override = NoRows
  /\ stripe = NoRow /\ pending = FALSE /\ subscription = NoRow /\ snapshot = NoRow
  /\ stage = [t \in Operators |-> "idle"]
  /\ order = [t \in Operators |-> NoRow]
  /\ reading = [t \in Operators |-> Nothing]
  /\ moves = 0
  /\ asked = {NoRows} /\ broken = FALSE
  /\ overtaken = {} /\ raced = FALSE /\ repriced = FALSE

-----------------------------------------------------------------------------
Idle == \A t \in Operators : stage[t] = "idle"
GoesTo(t, s) == stage' = [stage EXCEPT ![t] = s]
Orders(t, keys, rows) ==
  order' = [order EXCEPT ![t] = [left |-> keys, rows |-> rows, writes |-> TRUE]]
Moves == moves < MoveMax /\ moves' = moves + 1

\* A table changes under those who have begun to compute from it.
Overtakes == overtaken' = overtaken \cup {t \in Operators : stage[t] \in Computing}

\* The history of the cached snapshot.
Cached(s, wrong) == snapshot' = s /\ raced' = wrong

\* limits.update(overrides): an override hides the plan's limit of its key.
Overlay(rows, over) == [k \in Keys |-> IF over[k] = NoRow THEN rows[k] ELSE over[k]]

\* What the tables say now.
Current ==
  IF subscription = TRUE THEN [granted |-> TRUE, caps |-> Overlay(limits, override)]
  ELSE Nothing

-----------------------------------------------------------------------------
\* The plan itself.  Creating an id that is taken changes nothing (409), and
\* a patch is one UPDATE of the columns it names.
CreatePlan ==
  /\ plan = NoRow
  /\ \E p \in Plan : plan' = p
  /\ UNCHANGED <<limits, override, subscription, customer, snapshot, stage,
                 order, computation, replacements, moves>>

UpdatePlan ==
  /\ plan # NoRow /\ Moves
  /\ \/ \E p \in Prices \cup {NoRow} : plan' = [plan EXCEPT !.price = p]
     \/ \E a \in BOOLEAN : plan' = [plan EXCEPT !.active = a]
  /\ repriced' = (repriced \/ (stripe # NoRow /\ plan'.price # plan.price))
  /\ UNCHANGED <<limits, override, subscription, stripe, pending, snapshot,
                 stage, order, computation, replacements>>

\* The storefront offers active plans with a price, the checkout sells any
\* price that a plan has.
Offered == plan # NoRow /\ plan.active /\ plan.price # NoRow

Checkout ==
  /\ stripe = NoRow /\ Offered /\ Moves
  /\ stripe' = [price |-> plan.price, live |-> TRUE]
  /\ pending' = TRUE
  /\ UNCHANGED <<tables, repriced, snapshot, stage, order, computation,
                 replacements>>

\* The customer cancels, or stops paying.
Lapse ==
  /\ stripe # NoRow /\ stripe.live /\ Moves
  /\ stripe' = [stripe EXCEPT !.live = FALSE]
  /\ pending' = TRUE
  /\ UNCHANGED <<tables, repriced, snapshot, stage, order, computation,
                 replacements>>

SoldPlans == \* mutant: retired plans are not looked up
  plan # NoRow /\ plan.active /\ plan.price = stripe.price

\* plan_for_price.
PlanForPrice == plan # NoRow /\ plan.price = stripe.price

\* The webhook: the price names the plan, the row is written and the snapshot
\* recomputed.  An event of a price that no plan has is unresolvable, and its
\* redelivery is a duplicate.
Webhook(t) ==
  /\ stage[t] = "idle" /\ pending
  /\ pending' = FALSE
  /\ IF PlanForPrice
     THEN /\ subscription' = stripe.live
          /\ GoesTo(t, "subs")
          /\ Orders(t, {}, NoRows)
          /\ Overtakes
     ELSE UNCHANGED <<subscription, stage, order, overtaken>>
  /\ UNCHANGED <<plan, limits, override, stripe, repriced, snapshot, reading,
                 raced, replacements, moves>>

-----------------------------------------------------------------------------
\* PUT /admin/plans/{id}/limits: set_limits of a plan there is.
SetLimits(t) ==
  /\ stage[t] = "idle" /\ plan # NoRow /\ Moves
  /\ \E b \in Bodies : Orders(t, DOMAIN b, Body(b))
  /\ GoesTo(t, "delete")
  /\ UNCHANGED <<tables, customer, snapshot, computation, replacements>>

AfterDelete(t) == IF order[t].left = {} THEN "list" ELSE "insert"

DeleteLimits(t) ==
  /\ stage[t] = "delete"
  /\ limits' = NoRows
  /\ GoesTo(t, AfterDelete(t))
  /\ LET others == {o \in Operators \ {t} : stage[o] = "insert"}
         body == order[t].rows
     IN /\ asked' = IF others = {} THEN {body} ELSE asked \cup {body}
        /\ broken' = (broken /\ others # {})
  /\ Overtakes
  /\ UNCHANGED <<plan, override, subscription, customer, snapshot, order,
                 reading, raced, moves>>

\* The rows are inserted one by one in the order of their keys.  A row that
\* another replacement has put there fails the statement and the request.
InsertLimit(t) ==
  /\ stage[t] = "insert"
  /\ LET k == Min(order[t].left)
     IN IF limits[k] = NoRow
        THEN /\ limits' = [limits EXCEPT ![k] = order[t].rows[k]]
             /\ order' = [order EXCEPT ![t].left = @ \ {k}]
             /\ GoesTo(t, IF order[t].left = {k} THEN "list" ELSE "insert")
             /\ Overtakes
             /\ UNCHANGED <<raced, broken>>
        ELSE /\ order' = [order EXCEPT ![t] = NoRow]
             /\ GoesTo(t, "idle")
             /\ broken' = TRUE /\ raced' = TRUE
             /\ UNCHANGED <<limits, overtaken>>
  /\ UNCHANGED <<plan, override, subscription, customer, snapshot, reading,
                 asked, moves>>

\* tenant_ids_on_plan names the plan's subscribers, and each of their
\* snapshots is dropped, though not recomputed.
ListTenants(t) ==
  /\ stage[t] = "list"
  /\ IF subscription = NoRow
     THEN GoesTo(t, "idle") /\ order' = [order EXCEPT ![t] = NoRow]
     ELSE GoesTo(t, "drop") /\ UNCHANGED order
  /\ UNCHANGED <<tables, customer, snapshot, computation, replacements, moves>>

-----------------------------------------------------------------------------
\* PUT /admin/tenants/{id}/limits/{key}: a key that no plan has, or that a
\* replacement has just deleted, is refused.
SetOverride(t) ==
  /\ stage[t] = "idle" /\ Moves
  /\ \E k \in {k \in Keys : limits[k] # NoRow}, v \in Ceilings :
       Orders(t, {k}, [NoRows EXCEPT ![k] = v])
  /\ GoesTo(t, "upsert")
  /\ UNCHANGED <<tables, customer, snapshot, computation, replacements>>

Upsert(t) ==
  /\ stage[t] = "upsert"
  /\ override' = Overlay(override, order[t].rows)
  /\ order' = [order EXCEPT ![t].rows = NoRows]
  /\ GoesTo(t, "drop")
  /\ Overtakes
  /\ UNCHANGED <<plan, limits, subscription, customer, snapshot, reading,
                 raced, replacements, moves>>

\* DELETE of an override there is.
ClearOverride(t) ==
  /\ stage[t] = "idle" /\ Moves
  /\ \E k \in {k \in Keys : override[k] # NoRow} :
       /\ override' = [override EXCEPT ![k] = NoRow]
       /\ Orders(t, {k}, NoRows)
  /\ GoesTo(t, "drop")
  /\ Overtakes
  /\ UNCHANGED <<plan, limits, subscription, customer, snapshot, reading,
                 raced, replacements>>

\* invalidate; an override is then recomputed into the cache.
DropSnapshot(t) ==
  /\ stage[t] = "drop"
  /\ Cached(NoRow, FALSE)
  /\ IF order[t].left = {}
     THEN GoesTo(t, "idle") /\ order' = [order EXCEPT ![t] = NoRow]
     ELSE GoesTo(t, "subs") /\ UNCHANGED order
  /\ UNCHANGED <<tables, customer, reading, overtaken, replacements, moves>>

-----------------------------------------------------------------------------
\* EntitlementsService.refresh, of a guard that finds no snapshot, of the
\* operator who opens the tenant's page, or of a writer from above.
Recompute(t) ==
  /\ stage[t] = "idle" /\ snapshot = NoRow
  /\ GoesTo(t, "subs")
  /\ order' = [order EXCEPT ![t] = [left |-> {}, rows |-> NoRows, writes |-> FALSE]]
  /\ UNCHANGED <<tables, customer, snapshot, computation, replacements, moves>>

ReadTables(t) ==
  /\ \/ /\ stage[t] = "subs" /\ GoesTo(t, "catalog")
        /\ reading' = [reading EXCEPT ![t].granted = (subscription = TRUE)]
     \/ /\ stage[t] = "catalog" /\ GoesTo(t, "overrides")
        /\ reading' = [reading EXCEPT ![t].caps = limits]
     \/ /\ stage[t] = "overrides" /\ GoesTo(t, "set")
        /\ reading' = [reading EXCEPT ![t].caps = Overlay(@, override)]
  /\ UNCHANGED <<tables, customer, snapshot, order, overtaken, raced,
                 replacements, moves>>

\* A subscription that grants nothing has no limits either.
SetSnapshot(t) ==
  /\ stage[t] = "set"
  /\ Cached(IF reading[t].granted THEN reading[t] ELSE Nothing, t \in overtaken)
  /\ GoesTo(t, "idle")
  /\ order' = [order EXCEPT ![t] = NoRow]
  /\ reading' = [reading EXCEPT ![t] = Nothing]
  /\ overtaken' = overtaken \ {t}
  /\ UNCHANGED <<tables, customer, replacements, moves>>

ExpireSnapshot ==
  /\ snapshot # NoRow
  /\ Cached(NoRow, FALSE)
  /\ UNCHANGED <<tables, customer, stage, order, reading, overtaken,
                 replacements, moves>>

\* The request dies.  What it has written stays written.
RequestEnds(t) ==
  /\ stage[t] # "idle"
  /\ GoesTo(t, "idle")
  /\ order' = [order EXCEPT ![t] = NoRow]
  /\ reading' = [reading EXCEPT ![t] = Nothing]
  /\ overtaken' = overtaken \ {t}
  /\ broken' = (broken \/ stage[t] = "insert")
  /\ raced' = (raced \/ (order[t].writes /\ stage[t] \notin {"delete", "upsert"}))
  /\ UNCHANGED <<tables, customer, snapshot, asked, moves>>

CatalogueNext ==
  \/ CreatePlan \/ UpdatePlan \/ Checkout \/ Lapse \/ ExpireSnapshot
  \/ \E t \in Operators :
       \/ Webhook(t) \/ SetLimits(t) \/ DeleteLimits(t) \/ InsertLimit(t)
       \/ ListTenants(t) \/ SetOverride(t) \/ Upsert(t) \/ ClearOverride(t)
       \/ DropSnapshot(t) \/ Recompute(t) \/ ReadTables(t) \/ SetSnapshot(t)
       \/ RequestEnds(t)

CatalogueSpec == CatalogueInit /\ [][CatalogueNext]_catalogueVars

-----------------------------------------------------------------------------
Named(rows) == {k \in Keys : rows[k] # NoRow}

\* "so the two halves cannot disagree about which keys survived" (plans.py:
\* 223): nothing but the primary key of plan_limits keeps two replacements
\* apart.  It is enough when they name the same keys: unless one of them was
\* told that it failed, the plan has the limits of one of them, whole.
LimitsAreWhole ==
  /\ \A t \in Operators : stage[t] # "insert"
  /\ ~broken
  /\ \A b, c \in asked : Named(b) = Named(c)
  => limits \in asked

\* Whoever changes what a customer's ceilings are resolved from drops the
\* snapshot afterwards (admin_catalog.py:257-260): with no request under way,
\* what is cached is what the tables say, half-replaced limits included,
\* unless a recomputation was overtaken or the drop of a change was lost.
CeilingsAreCurrent ==
  Idle /\ ~raced /\ snapshot # NoRow => snapshot = Current

\* "Deactivating a plan does not revoke access" and "existing subscribers
\* keep exactly what they bought" (admin_catalog.py:18-22), and they can still
\* leave: as long as the plan keeps its price id, whatever else operators do
\* to it, the row follows the subscription at Stripe.
SubscribersAreHeard ==
  stripe # NoRow /\ ~pending /\ ~repriced => subscription = stripe.live

CatalogueInv ==
  /\ CatalogueTypeOK /\ LimitsAreWhole /\ CeilingsAreCurrent /\ SubscribersAreHeard
  /\ MispricedPlansAreReported
=============================================================================
