----------------------------- MODULE PlanPricing -----------------------------
(***************************************************************************)
(* How operators price a plan: they create it or patch the fields they     *)
(* name, the price id is compared with what Stripe knows of it, and the    *)
(* row is saved with or without warnings.  The row is read, Stripe asked   *)
(* and the row written in turn, while other operators save theirs and      *)
(* Stripe's owner archives prices.                                         *)
(*                                                                         *)
(* The monthly and the annual price are checked alike and on their own;    *)
(* the model has one of them.                                              *)
(***************************************************************************)
EXTENDS Integers, FiniteSets

CONSTANTS
  Operators, \* concurrent requests
  NoRow,     \* no plan; NULL in a column of it
  Omitted,   \* a field that a patch does not name
  PriceIds,  \* what may be typed as a price id
  AtStripe,  \* the prices Stripe knows: what each charges, and is it per month
  Amounts,   \* what the catalogue may say
  SaveMax    \* bound on the requests

VARIABLES
  offer,    \* the plan's price id and cents
  archived, \* prices archived at Stripe
  draft,    \* a request
  saves,
  \* history variables
  told,     \* what the answers have said of the row's price
  excuse    \* why they may not have said all

pricingVars == <<offer, archived, draft, saves, told, excuse>>

Columns == [price : PriceIds \cup {NoRow}, cents : Amounts \cup {NoRow}]

ASSUME PricingAssumption ==
  /\ DOMAIN AtStripe \subseteq PriceIds /\ SaveMax \in Nat
  /\ \A p \in DOMAIN AtStripe : AtStripe[p] \in [amount : Amounts, monthly : BOOLEAN]
  /\ NoRow \notin PriceIds \cup Amounts \cup Columns
  /\ Omitted \notin PriceIds \cup Amounts \cup {NoRow}

Patches == [price : PriceIds \cup {NoRow, Omitted}, cents : Amounts \cup {NoRow, Omitted}]
Warnings == {"unverified", "unknown", "archived", "amount", "interval"}
NoDraft == [at |-> "none"]

PricingTypeOK ==
  /\ offer \in Columns \cup {NoRow}
  /\ \A o \in Operators :
       draft[o] # NoDraft => draft[o].fields \in Patches /\ draft[o].warned \subseteq Warnings
  /\ told \subseteq Warnings
  /\ excuse \subseteq {"cents only", "unasked", "overtaken", "archived since", "seeded"}

\* The seeded plans have placeholders for price ids.
PricingInit ==
  /\ offer \in {NoRow} \cup [price : PriceIds \ DOMAIN AtStripe, cents : Amounts]
  /\ archived = {}
  /\ draft = [o \in Operators |-> NoDraft] /\ saves = 0
  /\ told = {} /\ excuse = IF offer = NoRow THEN {} ELSE {"seeded"}

-----------------------------------------------------------------------------
\* cents: what the price id is compared with.  late: something that the
\* request has read has changed since.
Begins(o, f, new, cents) ==
  /\ draft[o] = NoDraft /\ saves < SaveMax
  /\ saves' = saves + 1
  /\ draft' = [draft EXCEPT ![o] =
       [at |-> "check", new |-> new, fields |-> f, cents |-> cents,
        warned |-> {}, asked |-> FALSE, late |-> FALSE]]
  /\ UNCHANGED <<offer, archived, told, excuse>>

\* create_plan.
BeginCreate(o) == offer = NoRow /\ \E f \in Columns : Begins(o, f, TRUE, f.cents)

\* update_plan: a patch of some fields of a plan there is, whose cents stand
\* for those it does not name.
BeginPatch(o) ==
  /\ offer # NoRow
  /\ \E f \in Patches :
       /\ f.price # Omitted \/ f.cents # Omitted
       /\ Begins(o, f, FALSE, IF f.cents = Omitted THEN offer.cents ELSE f.cents)

\* get_price: a price that Stripe does not know is told apart from a question
\* that it does not answer.
Faults(price, cents) ==
  IF price = NoRow THEN {}
  ELSE IF price \notin DOMAIN AtStripe THEN {"unknown"}
  ELSE (IF price \in archived THEN {"archived"} ELSE {})
       \cup (IF cents \notin {NoRow, AtStripe[price].amount} THEN {"amount"} ELSE {})
       \cup (IF AtStripe[price].monthly THEN {} ELSE {"interval"})

\* _validate_price_ids, if the caller has not switched it off: Stripe answers,
\* does not, or is not configured, which is no warning.
Validate(o) ==
  LET d == draft[o]
      Saves(asked, warned) ==
        draft' = [draft EXCEPT ![o].at = "save", ![o].cents = NoRow,
                               ![o].asked = asked, ![o].warned = warned]
  IN
  /\ d.at = "check"
  /\ \/ Saves(FALSE, {})
     \/ d.fields.price \in {Omitted, NoRow} /\ Saves(TRUE, {})
     \/ /\ d.fields.price \in PriceIds
        /\ Saves(TRUE, {"unverified"}) \/ Saves(TRUE, Faults(d.fields.price, d.cents))
  /\ UNCHANGED <<offer, archived, saves, told, excuse>>

\* Those who have read the row or asked Stripe are late.
Overtaken(d, o) ==
  [p \in Operators |-> IF p = o \/ d[p] = NoDraft THEN d[p] ELSE [d[p] EXCEPT !.late = TRUE]]

\* INSERT .. ON CONFLICT DO NOTHING, which is answered 409, or an UPDATE of
\* the columns named; the answer carries the warnings.
Save(o) ==
  LET d == draft[o]
      named == d.fields.price # Omitted
  IN /\ d.at = "save"
     /\ draft' = Overtaken([draft EXCEPT ![o] = NoDraft], o)
     /\ IF d.new /\ offer # NoRow THEN UNCHANGED <<offer, told, excuse>>
        ELSE /\ offer' = IF d.new THEN d.fields
                         ELSE [price |-> IF named THEN d.fields.price ELSE offer.price,
                               cents |-> IF d.fields.cents = Omitted THEN offer.cents
                                         ELSE d.fields.cents]
             /\ told' = IF named THEN d.warned ELSE told
             /\ excuse' = IF ~named THEN excuse \cup {"cents only"}
                          ELSE (IF d.asked THEN {} ELSE {"unasked"})
                               \cup (IF d.late THEN {"overtaken"} ELSE {})
     /\ UNCHANGED <<archived, saves>>

SaveDies(o) ==
  /\ draft[o] # NoDraft
  /\ draft' = [draft EXCEPT ![o] = NoDraft]
  /\ UNCHANGED <<offer, archived, saves, told, excuse>>

-----------------------------------------------------------------------------
\* At Stripe a price's amount and interval never change.
Archive(p) ==
  /\ p \in DOMAIN AtStripe \ archived
  /\ archived' = archived \cup {p}
  /\ draft' = [o \in Operators |->
       IF draft[o] = NoDraft THEN NoDraft ELSE [draft[o] EXCEPT !.late = TRUE]]
  /\ excuse' = IF offer # NoRow /\ offer.price = p THEN excuse \cup {"archived since"} ELSE excuse
  /\ UNCHANGED <<offer, saves, told>>

PricingNext ==
  \/ \E p \in PriceIds : Archive(p)
  \/ \E o \in Operators :
       BeginCreate(o) \/ BeginPatch(o) \/ Validate(o) \/ Save(o) \/ SaveDies(o)

PricingSpec == PricingInit /\ [][PricingNext]_pricingVars

-----------------------------------------------------------------------------
\* Types; and "Reporting loudly and saving anyway keeps the operator in
\* control" (admin_catalog.py:468-471): a plan whose price Stripe does not
\* know, does not sell, or charges at another amount or interval than the
\* catalogue says was saved with that warning, or with the one that it could
\* not be verified, unless the check was off, the price was archived later,
\* the row or Stripe changed under the request, a later patch named only the
\* cents, or the plan is still as it was seeded.
MispricedPlansAreReported ==
  /\ PricingTypeOK
  /\ offer # NoRow /\ excuse = {} =>
       Faults(offer.price, offer.cents) \subseteq told \/ "unverified" \in told
=============================================================================
