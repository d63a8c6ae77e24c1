---------------------------- MODULE BillingWebhook ----------------------------
(***************************************************************************)
(* Stripe's events about one workspace's subscription to one module, the   *)
(* ledger that makes their handling idempotent (platform.billing_events)   *)
(* and the subscription row they are applied to.  Stripe delivers an event *)
(* again until it is answered 200, and perhaps after that, in any order;   *)
(* handlers run concurrently, and every statement of a handler is a step   *)
(* that may raise.                                                         *)
(***************************************************************************)
EXTENDS Integers

CONSTANTS
  Events,
  At,          \* the second Stripe created an event
  Relevant,    \* the events whose type is in SUBSCRIPTION_EVENTS
  Unpriced,    \* the events whose price is not mapped to a plan at first
  Handlers,    \* concurrent requests
  DeliveryMax, \* bound on the deliveries of one event
  FaultMax,    \* bound on statements that raise and processes that die
  None

ASSUME BillingAssumption ==
  /\ At \in [Events -> Nat]
  /\ Relevant \subseteq Events /\ Unpriced \subseteq Events
  /\ DeliveryMax \in Nat /\ FaultMax \in Nat
  /\ None \notin Events

VARIABLES
  sent,    \* deliveries so far
  acked,   \* the events Stripe got a 200 for
  ledger,  \* per event: unknown, or claimed with applied false or true
  row,     \* the event the subscription row reflects; None: a trial's row
  unpriced,\* the events whose price is not mapped to a plan now
  step,    \* a handler: what it does next
  on,      \* the event it handles
  faults,  \* what remains of FaultMax
  \* history variables
  writes,  \* how often an event was written to the row
  failed   \* events whose handler failed between its claim and its write

vars == <<sent, acked, ledger, row, unpriced, step, on, faults, writes, failed>>

TypeOK ==
  /\ sent \in [Events -> 0 .. DeliveryMax]
  /\ acked \subseteq Events
  /\ ledger \in [Events -> {"unknown", "claimed", "applied"}]
  /\ row \in Relevant \cup {None}
  /\ unpriced \subseteq Unpriced
  /\ step \in [Handlers -> {"idle", "claim", "resolve", "write", "refresh",
                            "mark", "skip", "refuse", "ok", "error"}]
  /\ on \in [Handlers -> Relevant \cup {None}]
  /\ faults \in 0 .. FaultMax
  /\ writes \in [Events -> 0 .. DeliveryMax]
  /\ failed \subseteq Relevant

Init ==
  /\ sent = [e \in Events |-> 0]
  /\ acked = {}
  /\ ledger = [e \in Events |-> "unknown"]
  /\ row = None
  /\ unpriced = Unpriced
  /\ step = [h \in Handlers |-> "idle"]
  /\ on = [h \in Handlers |-> None]
  /\ faults = FaultMax
  /\ writes = [e \in Events |-> 0]
  /\ failed = {}

-----------------------------------------------------------------------------
Becomes(h, s) == step' = [step EXCEPT ![h] = s]

\* A delivery.  Events of other types are acknowledged and not acted upon.
Deliver(h, e) ==
  /\ step[h] = "idle"
  /\ sent[e] < DeliveryMax
  /\ sent' = [sent EXCEPT ![e] = @ + 1]
  /\ IF e \in Relevant
     THEN Becomes(h, "claim") /\ on' = [on EXCEPT ![h] = e] /\ UNCHANGED acked
     ELSE acked' = acked \cup {e} /\ UNCHANGED <<step, on>>
  /\ UNCHANGED <<ledger, row, unpriced, faults, writes, failed>>

ClaimTwice(h) == \* mutant: the claim does not look whether the event is new
  /\ step[h] = "claim"
  /\ ledger' = [ledger EXCEPT ![on[h]] = "claimed"]
  /\ Becomes(h, "resolve")
  /\ UNCHANGED <<sent, acked, row, unpriced, on, faults, writes, failed>>

\* BillingEventRepository.claim: INSERT ... ON CONFLICT DO NOTHING.
Claim(h) ==
  /\ step[h] = "claim"
  /\ IF ledger[on[h]] = "unknown"
     THEN ledger' = [ledger EXCEPT ![on[h]] = "claimed"] /\ Becomes(h, "resolve")
     ELSE Becomes(h, "ok") /\ UNCHANGED ledger
  /\ UNCHANGED <<sent, acked, row, unpriced, on, faults, writes, failed>>

\* _apply: the price says what was bought, or the change is unresolvable.
Resolve(h) ==
  /\ step[h] = "resolve"
  /\ IF on[h] \in unpriced
     THEN Becomes(h, "refuse") /\ failed' = failed \cup {on[h]}
     ELSE Becomes(h, "write") /\ UNCHANGED failed
  /\ UNCHANGED <<sent, acked, ledger, row, unpriced, on, faults, writes>>

NewerAnyway(e) == TRUE \* mutant: the DO UPDATE has no WHERE clause

\* The WHERE clause of the upsert's DO UPDATE; a trial's row has no time.
Newer(e) == row = None \/ At[e] >= At[row]

Write(h) ==
  /\ step[h] = "write"
  /\ IF Newer(on[h])
     THEN /\ row' = on[h]
          /\ writes' = [writes EXCEPT ![on[h]] = @ + 1]
          /\ Becomes(h, "refresh")
     ELSE Becomes(h, "skip") /\ UNCHANGED <<row, writes>>
  /\ UNCHANGED <<sent, acked, ledger, unpriced, on, faults, failed>>

\* EntitlementsService.refresh: see EntitlementCache.
Refresh(h) ==
  /\ step[h] = "refresh"
  /\ Becomes(h, "mark")
  /\ UNCHANGED <<sent, acked, ledger, row, unpriced, on, faults, writes, failed>>

\* mark_applied, with what became of the event.
Mark(h) ==
  /\ step[h] \in {"mark", "skip", "refuse"}
  /\ ledger' = [ledger EXCEPT ![on[h]] = IF step[h] = "mark" THEN "applied" ELSE "claimed"]
  /\ Becomes(h, IF step[h] = "refuse" THEN "error" ELSE "ok")
  /\ UNCHANGED <<sent, acked, row, unpriced, on, faults, writes, failed>>

Answer(h) ==
  /\ step[h] \in {"ok", "error"}
  /\ acked' = IF step[h] = "ok" THEN acked \cup {on[h]} ELSE acked
  /\ Becomes(h, "idle")
  /\ on' = [on EXCEPT ![h] = None]
  /\ UNCHANGED <<sent, ledger, row, unpriced, faults, writes, failed>>

\* What a failure of h leaves undone: the event it has claimed and not written.
Loses(h) ==
  failed' = IF step[h] \in {"resolve", "write"} THEN failed \cup {on[h]} ELSE failed

\* A statement raises: inside _apply the failure is recorded, and in any case
\* the answer is 500.
Raise(h) ==
  /\ faults > 0 /\ faults' = faults - 1
  /\ step[h] \notin {"idle", "ok", "error"}
  /\ Becomes(h, IF step[h] \in {"resolve", "write", "refresh"} THEN "refuse" ELSE "error")
  /\ Loses(h)
  /\ UNCHANGED <<sent, acked, ledger, row, unpriced, on, writes>>

\* The process dies.
Crash(h) ==
  /\ faults > 0 /\ faults' = faults - 1
  /\ step[h] # "idle"
  /\ Loses(h)
  /\ Becomes(h, "idle")
  /\ on' = [on EXCEPT ![h] = None]
  /\ UNCHANGED <<sent, acked, ledger, row, unpriced, writes>>

\* An operator adds the missing price to the catalogue.
MapPrices ==
  /\ unpriced # {}
  /\ unpriced' = {}
  /\ UNCHANGED <<sent, acked, ledger, row, step, on, faults, writes, failed>>

Next ==
  \/ MapPrices
  \/ \E h \in Handlers :
       \/ \E e \in Events : Deliver(h, e)
       \/ Claim(h) \/ Resolve(h) \/ Write(h) \/ Refresh(h) \/ Mark(h) \/ Answer(h)
       \/ Raise(h) \/ Crash(h)

Spec == Init /\ [][Next]_vars

-----------------------------------------------------------------------------
\* "Only apply if newer" (repositories/billing.py:49): whatever the order of
\* deliveries and however handlers interleave, access never moves backwards.
RowOnlyNewer == row # None => row' # None /\ At[row'] >= At[row]

AccessNeverMovesBack == [][RowOnlyNewer]_vars

Working(e) == \E h \in Handlers : on[h] = e /\ step[h] # "error"

\* "Process a verified webhook exactly once" (billing_service.py:169): an event
\* answered 200 is in the row, is older than the row, is being worked on, or
\* is one whose handling failed between its claim and its write to the row --
\* and nothing else is lost.
\* (That last disjunct is the hole: see the claims of MCBilling.)
AckedIsAccountedFor ==
  \A e \in acked \cap Relevant :
    \/ row # None /\ At[row] >= At[e]
    \/ Working(e)
    \/ e \in failed

\* See BillingInv.
AppliedOnce ==
  \A e \in Events :
    /\ writes[e] <= 1
    /\ ledger[e] = "applied" => writes[e] = 1

\* Types; and an event has its one effect ("exactly once",
\* billing_service.py:169): it is never written to the row twice, and the ledger
\* says applied only of an event that was; and none is lost unaccounted for.
BillingInv == TypeOK /\ AppliedOnce /\ AckedIsAccountedFor
=============================================================================
