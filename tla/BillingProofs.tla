----------------------------- MODULE BillingProofs -----------------------------
(***************************************************************************)
(* Proofs about BillingWebhook, for any events, times, types, handlers,    *)
(* deliveries and faults; about PlanPricing and PlanCatalogue, for any     *)
(* operators, prices, amounts, limits and bodies; and about UsageLedger,   *)
(* for any requests, prices, tenants, days and calls.                      *)
(*                                                                         *)
(* The inductive invariant of BillingWebhook follows an event from its     *)
(* claim: it is in the hands of the one handler that claimed it until it   *)
(* is marked, is written once by that handler or never, and once it is     *)
(* claimed the row is as new as it, or it is still to be written, or that  *)
(* failed.                                                                 *)
(*                                                                         *)
(* That of PlanPricing says of a request that nothing has overtaken that   *)
(* it compares the price it names with the cents it is to leave.           *)
(*                                                                         *)
(* That of PlanCatalogue has a part for each of its properties: a plan     *)
(* that keeps its price id is found by it; what a request has read is what *)
(* there is unless something has overtaken it, and a change that the       *)
(* cached snapshot does not show is owed by a request that will drop or    *)
(* replace it; and of several replacements that name the same keys at most *)
(* one can insert the last of them, so that whoever is left alone has      *)
(* written all the limits or is bound to fail.                             *)
(*                                                                         *)
(* That of UsageLedger bounds how old the prices are that the entry shows  *)
(* and a request holds, and has an edit to drop every wrong entry unless   *)
(* something slipped.  Its rollups are sums, and a sum of numbers is the   *)
(* size of a pile of things, so that sums of the parts of some rows add up *)
(* as the sizes of disjoint sets do; what the library's fold computes, one *)
(* chosen element after the other, is shown to be that size by taking a    *)
(* smallest set for which it were not.                                     *)
(***************************************************************************)
EXTENDS BillingWebhook, PlanCatalogue, UsageLedger, FunctionTheorems, FiniteSetTheorems,
        WellFoundedInduction, TLAPS

\* The steps of a handler that has claimed its event.
Applying == {"resolve", "write", "refresh", "mark", "skip", "refuse"}
Unwritten == {"resolve", "write"}

\* The row is as new as e.
Reflects(e) == row # None /\ At[row] >= At[e]

BusyHandlersHaveEvents ==
  \A h \in Handlers : step[h] # "idle" => on[h] \in Relevant /\ DeliveryMax >= 1

ClaimsAreExclusive ==
  /\ \A h \in Handlers : step[h] \in Applying => ledger[on[h]] = "claimed"
  /\ \A g, h \in Handlers :
       step[g] \in Applying /\ step[h] \in Applying /\ on[g] = on[h] => g = h

WritesFollowSteps ==
  /\ \A e \in Events : ledger[e] = "unknown" => writes[e] = 0
  /\ \A h \in Handlers :
       /\ step[h] \in Unwritten => writes[on[h]] = 0
       /\ step[h] \in {"refresh", "mark"} => writes[on[h]] = 1

Accounted(e) ==
  \/ Reflects(e)
  \/ e \in failed
  \/ \E h \in Handlers : on[h] = e /\ step[h] \in Unwritten

ClaimedIsAccountedFor ==
  /\ \A e \in Relevant : ledger[e] # "unknown" => Accounted(e)
  /\ \A e \in acked \cap Relevant : ledger[e] # "unknown"
  /\ \A h \in Handlers : step[h] = "ok" => ledger[on[h]] # "unknown"

IInv ==
  /\ TypeOK /\ AppliedOnce
  /\ BusyHandlersHaveEvents /\ ClaimsAreExclusive
  /\ WritesFollowSteps /\ ClaimedIsAccountedFor

USE DEF Applying, Unwritten

-----------------------------------------------------------------------------
LEMMA InitIInv == Init => IInv
<1> SUFFICES ASSUME Init PROVE IInv
  OBVIOUS
<1>1. TypeOK
  BY BillingAssumption DEF Init, TypeOK
<1> QED
  BY <1>1, BillingAssumption DEF Init, IInv, AppliedOnce, BusyHandlersHaveEvents, ClaimsAreExclusive,
     WritesFollowSteps, ClaimedIsAccountedFor

\* The event of a handler that works is one of the table's.
LEMMA BusyHandler ==
  ASSUME IInv, NEW h \in Handlers, step[h] # "idle"
  PROVE  on[h] \in Relevant /\ on[h] \in Events /\ on[h] # None /\ 1 \in 0 .. DeliveryMax
BY BillingAssumption DEF IInv, BusyHandlersHaveEvents

\* The row moves on in time, or stays.
LEMMA RowMoves ==
  ASSUME IInv, [Next]_vars
  PROVE  RowOnlyNewer
<1>1. ASSUME NEW h \in Handlers, Write(h), row # None
      PROVE  row' # None /\ At[row'] >= At[row]
  <2>1. on[h] # None /\ step[h] = "write"
    BY <1>1, BusyHandler DEF Write
  <2>2. CASE Newer(on[h])
    BY <1>1, <2>1, <2>2 DEF Write, Newer
  <2>3. CASE ~Newer(on[h])
    <3>1. row' = row /\ At[row] \in Nat
      BY <1>1, <2>3, BillingAssumption DEF Write, IInv, TypeOK
    <3> QED BY <1>1, <3>1
  <2> QED BY <2>2, <2>3
<1>2. ASSUME row' = row, row # None PROVE At[row'] >= At[row]
  <2>1. At[row] \in Nat
    BY <1>2, BillingAssumption DEF IInv, TypeOK
  <2> QED BY <1>2, <2>1
<1>3. (\E h \in Handlers : Write(h)) \/ row' = row
  BY DEF Next, vars, MapPrices, Deliver, Claim, Resolve, Refresh, Mark, Answer, Raise, Crash
<1> QED BY <1>1, <1>2, <1>3 DEF RowOnlyNewer

\* What the row reflects it goes on reflecting.
LEMMA ReflectsStays ==
  ASSUME IInv, [Next]_vars, NEW e \in Relevant, Reflects(e)
  PROVE  Reflects(e)'
<1>1. row' # None /\ At[row'] >= At[row] /\ At[row] >= At[e]
  BY RowMoves DEF RowOnlyNewer, Reflects
<1>2. row' \in Relevant
  <2>1. ASSUME NEW h \in Handlers, Write(h) PROVE row' \in Relevant
    BY <2>1, <1>1, BusyHandler DEF Write, IInv, TypeOK
  <2>2. (\E h \in Handlers : Write(h)) \/ row' = row
    BY DEF Next, vars, MapPrices, Deliver, Claim, Resolve, Refresh, Mark, Answer, Raise, Crash
  <2> QED BY <1>1, <2>1, <2>2 DEF IInv, TypeOK
<1>3. At[row'] \in Nat /\ At[row] \in Nat /\ At[e] \in Nat
  BY <1>2, BillingAssumption DEF Reflects, IInv, TypeOK
<1> QED BY <1>1, <1>3 DEF Reflects

-----------------------------------------------------------------------------
LEMMA DeliverIInv ==
  ASSUME IInv, NEW h \in Handlers, NEW e \in Events, Deliver(h, e)
  PROVE  IInv'
<1>1. TypeOK'
  BY BillingAssumption DEF IInv, TypeOK, Deliver, Becomes
<1>2. AppliedOnce' /\ BusyHandlersHaveEvents' /\ ClaimsAreExclusive' /\ WritesFollowSteps'
  BY BillingAssumption DEF IInv, TypeOK, Deliver, Becomes, AppliedOnce, BusyHandlersHaveEvents, ClaimsAreExclusive, WritesFollowSteps
<1>3. ClaimedIsAccountedFor'
  BY BillingAssumption DEF IInv, TypeOK, Deliver, Becomes, ClaimedIsAccountedFor, Accounted, Reflects
<1> QED BY <1>1, <1>2, <1>3 DEF IInv

LEMMA ClaimIInv ==
  ASSUME IInv, NEW h \in Handlers, Claim(h)
  PROVE  IInv'
<1>0. on[h] \in Relevant /\ on[h] \in Events
  BY BusyHandler DEF Claim
<1>1. TypeOK'
  BY <1>0 DEF IInv, TypeOK, Claim, Becomes
<1>2. AppliedOnce' /\ BusyHandlersHaveEvents'
  BY <1>0 DEF IInv, TypeOK, Claim, Becomes, AppliedOnce, BusyHandlersHaveEvents
<1>3. ClaimsAreExclusive'
  <2>1. CASE ledger[on[h]] = "unknown"
    <3>1. ASSUME NEW g \in Handlers, g # h, step'[g] \in Applying
          PROVE  step[g] \in Applying /\ ledger[on[g]] = "claimed" /\ on'[g] # on'[h]
      BY <2>1, <3>1 DEF IInv, TypeOK, Claim, Becomes, ClaimsAreExclusive
    <3>2. ledger' = [ledger EXCEPT ![on[h]] = "claimed"] /\ on' = on
      BY <2>1 DEF Claim
    <3>3. \A g \in Handlers : step'[g] \in Applying => ledger'[on'[g]] = "claimed"
      BY <1>0, <3>1, <3>2, BusyHandler DEF IInv, TypeOK
    <3>4. \A f, g \in Handlers :
            step'[f] \in Applying /\ step'[g] \in Applying /\ on'[f] = on'[g] => f = g
      <4> SUFFICES ASSUME NEW f \in Handlers, NEW g \in Handlers, f # g,
                          step'[f] \in Applying, step'[g] \in Applying, on'[f] = on'[g]
                   PROVE  FALSE
        OBVIOUS
      <4>1. f # h /\ g # h
        BY <3>1
      <4> QED BY <3>1, <3>2, <4>1 DEF IInv, ClaimsAreExclusive
    <3> QED BY <3>3, <3>4 DEF ClaimsAreExclusive
  <2>2. CASE ledger[on[h]] # "unknown"
    BY <2>2 DEF IInv, TypeOK, Claim, Becomes, ClaimsAreExclusive
  <2> QED BY <2>1, <2>2
<1>4. WritesFollowSteps'
  BY <1>0 DEF IInv, TypeOK, Claim, Becomes, WritesFollowSteps
<1>5. ClaimedIsAccountedFor'
  <2>1. ASSUME NEW e \in Relevant, ledger'[e] # "unknown" PROVE Accounted(e)'
    <3>1. CASE ledger[e] # "unknown"
      <4>1. Accounted(e) /\ step[h] \notin Unwritten
        BY <3>1 DEF Claim, IInv, ClaimedIsAccountedFor
      <4>2. UNCHANGED <<row, failed, on>> /\ \A g \in Handlers \ {h} : step'[g] = step[g]
        BY DEF Claim, Becomes, IInv, TypeOK
      <4> QED BY <4>1, <4>2 DEF Accounted, Reflects
    <3>2. CASE ledger[e] = "unknown"
      <4>1. e = on[h] /\ ledger[on[h]] = "unknown"
        <5>1. e \in Events
          BY BillingAssumption
        <5>2. ledger' = ledger \/ ledger' = [ledger EXCEPT ![on[h]] = "claimed"]
          BY DEF Claim
        <5> QED BY <2>1, <3>2, <5>1, <5>2 DEF IInv, TypeOK
      <4>2. step'[h] = "resolve" /\ on'[h] = e
        BY <4>1 DEF Claim, Becomes, IInv, TypeOK
      <4> QED BY <4>2 DEF Accounted
    <3> QED BY <3>1, <3>2
  <2>2. \A e \in acked' \cap Relevant : ledger'[e] # "unknown"
    BY DEF Claim, IInv, TypeOK, ClaimedIsAccountedFor
  <2>3. ASSUME NEW g \in Handlers, step'[g] = "ok" PROVE ledger'[on'[g]] # "unknown"
    <3>1. on[g] \in Events
      <4>1. step[g] # "idle"
        BY <2>3 DEF Claim, Becomes, IInv, TypeOK
      <4> QED BY <4>1, BusyHandler
    <3>2. ledger[on[g]] # "unknown"
      BY <2>3 DEF Claim, Becomes, IInv, TypeOK, ClaimedIsAccountedFor
    <3>3. on' = on /\ (ledger' = ledger \/ ledger' = [ledger EXCEPT ![on[h]] = "claimed"])
      BY DEF Claim
    <3> QED BY <3>1, <3>2, <3>3 DEF IInv, TypeOK
  <2> QED BY <2>1, <2>2, <2>3 DEF ClaimedIsAccountedFor
<1> QED BY <1>1, <1>2, <1>3, <1>4, <1>5 DEF IInv

LEMMA ResolveIInv ==
  ASSUME IInv, NEW h \in Handlers, Resolve(h)
  PROVE  IInv'
<1>0. on[h] \in Relevant /\ on[h] \in Events
  BY BusyHandler DEF Resolve
<1>1. TypeOK'
  BY <1>0 DEF IInv, TypeOK, Resolve, Becomes
<1>2. AppliedOnce' /\ BusyHandlersHaveEvents' /\ ClaimsAreExclusive' /\ WritesFollowSteps'
  BY <1>0 DEF IInv, TypeOK, Resolve, Becomes, AppliedOnce, BusyHandlersHaveEvents, ClaimsAreExclusive, WritesFollowSteps
<1>3. ClaimedIsAccountedFor'
  BY <1>0 DEF IInv, TypeOK, Resolve, Becomes, ClaimedIsAccountedFor, Accounted, Reflects
<1> QED BY <1>1, <1>2, <1>3 DEF IInv

LEMMA WriteIInv ==
  ASSUME IInv, NEW h \in Handlers, Write(h)
  PROVE  IInv'
<1>0. on[h] \in Relevant /\ on[h] \in Events /\ on[h] # None /\ 1 \in 0 .. DeliveryMax
  BY BusyHandler DEF Write
<1>1. ledger[on[h]] = "claimed" /\ writes[on[h]] = 0
  BY DEF Write, IInv, ClaimsAreExclusive, WritesFollowSteps
<1>2. TypeOK'
  BY <1>0, <1>1 DEF IInv, TypeOK, Write, Becomes
<1>3. AppliedOnce' /\ BusyHandlersHaveEvents' /\ ClaimsAreExclusive'
  BY <1>0, <1>1 DEF IInv, TypeOK, Write, Becomes, AppliedOnce, BusyHandlersHaveEvents, ClaimsAreExclusive
<1>4. WritesFollowSteps'
  <2>1. ASSUME NEW g \in Handlers, g # h, step[g] \in Applying
        PROVE  writes'[on[g]] = writes[on[g]] /\ step'[g] = step[g]
    <3>1. on[g] # on[h]
      BY <2>1 DEF Write, IInv, ClaimsAreExclusive
    <3>2. on[g] \in Events
      BY <2>1, BusyHandler
    <3>3. writes' = writes \/ writes' = [writes EXCEPT ![on[h]] = @ + 1]
      BY DEF Write
    <3>4. step'[g] = step[g]
      BY <2>1 DEF Write, Becomes, IInv, TypeOK
    <3> QED BY <3>1, <3>2, <3>3, <3>4 DEF IInv, TypeOK
  <2>2. ASSUME NEW e \in Events, ledger'[e] = "unknown" PROVE writes'[e] = 0
    BY <1>1, <2>2 DEF Write, IInv, TypeOK, WritesFollowSteps
  <2>3. /\ step'[h] \notin Unwritten
        /\ step'[h] \in {"refresh", "mark"} => writes'[on[h]] = 1
    BY <1>0, <1>1 DEF Write, Becomes, IInv, TypeOK
  <2>4. on' = on /\ \A g \in Handlers \ {h} : step'[g] = step[g]
    BY DEF Write, Becomes, IInv, TypeOK
  <2> QED BY <2>1, <2>2, <2>3, <2>4 DEF IInv, WritesFollowSteps
<1>5. ClaimedIsAccountedFor'
  <2>1. row' # None /\ At[row'] >= At[on[h]]
    <3>1. At[on[h]] \in Nat /\ (row # None => At[row] \in Nat)
      BY <1>0, BillingAssumption DEF IInv, TypeOK
    <3> QED BY <1>0, <3>1 DEF Write, Newer
  <2>2. ASSUME NEW e \in Relevant, ledger'[e] # "unknown" PROVE Accounted(e)'
    <3>1. Accounted(e) /\ (Reflects(e) => Reflects(e)')
      <4>1. [Next]_vars
        BY DEF Next
      <4> QED BY <2>2, <4>1, ReflectsStays DEF Write, IInv, ClaimedIsAccountedFor
    <3>2. CASE e = on[h]
      BY <2>1, <3>2 DEF Accounted, Reflects
    <3>3. CASE e # on[h]
      BY <3>1, <3>3 DEF Accounted, Write, Becomes, IInv, TypeOK
    <3> QED BY <3>2, <3>3
  <2>3. /\ \A e \in acked' \cap Relevant : ledger'[e] # "unknown"
        /\ \A g \in Handlers : step'[g] = "ok" => ledger'[on'[g]] # "unknown"
    BY DEF Write, Becomes, IInv, TypeOK, ClaimedIsAccountedFor
  <2> QED BY <2>2, <2>3 DEF ClaimedIsAccountedFor
<1> QED BY <1>2, <1>3, <1>4, <1>5 DEF IInv

LEMMA RefreshIInv ==
  ASSUME IInv, NEW h \in Handlers, Refresh(h)
  PROVE  IInv'
<1>1. TypeOK'
  BY DEF IInv, TypeOK, Refresh, Becomes
<1>2. AppliedOnce' /\ BusyHandlersHaveEvents' /\ ClaimsAreExclusive' /\ WritesFollowSteps'
  BY DEF IInv, TypeOK, Refresh, Becomes, AppliedOnce, BusyHandlersHaveEvents, ClaimsAreExclusive, WritesFollowSteps
<1>3. ClaimedIsAccountedFor'
  BY DEF IInv, TypeOK, Refresh, Becomes, ClaimedIsAccountedFor, Accounted, Reflects
<1> QED BY <1>1, <1>2, <1>3 DEF IInv

LEMMA MarkIInv ==
  ASSUME IInv, NEW h \in Handlers, Mark(h)
  PROVE  IInv'
<1>0. on[h] \in Relevant /\ on[h] \in Events
  BY BusyHandler DEF Mark
<1>1. ledger[on[h]] = "claimed" /\ (step[h] = "mark" => writes[on[h]] = 1)
  BY DEF Mark, IInv, ClaimsAreExclusive, WritesFollowSteps
<1>2. TypeOK'
  BY <1>0 DEF IInv, TypeOK, Mark, Becomes
<1>3. AppliedOnce' /\ BusyHandlersHaveEvents'
  BY <1>0, <1>1 DEF IInv, TypeOK, Mark, Becomes, AppliedOnce, BusyHandlersHaveEvents
<1>4. ClaimsAreExclusive' /\ WritesFollowSteps'
  BY <1>0, <1>1 DEF IInv, TypeOK, Mark, Becomes, ClaimsAreExclusive, WritesFollowSteps, BusyHandlersHaveEvents
<1>5. ClaimedIsAccountedFor'
  BY <1>0, <1>1 DEF IInv, TypeOK, Mark, Becomes, ClaimedIsAccountedFor, Accounted, Reflects, BusyHandlersHaveEvents
<1> QED BY <1>2, <1>3, <1>4, <1>5 DEF IInv

LEMMA AnswerIInv ==
  ASSUME IInv, NEW h \in Handlers, Answer(h)
  PROVE  IInv'
<1>0. on[h] \in Relevant /\ on[h] \in Events
  BY BusyHandler DEF Answer
<1>1. TypeOK'
  BY <1>0 DEF IInv, TypeOK, Answer, Becomes
<1>2. AppliedOnce' /\ BusyHandlersHaveEvents' /\ ClaimsAreExclusive' /\ WritesFollowSteps'
  BY <1>0 DEF IInv, TypeOK, Answer, Becomes, AppliedOnce, BusyHandlersHaveEvents, ClaimsAreExclusive, WritesFollowSteps
<1>3. ClaimedIsAccountedFor'
  BY <1>0 DEF IInv, TypeOK, Answer, Becomes, ClaimedIsAccountedFor, Accounted, Reflects
<1> QED BY <1>1, <1>2, <1>3 DEF IInv

LEMMA FailIInv ==
  ASSUME IInv, NEW h \in Handlers, Raise(h) \/ Crash(h)
  PROVE  IInv'
<1>0. on[h] \in Relevant /\ on[h] \in Events
  BY BusyHandler DEF Raise, Crash
<1>1. TypeOK'
  BY <1>0, BillingAssumption DEF IInv, TypeOK, Raise, Crash, Becomes, Loses
<1>2. AppliedOnce' /\ BusyHandlersHaveEvents' /\ ClaimsAreExclusive' /\ WritesFollowSteps'
  BY <1>0 DEF IInv, TypeOK, Raise, Crash, Becomes, AppliedOnce, BusyHandlersHaveEvents, ClaimsAreExclusive, WritesFollowSteps
<1>3. ClaimedIsAccountedFor'
  BY <1>0 DEF IInv, TypeOK, Raise, Crash, Becomes, Loses, ClaimedIsAccountedFor, Accounted, Reflects
<1> QED BY <1>1, <1>2, <1>3 DEF IInv

LEMMA IdleIInv ==
  ASSUME IInv, MapPrices \/ UNCHANGED vars
  PROVE  IInv'
<1>1. TypeOK'
  BY DEF IInv, TypeOK, MapPrices, vars
<1>2. AppliedOnce' /\ BusyHandlersHaveEvents' /\ ClaimsAreExclusive' /\ WritesFollowSteps'
  BY DEF IInv, MapPrices, vars, AppliedOnce, BusyHandlersHaveEvents, ClaimsAreExclusive, WritesFollowSteps
<1>3. ClaimedIsAccountedFor'
  BY DEF IInv, MapPrices, vars, ClaimedIsAccountedFor, Accounted, Reflects
<1> QED BY <1>1, <1>2, <1>3 DEF IInv

LEMMA NextIInv == IInv /\ [Next]_vars => IInv'
<1> SUFFICES ASSUME IInv, [Next]_vars PROVE IInv'
  OBVIOUS
<1>1. CASE MapPrices \/ UNCHANGED vars
  BY <1>1, IdleIInv
<1>2. ASSUME NEW h \in Handlers, NEW e \in Events, Deliver(h, e) PROVE IInv'
  BY <1>2, DeliverIInv
<1>3. ASSUME NEW h \in Handlers, Claim(h) \/ Resolve(h) \/ Write(h) PROVE IInv'
  BY <1>3, ClaimIInv, ResolveIInv, WriteIInv
<1>4. ASSUME NEW h \in Handlers, Refresh(h) \/ Mark(h) \/ Answer(h) PROVE IInv'
  BY <1>4, RefreshIInv, MarkIInv, AnswerIInv
<1>5. ASSUME NEW h \in Handlers, Raise(h) \/ Crash(h) PROVE IInv'
  BY <1>5, FailIInv
<1> QED BY <1>1, <1>2, <1>3, <1>4, <1>5 DEF Next

LEMMA Invariant == Spec => []IInv
BY InitIInv, NextIInv, PTL DEF Spec

-----------------------------------------------------------------------------
\* An event that was answered 200 is lost only if its handler failed between
\* claiming and writing it (billing_service.py:182-206).
THEOREM NothingElseIsLost == Spec => []AckedIsAccountedFor
<1>1. IInv => AckedIsAccountedFor
  BY DEF IInv, AckedIsAccountedFor, ClaimedIsAccountedFor, Accounted, Reflects, Working
<1> QED BY <1>1, Invariant, PTL

\* An event is written to the row once or never, however often it is delivered
\* and whatever fails, and the ledger says applied only of one that was
\* ("exactly once", billing_service.py:169).
THEOREM AppliedAtMostOnce == Spec => []BillingInv
<1>1. IInv => TypeOK /\ AppliedOnce
  BY DEF IInv
<1>2. Spec => []AckedIsAccountedFor
  BY NothingElseIsLost
<1> QED BY <1>1, <1>2, Invariant, PTL DEF BillingInv

\* Whatever the order of deliveries, the row never goes back in time
\* (repositories/billing.py:49-70).
THEOREM RowMovesForward == Spec => AccessNeverMovesBack
<1>1. IInv /\ [Next]_vars => [RowOnlyNewer]_vars
  BY RowMoves
<1> QED BY <1>1, Invariant, PTL DEF Spec, AccessNeverMovesBack

\* Sets of numbers have a least member.
LEMMA LeastNumber ==
  ASSUME NEW S, S \subseteq Nat, S # {}
  PROVE  \E m \in S : \A y \in S : m <= y
<1> DEFINE R == OpToRel(<, Nat)
<1>1. IsWellFoundedOn(R, Nat)
  BY NatLessThanWellFounded
<1> HIDE DEF R
<1>2. \E x \in S : \A y \in S : ~ (<<y, x>> \in R)
  BY <1>1, WFMin
<1>3. \E x \in S : \A y \in S : ~ (y < x)
  BY <1>2 DEF OpToRel, R
<1> QED BY <1>3

-----------------------------------------------------------------------------
\* Pricing.  What the request of o would leave in the cents, as things stand.
Leaves(o) ==
  IF draft[o].new THEN draft[o].fields.cents
  ELSE IF draft[o].fields.cents = Omitted THEN offer.cents ELSE draft[o].fields.cents

Drafts ==
  [at : {"check", "save"}, new : BOOLEAN, fields : Patches, cents : Amounts \cup {NoRow},
   warned : SUBSET Warnings, asked : BOOLEAN, late : BOOLEAN]

\* A plan is created with every column and patched when there is one.
DraftShape(d) ==
  d # NoDraft =>
    /\ d \in Drafts
    /\ d.new => d.fields \in Columns
    /\ ~d.new => offer # NoRow

\* A request that nothing has overtaken compares, or has compared, the price it
\* names with the cents it is to leave.
DraftIsTold(o) ==
  draft[o] # NoDraft /\ ~draft[o].late =>
    /\ draft[o].at = "check" => draft[o].cents = Leaves(o)
    /\ draft[o].at = "save" /\ draft[o].asked /\ draft[o].fields.price \in PriceIds =>
         \/ "unverified" \in draft[o].warned
         \/ Faults(draft[o].fields.price, Leaves(o)) \subseteq draft[o].warned

Told ==
  offer # NoRow /\ excuse = {} =>
    Faults(offer.price, offer.cents) \subseteq told \/ "unverified" \in told

PricingIndInv ==
  /\ offer \in Columns \cup {NoRow} /\ told \subseteq Warnings
  /\ excuse \subseteq {"cents only", "unasked", "overtaken", "archived since", "seeded"}
  /\ DOMAIN draft = Operators
  /\ \A o \in Operators : DraftShape(draft[o]) /\ DraftIsTold(o)
  /\ Told

LEMMA PricingIndInvImplies == PricingIndInv => MispricedPlansAreReported
BY DEF PricingIndInv, MispricedPlansAreReported, PricingTypeOK, DraftShape, Drafts, Told

LEMMA FaultsAreWarnings == \A p, c : Faults(p, c) \subseteq Warnings
BY DEF Faults, Warnings

LEMMA ColumnsArePatches == \A f \in Columns : f \in Patches /\ f.price # Omitted
BY PricingAssumption DEF Columns, Patches

LEMMA InitPricingInd == PricingInit => PricingIndInv
<1> SUFFICES ASSUME PricingInit PROVE PricingIndInv
  OBVIOUS
<1>1. offer \in Columns \cup {NoRow} /\ (offer # NoRow => excuse = {"seeded"})
  BY DEF PricingInit, Columns
<1> QED BY <1>1 DEF PricingInit, PricingIndInv, DraftShape, DraftIsTold, Told

LEMMA BeginsInd ==
  ASSUME PricingIndInv, NEW o \in Operators, NEW f \in Patches, NEW new \in BOOLEAN, NEW cents,
         Begins(o, f, new, cents), new => f \in Columns, ~new => offer # NoRow,
         cents = IF new THEN f.cents ELSE IF f.cents = Omitted THEN offer.cents ELSE f.cents
  PROVE  PricingIndInv'
<1>1. PICK d : d = [at |-> "check", new |-> new, fields |-> f, cents |-> cents, warned |-> {},
                    asked |-> FALSE, late |-> FALSE]
  OBVIOUS
<1>2. draft' = [draft EXCEPT ![o] = d] /\ UNCHANGED <<offer, archived, told, excuse>>
  BY <1>1 DEF Begins
<1>3. cents \in Amounts \cup {NoRow}
  <2>1. f.cents \in Amounts \cup {NoRow, Omitted}
    BY DEF Patches
  <2>2. new => f.cents \in Amounts \cup {NoRow}
    BY DEF Columns
  <2>3. ~new => offer.cents \in Amounts \cup {NoRow}
    BY DEF PricingIndInv, Columns
  <2> QED BY <2>1, <2>2, <2>3
<1>4. d \in Drafts
  BY <1>1, <1>3 DEF Drafts
<1>5. /\ d.at = "check" /\ d.new = new /\ d.fields = f /\ d.cents = cents /\ d.late = FALSE
  BY <1>1
<1>6. DOMAIN draft' = Operators /\ draft'[o] = d /\ \A p \in Operators \ {o} : draft'[p] = draft[p]
  BY <1>2 DEF PricingIndInv
<1>7. DraftShape(d)
  BY <1>4, <1>5 DEF DraftShape
<1>8. DraftShape(draft[o])' /\ DraftIsTold(o)'
  BY <1>2, <1>5, <1>6, <1>7 DEF DraftShape, DraftIsTold, Leaves
<1>9. ASSUME NEW p \in Operators \ {o}
      PROVE  DraftShape(draft[p])' /\ DraftIsTold(p)'
  <2>1. DraftShape(draft[p]) /\ DraftIsTold(p) /\ draft'[p] = draft[p]
    BY <1>6 DEF PricingIndInv
  <2>2. Leaves(p)' = Leaves(p) /\ \A a, b : Faults(a, b)' = Faults(a, b)
    BY <1>2, <2>1 DEF Leaves, Faults
  <2>3. DraftIsTold(p)'
    BY <2>1, <2>2 DEF DraftIsTold
  <2> QED BY <1>2, <2>1, <2>3 DEF DraftShape
<1>10. Told'
  BY <1>2 DEF PricingIndInv, Told, Faults
<1> QED BY <1>2, <1>6, <1>8, <1>9, <1>10 DEF PricingIndInv

LEMMA BeginCreateInd == ASSUME PricingIndInv, NEW o \in Operators, BeginCreate(o) PROVE PricingIndInv'
<1>1. PICK f \in Columns : Begins(o, f, TRUE, f.cents)
  BY DEF BeginCreate
<1> QED BY <1>1, BeginsInd, ColumnsArePatches

LEMMA BeginPatchInd == ASSUME PricingIndInv, NEW o \in Operators, BeginPatch(o) PROVE PricingIndInv'
<1>1. PICK f \in Patches : Begins(o, f, FALSE, IF f.cents = Omitted THEN offer.cents ELSE f.cents)
  BY DEF BeginPatch
<1>2. offer # NoRow
  BY DEF BeginPatch
<1> QED BY <1>1, <1>2, BeginsInd

LEMMA ValidateInd == ASSUME PricingIndInv, NEW o \in Operators, Validate(o) PROVE PricingIndInv'
<1> DEFINE d == draft[o]
<1>1. d.at = "check" /\ UNCHANGED <<offer, archived, told, excuse>>
  BY DEF Validate
<1>2. PICK did, warned :
        /\ draft' = [draft EXCEPT ![o].at = "save", ![o].cents = NoRow,
                                  ![o].asked = did, ![o].warned = warned]
        /\ \/ did = FALSE /\ warned = {}
           \/ did = TRUE /\ d.fields.price \in {Omitted, NoRow} /\ warned = {}
           \/ /\ did = TRUE /\ d.fields.price \in PriceIds
              /\ warned = {"unverified"} \/ warned = Faults(d.fields.price, d.cents)
  BY DEF Validate
<1>3. d # NoDraft /\ DraftShape(d) /\ DraftIsTold(o) /\ d \in Drafts
  <2>1. d # NoDraft
    <3>1. NoDraft.at = "none"
      BY DEF NoDraft
    <3> QED BY <1>1, <3>1
  <2>2. DraftShape(d) /\ DraftIsTold(o)
    BY DEF PricingIndInv
  <2> QED BY <2>1, <2>2 DEF DraftShape
<1>4. PICK e : e = [d EXCEPT !.at = "save", !.cents = NoRow, !.asked = did, !.warned = warned]
  OBVIOUS
<1>5. warned \in SUBSET Warnings /\ did \in BOOLEAN
  BY <1>2, FaultsAreWarnings DEF Warnings
<1>6. PICK b \in Drafts : b = d
  BY <1>3
<1>7. /\ e \in Drafts /\ e.at = "save" /\ e.new = d.new /\ e.fields = d.fields /\ e.asked = did
      /\ e.warned = warned /\ e.late = d.late
  <2>1. e = [b EXCEPT !.at = "save", !.cents = NoRow, !.asked = did, !.warned = warned]
    BY <1>4, <1>6
  <2>2. /\ e \in Drafts /\ e.at = "save" /\ e.new = b.new /\ e.fields = b.fields /\ e.asked = did
        /\ e.warned = warned /\ e.late = b.late
    BY <1>5, <2>1 DEF Drafts
  <2> QED BY <1>6, <2>2
<1>8. DOMAIN draft' = Operators /\ draft'[o] = e /\ \A p \in Operators \ {o} : draft'[p] = draft[p]
  BY <1>2, <1>4 DEF PricingIndInv
<1>9. DraftShape(draft[o])'
  BY <1>1, <1>3, <1>7, <1>8 DEF DraftShape
<1>10. DraftIsTold(o)'
  <2> SUFFICES ASSUME ~e.late, e.asked, e.fields.price \in PriceIds
               PROVE  \/ "unverified" \in e.warned
                      \/ Faults(e.fields.price, Leaves(o)') \subseteq e.warned
    BY <1>1, <1>7, <1>8 DEF DraftIsTold, Faults
  <2>1. warned = {"unverified"} \/ warned = Faults(d.fields.price, d.cents)
    BY <1>2, <1>7, PricingAssumption
  <2>2. d.cents = Leaves(o) /\ Leaves(o)' = Leaves(o)
    BY <1>1, <1>3, <1>7, <1>8 DEF DraftIsTold, Leaves
  <2> QED BY <1>7, <2>1, <2>2
<1>11. ASSUME NEW p \in Operators \ {o}
      PROVE  DraftShape(draft[p])' /\ DraftIsTold(p)'
  <2>1. DraftShape(draft[p]) /\ DraftIsTold(p) /\ draft'[p] = draft[p]
    BY <1>8 DEF PricingIndInv
  <2> QED BY <1>1, <2>1 DEF DraftShape, DraftIsTold, Leaves, Faults
<1>12. Told'
  BY <1>1 DEF PricingIndInv, Told, Faults
<1> QED BY <1>1, <1>8, <1>9, <1>10, <1>11, <1>12 DEF PricingIndInv

\* Whoever is late keeps what it had.
LEMMA LateDraft ==
  ASSUME NEW d \in Drafts, NEW l, l = [d EXCEPT !.late = TRUE]
  PROVE  l \in Drafts /\ l.late = TRUE /\ l.new = d.new /\ l.fields = d.fields
BY DEF Drafts

LEMMA SaveInd == ASSUME PricingIndInv, NEW o \in Operators, Save(o) PROVE PricingIndInv'
<1> DEFINE d == draft[o]
           without == [draft EXCEPT ![o] = NoDraft]
<1>1. d.at = "save" /\ UNCHANGED archived
  BY DEF Save
<1>2. d # NoDraft /\ DraftShape(d) /\ DraftIsTold(o) /\ d \in Drafts
  <2>1. d # NoDraft
    <3>1. NoDraft.at = "none"
      BY DEF NoDraft
    <3> QED BY <1>1, <3>1
  <2>2. DraftShape(d) /\ DraftIsTold(o)
    BY DEF PricingIndInv
  <2> QED BY <2>1, <2>2 DEF DraftShape
<1>3. /\ DOMAIN draft' = Operators /\ draft'[o] = NoDraft
      /\ \A p \in Operators \ {o} :
           draft'[p] = IF draft[p] = NoDraft THEN NoDraft ELSE [draft[p] EXCEPT !.late = TRUE]
  <2>1. draft' = Overtaken(without, o)
    BY DEF Save
  <2>2. DOMAIN without = Operators /\ without[o] = NoDraft /\ \A p \in Operators \ {o} : without[p] = draft[p]
    BY DEF PricingIndInv
  <2> HIDE DEF without
  <2> QED BY <2>1, <2>2 DEF Overtaken
<1>4. /\ offer' \in Columns \cup {NoRow} /\ (offer # NoRow => offer' # NoRow)
      /\ told' \subseteq Warnings
      /\ excuse' \subseteq {"cents only", "unasked", "overtaken", "archived since", "seeded"}
      /\ Told'
  <2>1. CASE d.new /\ offer # NoRow
    BY <1>1, <2>1 DEF Save, PricingIndInv, Told, Faults
  <2>2. CASE ~(d.new /\ offer # NoRow)
    <3>1. PICK f : f = d.fields
      OBVIOUS
    <3>2. /\ offer' = IF d.new THEN f
                      ELSE [price |-> IF f.price # Omitted THEN f.price ELSE offer.price,
                            cents |-> IF f.cents = Omitted THEN offer.cents ELSE f.cents]
          /\ told' = IF f.price # Omitted THEN d.warned ELSE told
          /\ excuse' = IF f.price = Omitted THEN excuse \cup {"cents only"}
                       ELSE (IF d.asked THEN {} ELSE {"unasked"})
                            \cup (IF d.late THEN {"overtaken"} ELSE {})
      BY <2>2, <3>1 DEF Save
    <3>3. f \in Patches /\ (d.new => f \in Columns) /\ (~d.new => offer \in Columns)
          /\ d.warned \subseteq Warnings
      BY <1>2, <3>1 DEF DraftShape, Drafts, PricingIndInv
    <3>4. offer' \in Columns
      <4>1. CASE d.new
        BY <3>2, <3>3, <4>1
      <4>2. CASE ~d.new
        <5>1. PICK p, c : /\ p = IF f.price # Omitted THEN f.price ELSE offer.price
                          /\ c = IF f.cents = Omitted THEN offer.cents ELSE f.cents
          OBVIOUS
        <5>2. p \in PriceIds \cup {NoRow} /\ c \in Amounts \cup {NoRow}
          BY <3>3, <4>2, <5>1 DEF Patches, Columns
        <5>3. offer' = [price |-> p, cents |-> c]
          BY <3>2, <4>2, <5>1
        <5> QED BY <5>2, <5>3 DEF Columns
      <4> QED BY <4>1, <4>2
    <3>5. offer' # NoRow
      BY <3>4, PricingAssumption
    <3>6. /\ told' \subseteq Warnings
          /\ excuse' \subseteq {"cents only", "unasked", "overtaken", "archived since", "seeded"}
      BY <3>2, <3>3 DEF PricingIndInv
    <3>7. Told'
      <4> SUFFICES ASSUME excuse' = {}
                   PROVE  Faults(offer.price, offer.cents)' \subseteq told' \/ "unverified" \in told'
        BY DEF Told
      <4>1. f.price # Omitted /\ d.asked /\ ~d.late /\ told' = d.warned
        BY <3>2
      <4>2. f.price \in PriceIds \cup {NoRow}
        BY <3>3, <4>1 DEF Patches
      <4>3. offer'.price = f.price
        BY <3>2, <4>1
      <4>4. offer'.cents = Leaves(o)
        BY <3>1, <3>2 DEF Leaves
      <4>5. Faults(offer.price, offer.cents)' = Faults(f.price, Leaves(o))
        BY <1>1, <4>3, <4>4 DEF Faults
      <4>6. CASE f.price = NoRow
        BY <4>5, <4>6 DEF Faults
      <4>7. CASE f.price \in PriceIds
        BY <1>1, <1>2, <3>1, <4>1, <4>5, <4>7 DEF DraftIsTold
      <4> QED BY <4>2, <4>6, <4>7
    <3> QED BY <3>4, <3>5, <3>6, <3>7
  <2> QED BY <2>1, <2>2
<1>5. ASSUME NEW p \in Operators
      PROVE  DraftShape(draft[p])' /\ DraftIsTold(p)'
  <2>1. CASE p = o \/ draft[p] = NoDraft
    BY <1>3, <2>1 DEF DraftShape, DraftIsTold
  <2>2. CASE p # o /\ draft[p] # NoDraft
    <3>1. DraftShape(draft[p]) /\ draft'[p] = [draft[p] EXCEPT !.late = TRUE]
      BY <1>3, <2>2 DEF PricingIndInv
    <3>2. draft[p] \in Drafts
      BY <2>2, <3>1 DEF DraftShape
    <3>3. /\ draft'[p] \in Drafts /\ draft'[p].late = TRUE
          /\ draft'[p].new = draft[p].new /\ draft'[p].fields = draft[p].fields
      BY <3>1, <3>2, LateDraft
    <3> QED BY <1>4, <2>2, <3>1, <3>3 DEF DraftShape, DraftIsTold
  <2> QED BY <2>1, <2>2
<1> QED BY <1>3, <1>4, <1>5 DEF PricingIndInv

LEMMA SaveDiesInd == ASSUME PricingIndInv, NEW o \in Operators, SaveDies(o) PROVE PricingIndInv'
<1>1. /\ DOMAIN draft' = Operators /\ draft'[o] = NoDraft
      /\ \A p \in Operators \ {o} : draft'[p] = draft[p]
      /\ UNCHANGED <<offer, archived, told, excuse>>
  BY DEF SaveDies, PricingIndInv
<1>2. ASSUME NEW p \in Operators
      PROVE  DraftShape(draft[p])' /\ DraftIsTold(p)'
  <2>1. DraftShape(draft[p]) /\ DraftIsTold(p)
    BY DEF PricingIndInv
  <2> QED BY <1>1, <2>1 DEF DraftShape, DraftIsTold, Leaves, Faults
<1>3. Told'
  BY <1>1 DEF PricingIndInv, Told, Faults
<1> QED BY <1>1, <1>2, <1>3 DEF PricingIndInv

LEMMA ArchiveInd == ASSUME PricingIndInv, NEW q \in PriceIds, Archive(q) PROVE PricingIndInv'
<1>1. /\ DOMAIN draft' = Operators /\ archived' = archived \cup {q} /\ UNCHANGED <<offer, told>>
      /\ \A p \in Operators :
           draft'[p] = IF draft[p] = NoDraft THEN NoDraft ELSE [draft[p] EXCEPT !.late = TRUE]
      /\ excuse' = IF offer # NoRow /\ offer.price = q THEN excuse \cup {"archived since"} ELSE excuse
  BY DEF Archive
<1>2. ASSUME NEW p \in Operators
      PROVE  DraftShape(draft[p])' /\ DraftIsTold(p)'
  <2>1. CASE draft[p] = NoDraft
    BY <1>1, <2>1 DEF DraftShape, DraftIsTold
  <2>2. CASE draft[p] # NoDraft
    <3>1. DraftShape(draft[p]) /\ draft'[p] = [draft[p] EXCEPT !.late = TRUE]
      BY <1>1, <2>2 DEF PricingIndInv
    <3>2. draft[p] \in Drafts
      BY <2>2, <3>1 DEF DraftShape
    <3>3. /\ draft'[p] \in Drafts /\ draft'[p].late = TRUE
          /\ draft'[p].new = draft[p].new /\ draft'[p].fields = draft[p].fields
      BY <3>1, <3>2, LateDraft
    <3> QED BY <1>1, <2>2, <3>1, <3>3 DEF DraftShape, DraftIsTold
  <2> QED BY <2>1, <2>2
<1>3. Told'
  <2> SUFFICES ASSUME offer # NoRow, excuse' = {}
               PROVE  Faults(offer.price, offer.cents)' \subseteq told \/ "unverified" \in told
    BY <1>1 DEF Told
  <2>1. offer.price # q /\ excuse = {}
    BY <1>1
  <2>2. Faults(offer.price, offer.cents)' = Faults(offer.price, offer.cents)
    BY <1>1, <2>1 DEF Faults
  <2> QED BY <2>1, <2>2 DEF PricingIndInv, Told
<1> QED BY <1>1, <1>2, <1>3 DEF PricingIndInv

LEMMA NextPricingInd == PricingIndInv /\ [PricingNext]_pricingVars => PricingIndInv'
<1> SUFFICES ASSUME PricingIndInv, [PricingNext]_pricingVars PROVE PricingIndInv'
  OBVIOUS
<1>1. CASE UNCHANGED pricingVars
  <2>1. UNCHANGED <<offer, archived, told, excuse, draft>>
    BY <1>1 DEF pricingVars
  <2>2. \A a, b : Faults(a, b)' = Faults(a, b)
    BY <2>1 DEF Faults
  <2>3. Told'
    BY <2>1, <2>2 DEF PricingIndInv, Told
  <2>4. ASSUME NEW o \in Operators PROVE DraftShape(draft[o])' /\ DraftIsTold(o)'
    <3>1. DraftShape(draft[o]) /\ DraftIsTold(o) /\ Leaves(o)' = Leaves(o)
      BY <2>1 DEF PricingIndInv, Leaves
    <3>2. DraftIsTold(o)'
      BY <2>1, <2>2, <3>1 DEF DraftIsTold
    <3> QED BY <2>1, <3>1, <3>2 DEF DraftShape
  <2> QED BY <2>1, <2>3, <2>4 DEF PricingIndInv
<1>2. CASE PricingNext
  BY <1>2, ArchiveInd, BeginCreateInd, BeginPatchInd, ValidateInd, SaveInd, SaveDiesInd
  DEF PricingNext
<1> QED BY <1>1, <1>2

LEMMA PricingInvariant == PricingSpec => []PricingIndInv
BY InitPricingInd, NextPricingInd, PTL DEF PricingSpec
-----------------------------------------------------------------------------
\* The catalogue.
OrderRecs == [left : SUBSET Keys, rows : Rows, writes : BOOLEAN]
Stages == {"idle", "upsert", "list", "drop"} \cup Replacing \cup Computing

\* A request knows what it was asked for as long as it is under way; it says of
\* itself that it writes, if it does; and what it is to insert is what it names.
OpShape(t) ==
  /\ stage[t] # "idle" => order[t] \in OrderRecs
  /\ stage[t] \in {"delete", "insert", "list", "upsert", "drop"} => order[t].writes
  /\ stage[t] = "delete" => order[t].left = Named(order[t].rows)

CatShapes ==
  /\ CatalogueTypeOK
  /\ order \in [Operators -> {NoRow} \cup OrderRecs]
  /\ \A t \in Operators : OpShape(t)
  /\ pending => stripe \in [price : Prices, live : BOOLEAN]

\* A plan that keeps its price id is found by it.
Heard ==
  stripe # NoRow /\ ~repriced =>
    /\ PlanForPrice
    /\ ~pending => subscription = stripe.live

\* A change that t has made, and that the cached snapshot may not show, will
\* drop or replace it.
Owed(t) ==
  \/ stage[t] \in {"insert", "list", "drop"}
  \/ stage[t] \in Computing /\ order[t].writes

\* What a request that nothing has overtaken has read is what there is.
Fresh(t) ==
  t \notin overtaken =>
    /\ stage[t] \in {"catalog", "overrides", "set"} => (reading[t].granted <=> subscription = TRUE)
    /\ stage[t] = "overrides" => reading[t].caps = limits
    /\ stage[t] = "set" => reading[t].caps = Overlay(limits, override)

\* Who has never subscribed has no ceilings anywhere.
NeverSubscribed ==
  subscription = NoRow =>
    /\ snapshot # NoRow => snapshot = Nothing
    /\ \A t \in Operators : ~reading[t].granted

CeilingsFollow ==
  /\ NeverSubscribed
  /\ \A t \in Operators : Fresh(t)
  /\ ~raced /\ snapshot # NoRow => snapshot = Current \/ \E t \in Operators : Owed(t)

Inserting == {t \in Operators : stage[t] = "insert"}
Alike == \A b, c \in asked : Named(b) = Named(c)

\* What t has still to insert comes after what it has inserted.
InsertShape(t) ==
  /\ order[t].rows \in asked
  /\ order[t].left # {} /\ order[t].left \subseteq Named(order[t].rows)
  /\ \A i \in Named(order[t].rows) \ order[t].left, j \in order[t].left : i < j

\* The limits are what t has inserted; a row is where t is going to insert one.
AsWritten(t) ==
  \A k \in Keys : limits[k] = IF k \in order[t].left THEN NoRow ELSE order[t].rows[k]
Doomed(t) == \E k \in order[t].left : limits[k] # NoRow

\* Of several replacements that name the same keys at most one can insert the
\* last of them.
Whole ==
  /\ \A t \in Inserting : InsertShape(t)
  /\ ~broken /\ Alike =>
       /\ Inserting = {} => limits \in asked
       /\ \A t \in Inserting : Inserting # {t} \/ Doomed(t) \/ AsWritten(t)

CatIndInv == CatShapes /\ Heard /\ CeilingsFollow /\ Whole

-----------------------------------------------------------------------------
LEMMA Unnamed == NoRows \in Rows /\ Nothing \in Claims /\ Named(NoRows) = {} /\ ~Nothing.granted
BY DEF NoRows, Rows, Nothing, Claims, Named

LEMMA BodyIs ==
  ASSUME NEW b \in Bodies
  PROVE  Body(b) \in Rows /\ Named(Body(b)) = DOMAIN b /\ DOMAIN b \subseteq Keys
<1>1. DOMAIN b \subseteq Keys /\ \A k \in DOMAIN b : b[k] \in Ceilings /\ b[k] # NoRow
  BY CatalogueAssumption
<1>2. Body(b) \in Rows
  BY <1>1 DEF Body, Rows
<1>3. \A k \in Keys : Body(b)[k] = IF k \in DOMAIN b THEN b[k] ELSE NoRow
  BY DEF Body
<1>4. Named(Body(b)) = DOMAIN b
  BY <1>1, <1>3 DEF Named
<1> QED BY <1>1, <1>2, <1>4

LEMMA OverlayIs == ASSUME NEW r \in Rows, NEW o \in Rows PROVE Overlay(r, o) \in Rows
BY DEF Overlay, Rows

LEMMA CatIndInvImplies == CatIndInv /\ PricingIndInv => CatalogueInv
<1> SUFFICES ASSUME CatIndInv, PricingIndInv PROVE CatalogueInv
  OBVIOUS
<1>1. LimitsAreWhole
  <2>1. (\A t \in Operators : stage[t] # "insert") => Inserting = {}
    BY DEF Inserting
  <2> QED BY <2>1 DEF CatIndInv, Whole, Alike, LimitsAreWhole
<1>2. CeilingsAreCurrent
  <2>1. Idle => \A t \in Operators : ~Owed(t)
    BY DEF Idle, Owed, Computing
  <2> QED BY <2>1 DEF CatIndInv, CeilingsFollow, CeilingsAreCurrent
<1>3. SubscribersAreHeard
  BY DEF CatIndInv, Heard, SubscribersAreHeard
<1> QED BY <1>1, <1>2, <1>3, PricingIndInvImplies DEF CatalogueInv, CatIndInv, CatShapes

LEMMA InitCatInd == CatalogueInit => CatIndInv
<1> SUFFICES ASSUME CatalogueInit PROVE CatIndInv
  OBVIOUS
<1>1. CatShapes
  <2>1. CatalogueTypeOK
    <3>1. 0 \in 0 .. MoveMax
      BY CatalogueAssumption
    <3>2. reading \in [Operators -> Claims] /\ stage \in [Operators -> {"idle"}]
      BY Unnamed DEF CatalogueInit
    <3>3. asked \subseteq Rows /\ limits \in Rows /\ override \in Rows
      BY Unnamed DEF CatalogueInit
    <3>4. \A t \in Operators : order[t] = NoRow
      BY DEF CatalogueInit
    <3> QED BY <3>1, <3>2, <3>3, <3>4 DEF CatalogueInit, CatalogueTypeOK
  <2>2. order \in [Operators -> {NoRow} \cup OrderRecs] /\ \A t \in Operators : stage[t] = "idle"
    BY DEF CatalogueInit
  <2>3. ~pending
    BY DEF CatalogueInit
  <2> QED BY <2>1, <2>2, <2>3 DEF CatShapes, OpShape
<1>2. Heard
  BY DEF CatalogueInit, Heard
<1>3. CeilingsFollow
  BY Unnamed DEF CatalogueInit, CeilingsFollow, NeverSubscribed, Fresh
<1>4. Whole
  <2>1. Inserting = {} /\ limits \in asked
    BY DEF CatalogueInit, Inserting
  <2> QED BY <2>1 DEF Whole
<1> QED BY <1>1, <1>2, <1>3, <1>4 DEF CatIndInv

-----------------------------------------------------------------------------
\* The requests' own state, when t takes the step s with the order w.
LEMMA StageTurns ==
  ASSUME CatShapes, NEW t \in Operators, NEW s \in Stages, NEW w \in {NoRow} \cup OrderRecs,
         stage' = [stage EXCEPT ![t] = s], order' = [order EXCEPT ![t] = w],
         s # "idle" => w \in OrderRecs,
         s \in {"delete", "insert", "list", "upsert", "drop"} => w.writes,
         s = "delete" => w.left = Named(w.rows)
  PROVE  /\ stage' \in [Operators -> Stages] /\ order' \in [Operators -> {NoRow} \cup OrderRecs]
         /\ \A o \in Operators : OpShape(o)'
         /\ stage'[t] = s /\ order'[t] = w
         /\ \A o \in Operators \ {t} : stage'[o] = stage[o] /\ order'[o] = order[o]
<1>1. stage \in [Operators -> Stages] /\ order \in [Operators -> {NoRow} \cup OrderRecs]
  BY DEF CatShapes, CatalogueTypeOK, Stages
<1>2. /\ stage' \in [Operators -> Stages] /\ order' \in [Operators -> {NoRow} \cup OrderRecs]
      /\ stage'[t] = s /\ order'[t] = w
      /\ \A o \in Operators \ {t} : stage'[o] = stage[o] /\ order'[o] = order[o]
  BY <1>1
<1>3. ASSUME NEW o \in Operators PROVE OpShape(o)'
  <2>1. CASE o = t
    BY <1>2, <2>1 DEF OpShape, Named
  <2>2. CASE o # t
    BY <1>2, <2>2 DEF CatShapes, OpShape, Named
  <2> QED BY <2>1, <2>2
<1> QED BY <1>2, <1>3

\* One that keeps the order it has.
LEMMA StageGoesOn ==
  ASSUME CatShapes, NEW t \in Operators, NEW s \in Stages,
         stage' = [stage EXCEPT ![t] = s], order' = order, stage[t] # "idle", s # "idle", s # "delete",
         s \in {"insert", "list", "upsert", "drop"} =>
           stage[t] \in {"delete", "insert", "list", "upsert", "drop"}
  PROVE  /\ stage' \in [Operators -> Stages] /\ order' \in [Operators -> {NoRow} \cup OrderRecs]
         /\ \A o \in Operators : OpShape(o)'
         /\ stage'[t] = s /\ order[t] \in OrderRecs
         /\ \A o \in Operators \ {t} : stage'[o] = stage[o]
<1>1. order \in [Operators -> {NoRow} \cup OrderRecs] /\ OpShape(t)
  BY DEF CatShapes
<1>2. order[t] \in OrderRecs /\ order' = [order EXCEPT ![t] = order[t]]
  BY <1>1 DEF OpShape
<1>3. s \in {"insert", "list", "upsert", "drop"} => order[t].writes
  BY <1>1 DEF OpShape
<1> QED BY <1>2, <1>3, StageTurns

LEMMA HeardStays ==
  ASSUME Heard, UNCHANGED <<plan, stripe, pending, repriced, subscription>>
  PROVE  Heard'
BY DEF Heard, PlanForPrice

\* What has been written or is being written does not depend on the others.
LEMMA WholeStays ==
  ASSUME CatShapes, Whole, UNCHANGED <<limits, asked, broken>>,
         \A o \in Operators : stage'[o] = "insert" <=> stage[o] = "insert",
         \A o \in Operators : stage[o] = "insert" => order'[o] = order[o]
  PROVE  Whole'
<1>1. Inserting' = Inserting /\ \A o \in Inserting : order'[o] = order[o]
  BY DEF Inserting
<1>2. Alike' = Alike
  BY DEF Alike, Named
<1>3. \A o \in Inserting : InsertShape(o)' <=> InsertShape(o)
  BY <1>1 DEF InsertShape, Named
<1>4. \A o \in Inserting : (Doomed(o)' <=> Doomed(o)) /\ (AsWritten(o)' <=> AsWritten(o))
  BY <1>1 DEF Doomed, AsWritten
<1> QED BY <1>1, <1>2, <1>3, <1>4 DEF Whole

\* A table changes: whoever computes is overtaken, and t owes a drop.
LEMMA TablesMove ==
  ASSUME CatShapes, CeilingsFollow, NEW t \in Operators, stage[t] \notin Computing, Overtakes,
         \A o \in Operators \ {t} : stage'[o] = stage[o],
         stage'[t] \notin {"catalog", "overrides", "set"}, Owed(t)',
         UNCHANGED <<snapshot, raced, reading>>, subscription' = NoRow => subscription = NoRow
  PROVE  CeilingsFollow'
<1>1. NeverSubscribed'
  BY DEF CeilingsFollow, NeverSubscribed
<1>2. ASSUME NEW o \in Operators PROVE Fresh(o)'
  <2>1. CASE stage'[o] \notin {"catalog", "overrides", "set"}
    BY <2>1 DEF Fresh
  <2>2. CASE stage'[o] \in {"catalog", "overrides", "set"}
    <3>1. o # t /\ stage[o] \in Computing
      BY <2>2 DEF Computing
    <3>2. o \in overtaken'
      BY <3>1 DEF Overtakes
    <3> QED BY <3>2 DEF Fresh
  <2> QED BY <2>1, <2>2
<1> QED BY <1>1, <1>2 DEF CeilingsFollow

\* No table changes and the cache does not: t begins, goes on or ends.
LEMMA CeilingsStay ==
  ASSUME CatShapes, CeilingsFollow, NEW t \in Operators,
         \A o \in Operators \ {t} : stage'[o] = stage[o] /\ order'[o] = order[o]
                                      /\ reading'[o] = reading[o],
         stage'[t] \notin {"catalog", "overrides", "set"},
         reading'[t] = reading[t] \/ ~reading'[t].granted,
         UNCHANGED <<limits, override, subscription, snapshot>>, raced => raced',
         overtaken \ {t} \subseteq overtaken',
         Owed(t) /\ ~raced' /\ snapshot # NoRow => Owed(t)' \/ snapshot = Current
  PROVE  CeilingsFollow'
<1>1. NeverSubscribed'
  BY DEF CeilingsFollow, NeverSubscribed
<1>2. ASSUME NEW o \in Operators PROVE Fresh(o)'
  <2>1. CASE o = t
    BY <2>1 DEF Fresh
  <2>2. CASE o # t
    BY <2>2 DEF CeilingsFollow, Fresh, Overlay
  <2> QED BY <2>1, <2>2
<1>3. Current' = Current /\ \A o \in Operators \ {t} : Owed(o)' <=> Owed(o)
  BY DEF Current, Overlay, Owed
<1> QED BY <1>1, <1>2, <1>3 DEF CeilingsFollow
-----------------------------------------------------------------------------
\* The requests that are made of the plan and of Stripe: no request is under way
\* in them, and no ceiling changes.
LEMMA PlanMoves ==
  ASSUME CatIndInv, CatShapes', Heard',
         UNCHANGED <<limits, override, subscription, snapshot, stage, order, computation, replacements>>
  PROVE  CatIndInv'
<1>1. CeilingsFollow'
  BY DEF CatIndInv, CeilingsFollow, NeverSubscribed, Fresh, Owed, Current, Overlay, computation
<1>2. Whole'
  BY WholeStays DEF CatIndInv, replacements
<1> QED BY <1>1, <1>2 DEF CatIndInv

LEMMA CreatePlanInd == ASSUME CatIndInv, CreatePlan PROVE CatIndInv'
<1>1. /\ plan = NoRow /\ plan' \in Plan
      /\ UNCHANGED <<limits, override, subscription, stripe, pending, repriced, snapshot, stage,
                     order, computation, replacements, moves>>
  BY DEF CreatePlan, customer
<1>2. CatShapes'
  BY <1>1 DEF CatIndInv, CatShapes, CatalogueTypeOK, OpShape, computation, replacements
<1>3. Heard'
  BY <1>1 DEF CatIndInv, Heard, PlanForPrice
<1> QED BY <1>1, <1>2, <1>3, PlanMoves

LEMMA UpdatePlanInd == ASSUME CatIndInv, UpdatePlan PROVE CatIndInv'
<1>1. /\ plan # NoRow /\ moves' = moves + 1 /\ moves < MoveMax
      /\ repriced' = (repriced \/ (stripe # NoRow /\ plan'.price # plan.price))
      /\ UNCHANGED <<limits, override, subscription, stripe, pending, snapshot, stage, order,
                     computation, replacements>>
  BY DEF UpdatePlan, Moves
<1>2. PICK old \in Plan : old = plan
  BY <1>1 DEF CatIndInv, CatShapes, CatalogueTypeOK
<1>3. plan' \in Plan
  <2>1. CASE \E p \in Prices \cup {NoRow} : plan' = [old EXCEPT !.price = p]
    BY <1>2, <2>1 DEF Plan
  <2>2. CASE \E a \in BOOLEAN : plan' = [old EXCEPT !.active = a]
    BY <1>2, <2>2 DEF Plan
  <2> QED BY <1>2, <2>1, <2>2 DEF UpdatePlan
<1>4. moves' \in 0 .. MoveMax
  BY <1>1, CatalogueAssumption DEF CatIndInv, CatShapes, CatalogueTypeOK
<1>5. CatShapes'
  BY <1>1, <1>3, <1>4 DEF CatIndInv, CatShapes, CatalogueTypeOK, OpShape, computation, replacements
<1>6. Heard'
  BY <1>1, <1>3, CatalogueAssumption DEF CatIndInv, Heard, PlanForPrice
<1> QED BY <1>1, <1>5, <1>6, PlanMoves

LEMMA CheckoutInd == ASSUME CatIndInv, Checkout PROVE CatIndInv'
<1>1. /\ plan # NoRow /\ plan.price # NoRow /\ moves' = moves + 1 /\ moves < MoveMax
      /\ pending' = TRUE /\ stripe' = [price |-> plan.price, live |-> TRUE]
      /\ UNCHANGED <<plan, limits, override, subscription, repriced, snapshot, stage, order,
                     computation, replacements>>
  BY DEF Checkout, Moves, Offered, tables
<1>2. plan.price \in Prices
  BY <1>1 DEF CatIndInv, CatShapes, CatalogueTypeOK, Plan
<1>3. moves' \in 0 .. MoveMax
  BY <1>1, CatalogueAssumption DEF CatIndInv, CatShapes, CatalogueTypeOK
<1>4. stripe' \in [price : Prices, live : BOOLEAN]
  BY <1>1, <1>2
<1>5. CatShapes'
  BY <1>1, <1>3, <1>4 DEF CatIndInv, CatShapes, CatalogueTypeOK, OpShape, computation, replacements
<1>6. Heard'
  BY <1>1 DEF Heard, PlanForPrice
<1> QED BY <1>1, <1>5, <1>6, PlanMoves

LEMMA LapseInd == ASSUME CatIndInv, Lapse PROVE CatIndInv'
<1>1. /\ stripe # NoRow /\ moves' = moves + 1 /\ moves < MoveMax /\ pending' = TRUE
      /\ stripe' = [stripe EXCEPT !.live = FALSE]
      /\ UNCHANGED <<plan, limits, override, subscription, repriced, snapshot, stage, order,
                     computation, replacements>>
  BY DEF Lapse, Moves, tables
<1>2. PICK old \in [price : Prices, live : BOOLEAN] : old = stripe
  BY <1>1 DEF CatIndInv, CatShapes, CatalogueTypeOK
<1>3. moves' \in 0 .. MoveMax
  BY <1>1, CatalogueAssumption DEF CatIndInv, CatShapes, CatalogueTypeOK
<1>4. stripe' \in [price : Prices, live : BOOLEAN] /\ stripe'.price = stripe.price
  <2>1. stripe' = [old EXCEPT !.live = FALSE]
    BY <1>1, <1>2
  <2> QED BY <1>2, <2>1
<1>5. CatShapes'
  BY <1>1, <1>3, <1>4 DEF CatIndInv, CatShapes, CatalogueTypeOK, OpShape, computation, replacements
<1>6. Heard'
  BY <1>1, <1>4 DEF CatIndInv, Heard, PlanForPrice
<1> QED BY <1>1, <1>5, <1>6, PlanMoves

LEMMA ExpireSnapshotInd == ASSUME CatIndInv, ExpireSnapshot PROVE CatIndInv'
<1>1. /\ snapshot' = NoRow /\ raced' = FALSE
      /\ UNCHANGED <<plan, limits, override, subscription, stripe, pending, repriced, stage, order,
                     reading, overtaken, asked, broken, moves>>
  BY DEF ExpireSnapshot, Cached, tables, customer, replacements
<1>2. CatShapes'
  BY <1>1 DEF CatIndInv, CatShapes, CatalogueTypeOK, OpShape
<1>3. Heard'
  BY <1>1, HeardStays DEF CatIndInv
<1>4. CeilingsFollow'
  BY <1>1 DEF CatIndInv, CeilingsFollow, NeverSubscribed, Fresh, Overlay
<1>5. Whole'
  BY <1>1, WholeStays DEF CatIndInv
<1> QED BY <1>2, <1>3, <1>4, <1>5 DEF CatIndInv

-----------------------------------------------------------------------------
LEMMA WebhookInd == ASSUME CatIndInv, NEW t \in Operators, Webhook(t) PROVE CatIndInv'
<1>1. /\ CatShapes /\ Heard /\ CeilingsFollow /\ Whole /\ stage[t] = "idle" /\ pending
      /\ pending' = FALSE
      /\ UNCHANGED <<plan, limits, override, stripe, repriced, snapshot, reading, raced, asked,
                     broken, moves>>
  BY DEF Webhook, CatIndInv, replacements
<1>2. CASE PlanForPrice
  <2> DEFINE w == [left |-> {}, rows |-> NoRows, writes |-> TRUE]
  <2>1. /\ subscription' = stripe.live /\ stage' = [stage EXCEPT ![t] = "subs"]
        /\ order' = [order EXCEPT ![t] = w] /\ Overtakes
    BY <1>2 DEF Webhook, GoesTo, Orders
  <2>2. w \in OrderRecs /\ w.writes
    BY Unnamed DEF OrderRecs
  <2> HIDE DEF w
  <2>3. /\ stage' \in [Operators -> Stages] /\ order' \in [Operators -> {NoRow} \cup OrderRecs]
        /\ \A o \in Operators : OpShape(o)'
        /\ stage'[t] = "subs" /\ order'[t] = w
        /\ \A o \in Operators \ {t} : stage'[o] = stage[o] /\ order'[o] = order[o]
    <3>1. "subs" \in Stages
      BY DEF Stages, Computing
    <3> QED BY <1>1, <2>1, <2>2, <3>1, StageTurns
  <2>4. subscription' \in BOOLEAN /\ subscription' # NoRow
    BY <1>1, <1>2, <2>1, CatalogueAssumption DEF CatShapes, CatalogueTypeOK
  <2>5. overtaken' \subseteq Operators
    BY <1>1, <2>1 DEF Overtakes, CatShapes, CatalogueTypeOK
  <2>6. CatShapes'
    BY <1>1, <2>3, <2>4, <2>5 DEF CatShapes, CatalogueTypeOK, Stages, OrderRecs
  <2>7. Heard'
    BY <1>1, <1>2, <2>1 DEF Heard, PlanForPrice
  <2>8. CeilingsFollow'
    <3>1. Owed(t)' /\ stage[t] \notin Computing
      BY <1>1, <2>2, <2>3 DEF Owed, Computing
    <3> QED BY <1>1, <2>1, <2>3, <2>4, <3>1, TablesMove
  <2>9. Whole'
    BY <1>1, <2>3, WholeStays
  <2> QED BY <2>6, <2>7, <2>8, <2>9 DEF CatIndInv
<1>3. CASE ~PlanForPrice
  <2>1. UNCHANGED <<subscription, stage, order, overtaken>>
    BY <1>3 DEF Webhook
  <2>2. CatShapes'
    BY <1>1, <2>1 DEF CatShapes, CatalogueTypeOK, OpShape
  <2>3. Heard'
    BY <1>1, <1>3, <2>1 DEF Heard, PlanForPrice
  <2>4. CeilingsFollow'
    BY <1>1, <2>1 DEF CeilingsFollow, NeverSubscribed, Fresh, Owed, Current, Overlay
  <2>5. Whole'
    BY <1>1, <2>1, WholeStays
  <2> QED BY <2>2, <2>3, <2>4, <2>5 DEF CatIndInv
<1> QED BY <1>2, <1>3
-----------------------------------------------------------------------------
LEMMA SetLimitsInd == ASSUME CatIndInv, NEW t \in Operators, SetLimits(t) PROVE CatIndInv'
<1>1. /\ CatShapes /\ Heard /\ CeilingsFollow /\ Whole /\ stage[t] = "idle"
      /\ stage' = [stage EXCEPT ![t] = "delete"] /\ moves < MoveMax /\ moves' = moves + 1
      /\ UNCHANGED <<plan, limits, override, subscription, stripe, pending, repriced, snapshot,
                     reading, overtaken, raced, asked, broken>>
  BY DEF SetLimits, CatIndInv, GoesTo, Moves, tables, customer, computation, replacements
<1>2. PICK b \in Bodies : order' = [order EXCEPT ![t] = [left |-> DOMAIN b, rows |-> Body(b), writes |-> TRUE]]
  BY DEF SetLimits, Orders
<1>3. PICK w : w = [left |-> DOMAIN b, rows |-> Body(b), writes |-> TRUE]
  OBVIOUS
<1>4. w \in OrderRecs /\ w.writes /\ w.left = Named(w.rows)
  BY <1>3, BodyIs DEF OrderRecs
<1>5. /\ stage' \in [Operators -> Stages] /\ order' \in [Operators -> {NoRow} \cup OrderRecs]
      /\ \A o \in Operators : OpShape(o)'
      /\ stage'[t] = "delete" /\ order'[t] = w
      /\ \A o \in Operators \ {t} : stage'[o] = stage[o] /\ order'[o] = order[o]
  <2>1. "delete" \in Stages
    BY DEF Stages, Replacing
  <2> QED BY <1>1, <1>2, <1>3, <1>4, <2>1, StageTurns
<1>6. moves' \in 0 .. MoveMax
  BY <1>1, CatalogueAssumption DEF CatShapes, CatalogueTypeOK
<1>7. CatShapes'
  BY <1>1, <1>5, <1>6 DEF CatShapes, CatalogueTypeOK, Stages, OrderRecs
<1>8. Heard'
  BY <1>1, HeardStays
<1>9. CeilingsFollow'
  <2>1. ~Owed(t)
    BY <1>1 DEF Owed, Computing
  <2> QED BY <1>1, <1>5, <2>1, CeilingsStay
<1>10. Whole'
  BY <1>1, <1>5, WholeStays
<1> QED BY <1>7, <1>8, <1>9, <1>10 DEF CatIndInv

LEMMA SetOverrideInd == ASSUME CatIndInv, NEW t \in Operators, SetOverride(t) PROVE CatIndInv'
<1>1. /\ CatShapes /\ Heard /\ CeilingsFollow /\ Whole /\ stage[t] = "idle"
      /\ stage' = [stage EXCEPT ![t] = "upsert"] /\ moves < MoveMax /\ moves' = moves + 1
      /\ UNCHANGED <<plan, limits, override, subscription, stripe, pending, repriced, snapshot,
                     reading, overtaken, raced, asked, broken>>
  BY DEF SetOverride, CatIndInv, GoesTo, Moves, tables, customer, computation, replacements
<1>2. PICK k \in Keys, v \in Ceilings :
        order' = [order EXCEPT ![t] = [left |-> {k}, rows |-> [NoRows EXCEPT ![k] = v], writes |-> TRUE]]
  BY DEF SetOverride, Orders
<1>3. PICK w : w = [left |-> {k}, rows |-> [NoRows EXCEPT ![k] = v], writes |-> TRUE]
  OBVIOUS
<1>4. w \in OrderRecs /\ w.writes
  <2>1. [NoRows EXCEPT ![k] = v] \in Rows
    BY DEF NoRows, Rows
  <2> QED BY <1>3, <2>1 DEF OrderRecs
<1>5. /\ stage' \in [Operators -> Stages] /\ order' \in [Operators -> {NoRow} \cup OrderRecs]
      /\ \A o \in Operators : OpShape(o)'
      /\ stage'[t] = "upsert" /\ order'[t] = w
      /\ \A o \in Operators \ {t} : stage'[o] = stage[o] /\ order'[o] = order[o]
  <2>1. "upsert" \in Stages
    BY DEF Stages
  <2> QED BY <1>1, <1>2, <1>3, <1>4, <2>1, StageTurns
<1>6. moves' \in 0 .. MoveMax
  BY <1>1, CatalogueAssumption DEF CatShapes, CatalogueTypeOK
<1>7. CatShapes'
  BY <1>1, <1>5, <1>6 DEF CatShapes, CatalogueTypeOK, Stages, OrderRecs
<1>8. Heard'
  BY <1>1, HeardStays
<1>9. CeilingsFollow'
  <2>1. ~Owed(t)
    BY <1>1 DEF Owed, Computing
  <2> QED BY <1>1, <1>5, <2>1, CeilingsStay
<1>10. Whole'
  BY <1>1, <1>5, WholeStays
<1> QED BY <1>7, <1>8, <1>9, <1>10 DEF CatIndInv

LEMMA RecomputeInd == ASSUME CatIndInv, NEW t \in Operators, Recompute(t) PROVE CatIndInv'
<1>1. /\ CatShapes /\ Heard /\ CeilingsFollow /\ Whole /\ stage[t] = "idle" /\ snapshot = NoRow
      /\ stage' = [stage EXCEPT ![t] = "subs"]
      /\ order' = [order EXCEPT ![t] = [left |-> {}, rows |-> NoRows, writes |-> FALSE]]
      /\ UNCHANGED <<plan, limits, override, subscription, stripe, pending, repriced, snapshot,
                     reading, overtaken, raced, asked, broken, moves>>
  BY DEF Recompute, CatIndInv, GoesTo, tables, customer, computation, replacements
<1>2. PICK w : w = [left |-> {}, rows |-> NoRows, writes |-> FALSE]
  OBVIOUS
<1>3. w \in OrderRecs
  BY <1>2, Unnamed DEF OrderRecs
<1>4. /\ stage' \in [Operators -> Stages] /\ order' \in [Operators -> {NoRow} \cup OrderRecs]
      /\ \A o \in Operators : OpShape(o)'
      /\ stage'[t] = "subs" /\ order'[t] = w
      /\ \A o \in Operators \ {t} : stage'[o] = stage[o] /\ order'[o] = order[o]
  <2>1. "subs" \in Stages
    BY DEF Stages, Computing
  <2> QED BY <1>1, <1>2, <1>3, <2>1, StageTurns
<1>5. CatShapes'
  BY <1>1, <1>4 DEF CatShapes, CatalogueTypeOK, Stages, OrderRecs
<1>6. Heard'
  BY <1>1, HeardStays
<1>7. CeilingsFollow'
  <2>1. ~Owed(t)
    BY <1>1 DEF Owed, Computing
  <2> QED BY <1>1, <1>4, <2>1, CeilingsStay
<1>8. Whole'
  BY <1>1, <1>4, WholeStays
<1> QED BY <1>5, <1>6, <1>7, <1>8 DEF CatIndInv

-----------------------------------------------------------------------------
LEMMA UpsertInd == ASSUME CatIndInv, NEW t \in Operators, Upsert(t) PROVE CatIndInv'
<1>1. /\ CatShapes /\ Heard /\ CeilingsFollow /\ Whole /\ stage[t] = "upsert" /\ Overtakes
      /\ override' = Overlay(override, order[t].rows)
      /\ order' = [order EXCEPT ![t].rows = NoRows] /\ stage' = [stage EXCEPT ![t] = "drop"]
      /\ UNCHANGED <<plan, limits, subscription, stripe, pending, repriced, snapshot, reading, raced,
                     asked, broken, moves>>
  BY DEF Upsert, CatIndInv, GoesTo, customer, replacements
<1>2. PICK v \in OrderRecs : v = order[t] /\ v.writes
  BY <1>1 DEF CatShapes, OpShape
<1>3. PICK w : w = [v EXCEPT !.rows = NoRows]
  OBVIOUS
<1>4. w \in OrderRecs /\ w.writes
  BY <1>2, <1>3, Unnamed DEF OrderRecs
<1>5. /\ stage' \in [Operators -> Stages] /\ order' \in [Operators -> {NoRow} \cup OrderRecs]
      /\ \A o \in Operators : OpShape(o)'
      /\ stage'[t] = "drop" /\ order'[t] = w
      /\ \A o \in Operators \ {t} : stage'[o] = stage[o] /\ order'[o] = order[o]
  <2>1. "drop" \in Stages
    BY DEF Stages
  <2>2. order' = [order EXCEPT ![t] = w]
    BY <1>1, <1>2, <1>3
  <2> QED BY <1>1, <1>4, <2>1, <2>2, StageTurns
<1>6. override' \in Rows /\ overtaken' \subseteq Operators
  <2>1. override \in Rows /\ v.rows \in Rows /\ overtaken \subseteq Operators
    BY <1>1 DEF CatShapes, CatalogueTypeOK, OrderRecs
  <2> QED BY <1>1, <1>2, <2>1, OverlayIs DEF Overtakes
<1>7. CatShapes'
  BY <1>1, <1>5, <1>6 DEF CatShapes, CatalogueTypeOK, Stages, OrderRecs
<1>8. Heard'
  BY <1>1, HeardStays
<1>9. CeilingsFollow'
  <2>1. Owed(t)' /\ stage[t] \notin Computing
    BY <1>1, <1>5 DEF Owed, Computing
  <2> QED BY <1>1, <1>5, <2>1, TablesMove
<1>10. Whole'
  BY <1>1, <1>5, WholeStays
<1> QED BY <1>7, <1>8, <1>9, <1>10 DEF CatIndInv

LEMMA ClearOverrideInd == ASSUME CatIndInv, NEW t \in Operators, ClearOverride(t) PROVE CatIndInv'
<1>1. /\ CatShapes /\ Heard /\ CeilingsFollow /\ Whole /\ stage[t] = "idle" /\ Overtakes
      /\ stage' = [stage EXCEPT ![t] = "drop"] /\ moves < MoveMax /\ moves' = moves + 1
      /\ UNCHANGED <<plan, limits, subscription, stripe, pending, repriced, snapshot, reading, raced,
                     asked, broken>>
  BY DEF ClearOverride, CatIndInv, GoesTo, Moves, customer, replacements
<1>2. PICK k \in Keys :
        /\ override' = [override EXCEPT ![k] = NoRow]
        /\ order' = [order EXCEPT ![t] = [left |-> {k}, rows |-> NoRows, writes |-> TRUE]]
  BY DEF ClearOverride, Orders
<1>3. PICK w : w = [left |-> {k}, rows |-> NoRows, writes |-> TRUE]
  OBVIOUS
<1>4. w \in OrderRecs /\ w.writes
  BY <1>3, Unnamed DEF OrderRecs
<1>5. /\ stage' \in [Operators -> Stages] /\ order' \in [Operators -> {NoRow} \cup OrderRecs]
      /\ \A o \in Operators : OpShape(o)'
      /\ stage'[t] = "drop" /\ order'[t] = w
      /\ \A o \in Operators \ {t} : stage'[o] = stage[o] /\ order'[o] = order[o]
  <2>1. "drop" \in Stages
    BY DEF Stages
  <2> QED BY <1>1, <1>2, <1>3, <1>4, <2>1, StageTurns
<1>6. override' \in Rows /\ overtaken' \subseteq Operators
  <2>1. override \in Rows /\ overtaken \subseteq Operators
    BY <1>1 DEF CatShapes, CatalogueTypeOK
  <2>2. override' \in Rows
    BY <1>2, <2>1 DEF Rows
  <2> QED BY <1>1, <2>1, <2>2 DEF Overtakes
<1>7. moves' \in 0 .. MoveMax
  BY <1>1, CatalogueAssumption DEF CatShapes, CatalogueTypeOK
<1>8. CatShapes'
  BY <1>1, <1>5, <1>6, <1>7 DEF CatShapes, CatalogueTypeOK, Stages, OrderRecs
<1>9. Heard'
  BY <1>1, HeardStays
<1>10. CeilingsFollow'
  <2>1. Owed(t)' /\ stage[t] \notin Computing
    BY <1>1, <1>5 DEF Owed, Computing
  <2> QED BY <1>1, <1>5, <2>1, TablesMove
<1>11. Whole'
  BY <1>1, <1>5, WholeStays
<1> QED BY <1>8, <1>9, <1>10, <1>11 DEF CatIndInv

\* The plan's subscribers are found by their rows: there is none exactly when
\* no snapshot can have a ceiling.
LEMMA ListTenantsInd == ASSUME CatIndInv, NEW t \in Operators, ListTenants(t) PROVE CatIndInv'
<1>1. /\ CatShapes /\ Heard /\ CeilingsFollow /\ Whole /\ stage[t] = "list"
      /\ UNCHANGED <<plan, limits, override, subscription, stripe, pending, repriced, snapshot,
                     reading, overtaken, raced, asked, broken, moves>>
  BY DEF ListTenants, CatIndInv, tables, customer, computation, replacements
<1>2. Heard'
  BY <1>1, HeardStays
<1>3. CASE subscription = NoRow
  <2>1. stage' = [stage EXCEPT ![t] = "idle"] /\ order' = [order EXCEPT ![t] = NoRow]
    BY <1>3 DEF ListTenants, GoesTo
  <2>2. /\ stage' \in [Operators -> Stages] /\ order' \in [Operators -> {NoRow} \cup OrderRecs]
        /\ \A o \in Operators : OpShape(o)'
        /\ stage'[t] = "idle" /\ order'[t] = NoRow
        /\ \A o \in Operators \ {t} : stage'[o] = stage[o] /\ order'[o] = order[o]
    <3>1. "idle" \in Stages
      BY DEF Stages
    <3> QED BY <1>1, <2>1, <3>1, StageTurns
  <2>3. CatShapes'
    BY <1>1, <2>2 DEF CatShapes, CatalogueTypeOK, Stages, OrderRecs
  <2>4. CeilingsFollow'
    <3>1. snapshot # NoRow => snapshot = Current
      BY <1>1, <1>3, CatalogueAssumption DEF CeilingsFollow, NeverSubscribed, Current
    <3> QED BY <1>1, <2>2, <3>1, CeilingsStay
  <2>5. Whole'
    BY <1>1, <2>2, WholeStays
  <2> QED BY <1>2, <2>3, <2>4, <2>5 DEF CatIndInv
<1>4. CASE subscription # NoRow
  <2>1. stage' = [stage EXCEPT ![t] = "drop"] /\ order' = order
    BY <1>4 DEF ListTenants, GoesTo
  <2>2. /\ stage' \in [Operators -> Stages] /\ order' \in [Operators -> {NoRow} \cup OrderRecs]
        /\ \A o \in Operators : OpShape(o)'
        /\ stage'[t] = "drop"
        /\ \A o \in Operators \ {t} : stage'[o] = stage[o]
    <3>1. "drop" \in Stages
      BY DEF Stages
    <3> QED BY <1>1, <2>1, <3>1, StageGoesOn
  <2>3. CatShapes'
    BY <1>1, <2>2 DEF CatShapes, CatalogueTypeOK, Stages, OrderRecs
  <2>4. CeilingsFollow'
    <3>1. Owed(t)'
      BY <2>2 DEF Owed
    <3> QED BY <1>1, <2>1, <2>2, <3>1, CeilingsStay
  <2>5. Whole'
    BY <1>1, <2>1, <2>2, WholeStays
  <2> QED BY <1>2, <2>3, <2>4, <2>5 DEF CatIndInv
<1> QED BY <1>3, <1>4

LEMMA DropSnapshotInd == ASSUME CatIndInv, NEW t \in Operators, DropSnapshot(t) PROVE CatIndInv'
<1>1. /\ CatShapes /\ Heard /\ CeilingsFollow /\ Whole /\ stage[t] = "drop"
      /\ snapshot' = NoRow /\ raced' = FALSE
      /\ UNCHANGED <<plan, limits, override, subscription, stripe, pending, repriced,
                     reading, overtaken, asked, broken, moves>>
  BY DEF DropSnapshot, CatIndInv, Cached, tables, customer, replacements
<1>2. /\ stage' \in [Operators -> Stages] /\ order' \in [Operators -> {NoRow} \cup OrderRecs]
      /\ \A o \in Operators : OpShape(o)'
      /\ stage'[t] \in {"idle", "subs"}
      /\ \A o \in Operators \ {t} : stage'[o] = stage[o] /\ order'[o] = order[o]
  <2>1. CASE order[t].left = {}
    <3>1. stage' = [stage EXCEPT ![t] = "idle"] /\ order' = [order EXCEPT ![t] = NoRow]
      BY <2>1 DEF DropSnapshot, GoesTo
    <3>2. "idle" \in Stages
      BY DEF Stages
    <3> QED BY <1>1, <3>1, <3>2, StageTurns
  <2>2. CASE order[t].left # {}
    <3>1. stage' = [stage EXCEPT ![t] = "subs"] /\ order' = order
      BY <2>2 DEF DropSnapshot, GoesTo
    <3>2. "subs" \in Stages
      BY DEF Stages, Computing
    <3> QED BY <1>1, <3>1, <3>2, StageGoesOn
  <2> QED BY <2>1, <2>2
<1>3. CatShapes'
  BY <1>1, <1>2 DEF CatShapes, CatalogueTypeOK, Stages, OrderRecs
<1>4. Heard'
  BY <1>1, HeardStays
<1>5. CeilingsFollow'
  <2>1. \A o \in Operators : Fresh(o)'
    BY <1>1, <1>2 DEF CeilingsFollow, Fresh, Overlay
  <2> QED BY <1>1, <2>1 DEF CeilingsFollow, NeverSubscribed
<1>6. Whole'
  BY <1>1, <1>2, WholeStays
<1> QED BY <1>3, <1>4, <1>5, <1>6 DEF CatIndInv
-----------------------------------------------------------------------------
LEMMA ReadTablesInd == ASSUME CatIndInv, NEW t \in Operators, ReadTables(t) PROVE CatIndInv'
<1>1. /\ CatShapes /\ Heard /\ CeilingsFollow /\ Whole
      /\ UNCHANGED <<plan, limits, override, subscription, stripe, pending, repriced, snapshot, order,
                     overtaken, raced, asked, broken, moves>>
  BY DEF ReadTables, CatIndInv, tables, customer, replacements
<1>2. PICK s, r :
        /\ stage' = [stage EXCEPT ![t] = s] /\ reading' = [reading EXCEPT ![t] = r]
        /\ \/ stage[t] = "subs" /\ s = "catalog" /\ r = [reading[t] EXCEPT !.granted = (subscription = TRUE)]
           \/ stage[t] = "catalog" /\ s = "overrides" /\ r = [reading[t] EXCEPT !.caps = limits]
           \/ /\ stage[t] = "overrides" /\ s = "set"
              /\ r = [reading[t] EXCEPT !.caps = Overlay(reading[t].caps, override)]
  BY DEF ReadTables, GoesTo
<1>3. PICK old \in Claims : old = reading[t]
  BY <1>1 DEF CatShapes, CatalogueTypeOK
<1>4. /\ stage' \in [Operators -> Stages] /\ order' \in [Operators -> {NoRow} \cup OrderRecs]
      /\ \A o \in Operators : OpShape(o)'
      /\ stage'[t] = s /\ order[t] \in OrderRecs
      /\ \A o \in Operators \ {t} : stage'[o] = stage[o]
  <2>1. s \in Stages /\ s \notin {"idle", "insert", "list", "upsert", "drop", "delete"} /\ stage[t] # "idle"
    BY <1>2 DEF Stages, Computing
  <2> QED BY <1>1, <1>2, <2>1, StageGoesOn
<1>5. /\ r \in Claims
      /\ stage[t] = "subs" => (r.granted <=> subscription = TRUE)
      /\ stage[t] = "catalog" => r.granted = old.granted /\ r.caps = limits
      /\ stage[t] = "overrides" => r.granted = old.granted /\ r.caps = Overlay(old.caps, override)
  <2>1. limits \in Rows /\ override \in Rows /\ old.caps \in Rows
    BY <1>1, <1>3 DEF CatShapes, CatalogueTypeOK, Claims
  <2>2. PICK g \in BOOLEAN : g <=> subscription = TRUE
    OBVIOUS
  <2>3. PICK c \in Rows : c = Overlay(old.caps, override)
    BY <2>1, OverlayIs
  <2>4. CASE stage[t] = "subs"
    <3>1. r = [old EXCEPT !.granted = (subscription = TRUE)]
      BY <1>2, <1>3, <2>4
    <3>2. r \in Claims /\ (r.granted <=> subscription = TRUE)
      BY <1>3, <3>1 DEF Claims
    <3> QED BY <2>4, <3>2
  <2>5. CASE stage[t] = "catalog"
    <3>1. r = [old EXCEPT !.caps = limits]
      BY <1>2, <1>3, <2>5
    <3> QED BY <2>1, <2>5, <3>1 DEF Claims
  <2>6. CASE stage[t] = "overrides"
    <3>1. r = [old EXCEPT !.caps = c]
      BY <1>2, <1>3, <2>3, <2>6
    <3>2. r \in Claims /\ r.granted = old.granted /\ r.caps = c
      BY <2>3, <3>1 DEF Claims
    <3> QED BY <2>3, <2>6, <3>2
  <2> QED BY <1>2, <2>4, <2>5, <2>6
<1>6. /\ reading' \in [Operators -> Claims] /\ reading'[t] = r
      /\ \A o \in Operators \ {t} : reading'[o] = reading[o]
  BY <1>1, <1>2, <1>5 DEF CatShapes, CatalogueTypeOK
<1>7. CatShapes'
  BY <1>1, <1>4, <1>6 DEF CatShapes, CatalogueTypeOK, Stages, OrderRecs
<1>8. Heard'
  BY <1>1, HeardStays
<1>9. CeilingsFollow'
  <2>1. NeverSubscribed'
    <3> SUFFICES ASSUME subscription = NoRow PROVE ~r.granted
      BY <1>1, <1>6 DEF CeilingsFollow, NeverSubscribed
    <3>1. ~old.granted /\ subscription # TRUE
      BY <1>1, <1>3, CatalogueAssumption DEF CeilingsFollow, NeverSubscribed
    <3> QED BY <1>2, <1>5, <3>1
  <2>2. \A o \in Operators \ {t} : Fresh(o)'
    BY <1>1, <1>4, <1>6 DEF CeilingsFollow, Fresh, Overlay
  <2>3. Fresh(t)'
    <3> SUFFICES ASSUME t \notin overtaken
                 PROVE  /\ s \in {"catalog", "overrides", "set"} => (r.granted <=> subscription = TRUE)
                        /\ s = "overrides" => r.caps = limits
                        /\ s = "set" => r.caps = Overlay(limits, override)
      BY <1>1, <1>4, <1>6 DEF Fresh, Overlay
    <3>1. /\ stage[t] \in {"catalog", "overrides", "set"} => (old.granted <=> subscription = TRUE)
          /\ stage[t] = "overrides" => old.caps = limits
      BY <1>1, <1>3 DEF CeilingsFollow, Fresh
    <3> QED BY <1>2, <1>5, <3>1
  <2>4. \A o \in Operators : Owed(o) => Owed(o)'
    BY <1>1, <1>2, <1>4 DEF Owed, Computing
  <2>5. Current' = Current
    BY <1>1 DEF Current, Overlay
  <2> QED BY <1>1, <2>1, <2>2, <2>3, <2>4, <2>5 DEF CeilingsFollow
<1>10. Whole'
  <2>1. s # "insert" /\ stage[t] # "insert"
    BY <1>2
  <2> QED BY <1>1, <1>4, <2>1, WholeStays
<1> QED BY <1>7, <1>8, <1>9, <1>10 DEF CatIndInv

\* What is cached by a request that nothing has overtaken is what there is.
LEMMA SetSnapshotInd == ASSUME CatIndInv, NEW t \in Operators, SetSnapshot(t) PROVE CatIndInv'
<1>1. /\ CatShapes /\ Heard /\ CeilingsFollow /\ Whole /\ stage[t] = "set"
      /\ snapshot' = (IF reading[t].granted THEN reading[t] ELSE Nothing)
      /\ raced' = (t \in overtaken) /\ overtaken' = overtaken \ {t}
      /\ stage' = [stage EXCEPT ![t] = "idle"] /\ order' = [order EXCEPT ![t] = NoRow]
      /\ reading' = [reading EXCEPT ![t] = Nothing]
      /\ UNCHANGED <<plan, limits, override, subscription, stripe, pending, repriced, asked, broken, moves>>
  BY DEF SetSnapshot, CatIndInv, Cached, GoesTo, tables, customer, replacements
<1>2. /\ stage' \in [Operators -> Stages] /\ order' \in [Operators -> {NoRow} \cup OrderRecs]
      /\ \A o \in Operators : OpShape(o)'
      /\ stage'[t] = "idle" /\ order'[t] = NoRow
      /\ \A o \in Operators \ {t} : stage'[o] = stage[o] /\ order'[o] = order[o]
  <2>1. "idle" \in Stages
    BY DEF Stages
  <2> QED BY <1>1, <2>1, StageTurns
<1>3. /\ reading' \in [Operators -> Claims] /\ reading'[t] = Nothing
      /\ \A o \in Operators \ {t} : reading'[o] = reading[o]
      /\ snapshot' \in Claims /\ reading[t] \in Claims
  BY <1>1, Unnamed DEF CatShapes, CatalogueTypeOK
<1>4. CatShapes'
  BY <1>1, <1>2, <1>3 DEF CatShapes, CatalogueTypeOK, Stages, OrderRecs
<1>5. Heard'
  BY <1>1, HeardStays
<1>6. CeilingsFollow'
  <2>1. NeverSubscribed'
    BY <1>1, <1>3, Unnamed DEF CeilingsFollow, NeverSubscribed
  <2>2. \A o \in Operators \ {t} : Fresh(o)'
    BY <1>1, <1>2, <1>3 DEF CeilingsFollow, Fresh, Overlay
  <2>3. Fresh(t)'
    BY <1>2 DEF Fresh
  <2>4. ~raced' => snapshot' = Current'
    <3> SUFFICES ASSUME t \notin overtaken PROVE snapshot' = Current
      BY <1>1 DEF Current, Overlay
    <3>1. (reading[t].granted <=> subscription = TRUE) /\ reading[t].caps = Overlay(limits, override)
      BY <1>1 DEF CeilingsFollow, Fresh
    <3>2. CASE subscription = TRUE
      <4>1. PICK r \in Claims : r = reading[t]
        BY <1>3
      <4>2. r = [granted |-> TRUE, caps |-> Overlay(limits, override)]
        BY <3>1, <3>2, <4>1 DEF Claims
      <4> QED BY <1>1, <3>1, <3>2, <4>1, <4>2 DEF Current
    <3>3. CASE subscription # TRUE
      BY <1>1, <3>1, <3>3 DEF Current
    <3> QED BY <3>2, <3>3
  <2> QED BY <2>1, <2>2, <2>3, <2>4 DEF CeilingsFollow
<1>7. Whole'
  BY <1>1, <1>2, WholeStays
<1> QED BY <1>4, <1>5, <1>6, <1>7 DEF CatIndInv

-----------------------------------------------------------------------------
\* A replacement that ends before its last row leaves the others broken.
LEMMA RequestEndsInd == ASSUME CatIndInv, NEW t \in Operators, RequestEnds(t) PROVE CatIndInv'
<1>1. /\ CatShapes /\ Heard /\ CeilingsFollow /\ Whole /\ stage[t] # "idle"
      /\ overtaken' = overtaken \ {t}
      /\ stage' = [stage EXCEPT ![t] = "idle"] /\ order' = [order EXCEPT ![t] = NoRow]
      /\ reading' = [reading EXCEPT ![t] = Nothing]
      /\ broken' = (broken \/ stage[t] = "insert")
      /\ raced' = (raced \/ (order[t].writes /\ stage[t] \notin {"delete", "upsert"}))
      /\ UNCHANGED <<plan, limits, override, subscription, stripe, pending, repriced, snapshot, asked, moves>>
  BY DEF RequestEnds, CatIndInv, GoesTo, tables, customer
<1>2. /\ stage' \in [Operators -> Stages] /\ order' \in [Operators -> {NoRow} \cup OrderRecs]
      /\ \A o \in Operators : OpShape(o)'
      /\ stage'[t] = "idle" /\ order'[t] = NoRow
      /\ \A o \in Operators \ {t} : stage'[o] = stage[o] /\ order'[o] = order[o]
  <2>1. "idle" \in Stages
    BY DEF Stages
  <2> QED BY <1>1, <2>1, StageTurns
<1>3. /\ reading' \in [Operators -> Claims] /\ ~reading'[t].granted
      /\ \A o \in Operators \ {t} : reading'[o] = reading[o]
  BY <1>1, Unnamed DEF CatShapes, CatalogueTypeOK
<1>4. broken' \in BOOLEAN /\ raced' \in BOOLEAN
  <2>1. order[t].writes \in BOOLEAN /\ raced \in BOOLEAN /\ broken \in BOOLEAN
    BY <1>1 DEF CatShapes, CatalogueTypeOK, OpShape, OrderRecs
  <2> QED BY <1>1, <2>1
<1>5. CatShapes'
  BY <1>1, <1>2, <1>3, <1>4 DEF CatShapes, CatalogueTypeOK, Stages, OrderRecs
<1>6. Heard'
  BY <1>1, HeardStays
<1>7. CeilingsFollow'
  <2>1. Owed(t) => raced'
    BY <1>1 DEF Owed, Computing, CatShapes, OpShape
  <2>2. overtaken \ {t} \subseteq overtaken' /\ (raced => raced')
    BY <1>1
  <2> QED BY <1>1, <1>2, <1>3, <2>1, <2>2, CeilingsStay
<1>8. Whole'
  <2>1. CASE stage[t] = "insert"
    <3>1. broken'
      BY <1>1, <2>1
    <3>2. \A o \in Inserting' : o \in Inserting /\ order'[o] = order[o]
      BY <1>2 DEF Inserting
    <3>3. \A o \in Inserting' : InsertShape(o)'
      BY <1>1, <3>2 DEF Whole, InsertShape, Named
    <3> QED BY <3>1, <3>3 DEF Whole
  <2>2. CASE stage[t] # "insert"
    <3>1. broken' = broken
      BY <1>1, <2>2 DEF CatShapes, CatalogueTypeOK
    <3> QED BY <1>1, <1>2, <2>2, <3>1, WholeStays
  <2> QED BY <2>1, <2>2
<1> QED BY <1>5, <1>6, <1>7, <1>8 DEF CatIndInv
-----------------------------------------------------------------------------
\* All rows go.  Whoever is still inserting meets t at the last row at the
\* latest, if they name the same keys.
LEMMA DeleteLimitsInd == ASSUME CatIndInv, NEW t \in Operators, DeleteLimits(t) PROVE CatIndInv'
<1> DEFINE body == order[t].rows
           s == IF order[t].left = {} THEN "list" ELSE "insert"
<1>1. /\ CatShapes /\ Heard /\ CeilingsFollow /\ Whole /\ stage[t] = "delete" /\ Overtakes
      /\ limits' = NoRows /\ stage' = [stage EXCEPT ![t] = s]
      /\ UNCHANGED <<plan, override, subscription, stripe, pending, repriced, snapshot, order, reading,
                     raced, moves>>
  BY DEF DeleteLimits, CatIndInv, GoesTo, AfterDelete, customer
<1>2. /\ asked' = (IF Inserting = {} THEN {body} ELSE asked \cup {body})
      /\ broken' = (broken /\ Inserting # {})
  <2>1. {o \in Operators \ {t} : stage[o] = "insert"} = Inserting
    BY <1>1 DEF Inserting
  <2> QED BY <2>1 DEF DeleteLimits
<1>3. order[t] \in OrderRecs /\ body \in Rows /\ order[t].left = Named(body)
  BY <1>1 DEF CatShapes, OpShape, OrderRecs
<1>4. /\ stage' \in [Operators -> Stages] /\ order' \in [Operators -> {NoRow} \cup OrderRecs]
      /\ \A o \in Operators : OpShape(o)'
      /\ stage'[t] = s
      /\ \A o \in Operators \ {t} : stage'[o] = stage[o]
  <2>1. s \in Stages /\ s \in {"list", "insert"}
    BY DEF Stages, Replacing
  <2> HIDE DEF s
  <2> QED BY <1>1, <2>1, StageGoesOn
<1>5. limits' \in Rows /\ asked' \subseteq Rows /\ broken' \in BOOLEAN /\ overtaken' \subseteq Operators
  BY <1>1, <1>2, <1>3, Unnamed DEF CatShapes, CatalogueTypeOK, Overtakes
<1>6. CatShapes'
  BY <1>1, <1>4, <1>5 DEF CatShapes, CatalogueTypeOK, Stages, OrderRecs
<1>7. Heard'
  BY <1>1, HeardStays
<1>8. CeilingsFollow'
  <2>1. Owed(t)' /\ stage[t] \notin Computing /\ stage'[t] \notin {"catalog", "overrides", "set"}
    BY <1>1, <1>4 DEF Owed, Computing
  <2> QED BY <1>1, <1>4, <2>1, TablesMove
<1>9. t \notin Inserting /\ Inserting' = IF s = "insert" THEN Inserting \cup {t} ELSE Inserting
  BY <1>1, <1>4 DEF Inserting
<1>10. body \in asked' /\ (Inserting # {} => asked \subseteq asked')
  BY <1>2
<1>11. \A k \in Keys : limits'[k] = NoRow
  BY <1>1 DEF NoRows
<1>12. Whole'
  <2>1. ASSUME NEW o \in Inserting' PROVE InsertShape(o)'
    <3>1. CASE o = t
      <4>1. order[t].left # {} /\ order'[t] = order[t]
        BY <1>1, <1>9, <2>1, <3>1
      <4> QED BY <1>3, <1>10, <3>1, <4>1 DEF InsertShape, Named
    <3>2. CASE o # t
      <4>1. o \in Inserting /\ InsertShape(o) /\ order'[o] = order[o]
        BY <1>1, <1>9, <2>1, <3>2 DEF Whole
      <4> QED BY <1>10, <4>1 DEF InsertShape, Named
    <3> QED BY <3>1, <3>2
  <2>2. ASSUME ~broken', Alike', Inserting' = {} PROVE limits' \in asked'
    <3>1. Named(body) = {} /\ limits' = NoRows
      BY <1>1, <1>3, <1>9, <2>2
    <3>2. body = NoRows
      BY <1>3, <3>1 DEF Named, NoRows, Rows
    <3> QED BY <1>10, <3>1, <3>2
  <2>3. ASSUME ~broken', Alike', NEW o \in Inserting'
        PROVE  (Inserting # {o})' \/ Doomed(o)' \/ AsWritten(o)'
    <3>1. CASE Inserting = {}
      <4>1. o = t /\ order'[t] = order[t]
        BY <1>1, <1>9, <2>3, <3>1
      <4>2. \A k \in Keys : k \notin Named(body) => body[k] = NoRow
        BY DEF Named
      <4>3. AsWritten(t)'
        BY <1>3, <1>11, <4>1, <4>2 DEF AsWritten
      <4> QED BY <4>1, <4>3
    <3>2. CASE Inserting # {}
      <4>1. PICK p \in Inserting : TRUE
        BY <3>2
      <4>2. InsertShape(p) /\ order[p].rows \in asked'
        BY <1>1, <1>10, <4>1 DEF Whole, InsertShape
      <4>3. Named(order[p].rows) = Named(body)
        <5>1. \A b, c \in asked' : Named(b) = Named(c)
          BY <2>3 DEF Alike, Named
        <5> QED BY <1>10, <4>2, <5>1
      <4>4. order[t].left # {}
        BY <1>3, <4>2, <4>3 DEF InsertShape
      <4>5. t \in Inserting' /\ p \in Inserting' /\ p # t
        BY <1>9, <4>1, <4>4
      <4> QED BY <4>5
    <3> QED BY <3>1, <3>2
  <2> QED BY <2>1, <2>2, <2>3 DEF Whole
<1> QED BY <1>6, <1>7, <1>8, <1>12 DEF CatIndInv

LEMMA LeastKey ==
  ASSUME NEW S, S \subseteq Keys, S # {}
  PROVE  Min(S) \in S /\ \A j \in S : Min(S) <= j
<1>1. \E m \in S : \A j \in S : m <= j
  <2>1. S \subseteq Nat
    BY CatalogueAssumption
  <2> QED BY <2>1, LeastNumber
<1> QED BY <1>1 DEF Min

\* A row that is there fails the request.  Otherwise it is inserted, and who
\* inserts the last one has written them all or leaves the others none to insert.
LEMMA InsertLimitInd == ASSUME CatIndInv, NEW t \in Operators, InsertLimit(t) PROVE CatIndInv'
<1>1. /\ CatShapes /\ Heard /\ CeilingsFollow /\ Whole /\ stage[t] = "insert" /\ t \in Inserting
      /\ UNCHANGED <<plan, override, subscription, stripe, pending, repriced, snapshot, reading, asked, moves>>
  BY DEF InsertLimit, CatIndInv, customer, Inserting
<1>2. PICK v \in OrderRecs : v = order[t] /\ v.writes
  BY <1>1 DEF CatShapes, OpShape
<1>3. InsertShape(t) /\ v.left \subseteq Keys /\ v.rows \in Rows /\ v.left # {} /\ v.left \subseteq Named(v.rows)
  BY <1>1, <1>2 DEF Whole, OrderRecs, InsertShape
<1>4. PICK k \in v.left : k = Min(order[t].left) /\ \A j \in v.left : k <= j
  BY <1>2, <1>3, LeastKey
<1>5. k \in Keys /\ k \in Nat /\ v.rows[k] # NoRow
  BY <1>3, CatalogueAssumption DEF Named
<1>6. Heard'
  BY <1>1, HeardStays
<1>7. CASE limits[k] # NoRow
  <2>1. /\ order' = [order EXCEPT ![t] = NoRow] /\ stage' = [stage EXCEPT ![t] = "idle"]
        /\ broken' = TRUE /\ raced' = TRUE /\ UNCHANGED <<limits, overtaken>>
    BY <1>4, <1>7 DEF InsertLimit, GoesTo
  <2>2. /\ stage' \in [Operators -> Stages] /\ order' \in [Operators -> {NoRow} \cup OrderRecs]
        /\ \A o \in Operators : OpShape(o)'
        /\ stage'[t] = "idle" /\ order'[t] = NoRow
        /\ \A o \in Operators \ {t} : stage'[o] = stage[o] /\ order'[o] = order[o]
    <3>1. "idle" \in Stages
      BY DEF Stages
    <3> QED BY <1>1, <2>1, <3>1, StageTurns
  <2>3. CatShapes'
    BY <1>1, <2>1, <2>2 DEF CatShapes, CatalogueTypeOK, Stages, OrderRecs
  <2>4. CeilingsFollow'
    BY <1>1, <2>1, <2>2, CeilingsStay
  <2>5. Whole'
    <3>1. \A o \in Inserting' : o \in Inserting /\ order'[o] = order[o]
      BY <2>2 DEF Inserting
    <3>2. \A o \in Inserting' : InsertShape(o)'
      BY <1>1, <3>1 DEF Whole, InsertShape, Named
    <3> QED BY <2>1, <3>2 DEF Whole
  <2> QED BY <1>6, <2>3, <2>4, <2>5 DEF CatIndInv
<1>8. CASE limits[k] = NoRow
  <2> DEFINE s == IF v.left = {k} THEN "list" ELSE "insert"
  <2>1. /\ limits' = [limits EXCEPT ![k] = v.rows[k]] /\ stage' = [stage EXCEPT ![t] = s]
        /\ order' = [order EXCEPT ![t].left = @ \ {k}] /\ Overtakes /\ UNCHANGED <<raced, broken>>
    BY <1>2, <1>4, <1>8 DEF InsertLimit, GoesTo
  <2>2. PICK w : w = [v EXCEPT !.left = v.left \ {k}]
    OBVIOUS
  <2>3. w \in OrderRecs /\ w.writes /\ w.left = v.left \ {k} /\ w.rows = v.rows
    BY <1>2, <2>2 DEF OrderRecs
  <2>4. order' = [order EXCEPT ![t] = w]
    BY <1>2, <2>1, <2>2
  <2>5. /\ stage' \in [Operators -> Stages] /\ order' \in [Operators -> {NoRow} \cup OrderRecs]
        /\ \A o \in Operators : OpShape(o)'
        /\ stage'[t] = s /\ order'[t] = w
        /\ \A o \in Operators \ {t} : stage'[o] = stage[o] /\ order'[o] = order[o]
    <3>1. s \in Stages /\ s \in {"list", "insert"}
      BY DEF Stages, Replacing
    <3> HIDE DEF s
    <3> QED BY <1>1, <2>1, <2>3, <2>4, <3>1, StageTurns
  <2>6. /\ limits \in Rows /\ limits' \in Rows /\ limits'[k] = v.rows[k]
        /\ \A j \in Keys \ {k} : limits'[j] = limits[j]
    BY <1>1, <1>3, <1>5, <2>1 DEF CatShapes, CatalogueTypeOK, Rows
  <2>7. overtaken' \subseteq Operators
    BY <1>1, <2>1 DEF CatShapes, CatalogueTypeOK, Overtakes
  <2>8. CatShapes'
    BY <1>1, <2>1, <2>5, <2>6, <2>7 DEF CatShapes, CatalogueTypeOK, Stages, OrderRecs
  <2>9. CeilingsFollow'
    <3>1. Owed(t)' /\ stage[t] \notin Computing /\ stage'[t] \notin {"catalog", "overrides", "set"}
      BY <1>1, <2>5 DEF Owed, Computing
    <3> QED BY <1>1, <2>1, <2>5, <3>1, TablesMove
  <2>10. Inserting' = IF v.left = {k} THEN Inserting \ {t} ELSE Inserting
    BY <1>1, <2>5 DEF Inserting
  <2>11. ASSUME NEW o \in Inserting', o # t
         PROVE  /\ o \in Inserting /\ order'[o] = order[o] /\ InsertShape(o) /\ InsertShape(o)'
                /\ Doomed(o) => Doomed(o)'
    <3>1. o \in Inserting /\ o \in Operators /\ order'[o] = order[o] /\ InsertShape(o)
      BY <1>1, <2>5, <2>10, <2>11 DEF Whole, Inserting
    <3>2. InsertShape(o)'
      BY <1>1, <3>1 DEF InsertShape, Named
    <3>3. order[o].left \subseteq Keys
      BY <3>1 DEF InsertShape, Named
    <3>4. Doomed(o) => Doomed(o)'
      BY <1>8, <2>6, <3>1, <3>3 DEF Doomed
    <3> QED BY <3>1, <3>2, <3>4
  <2>12. ASSUME t \in Inserting'
         PROVE  /\ v.left # {k} /\ Inserting' = Inserting /\ InsertShape(t)'
                /\ Doomed(t) => Doomed(t)'
                /\ AsWritten(t) => AsWritten(t)'
    <3>1. v.left # {k} /\ Inserting' = Inserting
      BY <2>10, <2>12
    <3>2. w.left # {} /\ w.left \subseteq Named(w.rows) /\ w.rows \in asked'
      BY <1>1, <1>2, <1>3, <2>3, <3>1 DEF InsertShape
    <3>3. \A i \in Named(w.rows) \ w.left, j \in w.left : i < j
      <4> TAKE i \in Named(w.rows) \ w.left, j \in w.left
      <4>1. j \in v.left /\ j # k /\ j \in Nat /\ k <= j
        BY <1>3, <1>4, <2>3, CatalogueAssumption
      <4>2. CASE i = k
        BY <1>5, <4>1, <4>2
      <4>3. CASE i # k
        BY <1>2, <1>3, <2>3, <4>1, <4>3 DEF InsertShape
      <4> QED BY <4>2, <4>3
    <3>4. InsertShape(t)'
      BY <2>5, <3>2, <3>3 DEF InsertShape, Named
    <3>5. Doomed(t) => Doomed(t)'
      BY <1>2, <1>3, <1>8, <2>3, <2>5, <2>6 DEF Doomed
    <3>6. AsWritten(t) => AsWritten(t)'
      BY <1>2, <2>3, <2>5, <2>6 DEF AsWritten
    <3> QED BY <3>1, <3>4, <3>5, <3>6
  <2>13. Alike' = Alike
    BY <1>1 DEF Alike, Named
  <2>14. Whole'
    <3>1. \A o \in Inserting' : InsertShape(o)'
      BY <2>11, <2>12
    <3>2. ASSUME ~broken', Alike', Inserting' = {} PROVE limits' \in asked'
      <4>1. Inserting = {t} /\ v.left = {k}
        BY <1>1, <2>10, <3>2
      <4>2. ~Doomed(t)
        BY <1>2, <1>8, <4>1 DEF Doomed
      <4>3. AsWritten(t)
        BY <1>1, <2>1, <2>13, <3>2, <4>1, <4>2 DEF Whole
      <4>4. \A j \in Keys : limits'[j] = v.rows[j]
        BY <1>2, <2>6, <4>1, <4>3 DEF AsWritten
      <4>5. limits' = v.rows
        BY <1>3, <2>6, <4>4 DEF Rows
      <4> QED BY <1>1, <1>2, <1>3, <4>5 DEF InsertShape
    <3>3. ASSUME ~broken', Alike', NEW o \in Inserting'
          PROVE  (Inserting # {o})' \/ Doomed(o)' \/ AsWritten(o)'
      <4>1. ~broken /\ Alike
        BY <2>1, <2>13, <3>3
      <4>2. CASE o = t
        <5>1. Inserting # {t} \/ Doomed(t) \/ AsWritten(t)
          BY <1>1, <4>1 DEF Whole
        <5> QED BY <2>12, <3>3, <4>2, <5>1
      <4>3. CASE o # t /\ t \in Inserting'
        BY <4>3
      <4>4. CASE o # t /\ t \notin Inserting'
        <5>1. v.left = {k} /\ o \in Inserting /\ order'[o] = order[o] /\ InsertShape(o)
          BY <1>1, <2>10, <2>11, <3>3, <4>4
        <5>2. Named(order[o].rows) = Named(v.rows)
          BY <1>2, <1>3, <4>1, <5>1 DEF Alike, InsertShape
        <5>3. PICK j \in order[o].left : j \in Named(v.rows)
          BY <5>1, <5>2 DEF InsertShape
        <5>4. k \in order[o].left
          <6> SUFFICES ASSUME k \notin order[o].left PROVE FALSE
            OBVIOUS
          <6>1. k \in Named(order[o].rows)
            BY <1>3, <5>2
          <6>2. k < j
            BY <5>1, <5>3, <6>1 DEF InsertShape
          <6>3. j # k /\ j \in Nat
            BY <5>3, CatalogueAssumption DEF Named
          <6>4. j < k
            BY <1>2, <1>3, <5>1, <5>3, <6>3 DEF InsertShape
          <6> QED BY <1>5, <6>2, <6>3, <6>4
        <5>5. Doomed(o)'
          BY <1>5, <2>6, <5>1, <5>4 DEF Doomed
        <5> QED BY <5>5
      <4> QED BY <4>2, <4>3, <4>4
    <3> QED BY <3>1, <3>2, <3>3 DEF Whole
  <2> QED BY <1>6, <2>8, <2>9, <2>14 DEF CatIndInv
<1> QED BY <1>7, <1>8

-----------------------------------------------------------------------------
LEMMA NextCatInd == CatIndInv /\ [CatalogueNext]_catalogueVars => CatIndInv'
<1> SUFFICES ASSUME CatIndInv, [CatalogueNext]_catalogueVars PROVE CatIndInv'
  OBVIOUS
<1>1. CASE UNCHANGED catalogueVars
  <2>1. UNCHANGED <<plan, limits, override, subscription, stripe, pending, repriced, snapshot, stage,
                    order, reading, overtaken, raced, asked, broken, moves>>
    BY <1>1 DEF catalogueVars, tables, customer, computation, replacements
  <2>2. CatShapes'
    BY <2>1 DEF CatIndInv, CatShapes, CatalogueTypeOK, OpShape
  <2>3. Heard'
    BY <2>1, HeardStays DEF CatIndInv
  <2> QED BY <2>1, <2>2, <2>3, PlanMoves DEF computation, replacements
<1>2. CASE CatalogueNext
  BY <1>2, CreatePlanInd, UpdatePlanInd, CheckoutInd, LapseInd, ExpireSnapshotInd, WebhookInd,
     SetLimitsInd, DeleteLimitsInd, InsertLimitInd, ListTenantsInd, SetOverrideInd, UpsertInd,
     ClearOverrideInd, DropSnapshotInd, RecomputeInd, ReadTablesInd, SetSnapshotInd, RequestEndsInd
  DEF CatalogueNext
<1> QED BY <1>1, <1>2

\* For any operators, limits, bodies, prices, amounts and overrides: nothing but
\* the primary key of plan_limits keeps two replacements apart (plans.py:223),
\* and it is enough when they name the same keys; who changes what a ceiling is
\* resolved from drops the snapshot afterwards (admin_catalog.py:257-260);
\* "existing subscribers keep exactly what they bought" (admin_catalog.py:
\* 18-22); and a price that does not fit is reported or there is a reason
\* (admin_catalog.py:468-471).
THEOREM CatalogueHolds == CatalogueSpec /\ PricingSpec => []CatalogueInv
<1>1. CatalogueSpec => []CatIndInv
  BY InitCatInd, NextCatInd, PTL DEF CatalogueSpec
<1>2. PricingSpec => []PricingIndInv
  BY PricingInvariant
<1> QED BY <1>1, <1>2, CatIndInvImplies, PTL

-----------------------------------------------------------------------------
\* A sum of natural numbers is a number of things: of f[x] of them for each x.
Pile(f, S) == {p \in S \X Nat : 1 <= p[2] /\ p[2] <= f[p[1]]}
Sum(f, S) == Cardinality(Pile(f, S))

LEMMA PileOfOne ==
  ASSUME NEW f, NEW x, f[x] \in Nat
  PROVE  IsFiniteSet(Pile(f, {x})) /\ Cardinality(Pile(f, {x})) = f[x]
<1> DEFINE n == f[x]
           F == [i \in 1 .. n |-> <<x, i>>]
<1>1. IsFiniteSet(1 .. n) /\ Cardinality(1 .. n) = n
  <2>1. 1 \in Int /\ n \in Int /\ n \in Nat
    OBVIOUS
  <2> HIDE DEF n
  <2>2. IsFiniteSet(1 .. n) /\ Cardinality(1 .. n) = IF 1 > n THEN 0 ELSE n - 1 + 1
    BY <2>1, FS_Interval
  <2> QED BY <2>1, <2>2
<1>2. \A p : p \in Pile(f, {x}) <=> \E i \in 1 .. n : p = <<x, i>>
  BY DEF Pile
<1>3. F \in [1 .. n -> Pile(f, {x})]
  BY <1>2
<1>4. F \in Injection(1 .. n, Pile(f, {x}))
  <2>1. \A i, j \in 1 .. n : F[i] = F[j] => i = j
    OBVIOUS
  <2> HIDE DEF F
  <2> QED BY <1>3, <2>1 DEF Injection, IsInjective
<1>5. F \in Surjection(1 .. n, Pile(f, {x}))
  <2>1. \A p \in Pile(f, {x}) : \E i \in 1 .. n : F[i] = p
    BY <1>2
  <2> HIDE DEF F
  <2> QED BY <1>3, <2>1 DEF Surjection
<1>6. F \in Bijection(1 .. n, Pile(f, {x}))
  BY <1>4, <1>5 DEF Bijection
<1> HIDE DEF F, n
<1>7. ExistsBijection(1 .. n, Pile(f, {x}))
  BY <1>6 DEF ExistsBijection
<1>8. IsFiniteSet(Pile(f, {x})) /\ Cardinality(Pile(f, {x})) = n
  BY <1>1, <1>7, FS_Bijection
<1> QED BY <1>8 DEF n

\* Piles of different things are different.
LEMMA PilesApart ==
  ASSUME NEW f, NEW S, NEW T, S \cap T = {}
  PROVE  Pile(f, S \cup T) = Pile(f, S) \cup Pile(f, T) /\ Pile(f, S) \cap Pile(f, T) = {}
BY DEF Pile

\* A finite number of piles is finite: no least number of them is not.
LEMMA PilesAreFinite ==
  ASSUME NEW S, IsFiniteSet(S), NEW f, \A x \in S : f[x] \in Nat
  PROVE  IsFiniteSet(Pile(f, S)) /\ Sum(f, S) \in Nat
<1> SUFFICES ASSUME ~IsFiniteSet(Pile(f, S)) PROVE FALSE
  BY FS_CardinalityType DEF Sum
<1> DEFINE Bad == {s \in SUBSET S : ~IsFiniteSet(Pile(f, s))}
           N == {n \in Nat : \E s \in Bad : Cardinality(s) = n}
<1>1. \A s \in SUBSET S : IsFiniteSet(s) /\ Cardinality(s) \in Nat
  BY FS_Subset, FS_CardinalityType
<1>2. Cardinality(S) \in N
  BY <1>1
<1>3. PICK n \in N : \A m \in N : n <= m
  <2>1. N \subseteq Nat /\ N # {}
    BY <1>2
  <2> HIDE DEF N
  <2> QED BY <2>1, LeastNumber
<1>4. PICK s \in SUBSET S : ~IsFiniteSet(Pile(f, s)) /\ Cardinality(s) = n
  BY <1>3
<1>5. s # {}
  <2>1. Pile(f, {}) = {}
    BY DEF Pile
  <2> QED BY <1>4, <2>1, FS_EmptySet
<1>6. PICK x \in s : TRUE
  BY <1>5
<1>7. Cardinality(s \ {x}) = n - 1
  BY <1>1, <1>4, <1>6, FS_RemoveElement
<1>8. IsFiniteSet(Pile(f, s \ {x}))
  <2> SUFFICES ASSUME ~IsFiniteSet(Pile(f, s \ {x})) PROVE FALSE
    OBVIOUS
  <2>1. s \ {x} \in SUBSET S
    OBVIOUS
  <2>2. Cardinality(s \ {x}) \in Nat
    BY <1>1, <2>1
  <2>3. n - 1 \in N
    BY <1>7, <2>1, <2>2
  <2>4. n <= n - 1 /\ n \in Nat
    BY <1>3, <2>3
  <2> QED BY <2>4
<1>9. Pile(f, s) = Pile(f, s \ {x}) \cup Pile(f, {x})
  <2>1. s = (s \ {x}) \cup {x} /\ (s \ {x}) \cap {x} = {}
    BY <1>6
  <2> QED BY <2>1, PilesApart
<1>10. IsFiniteSet(Pile(f, {x}))
  BY <1>6, PileOfOne
<1>11. ASSUME NEW A, NEW B, IsFiniteSet(A), IsFiniteSet(B) PROVE IsFiniteSet(A \cup B)
  BY <1>11, FS_Union
<1>12. IsFiniteSet(Pile(f, s \ {x}) \cup Pile(f, {x}))
  BY <1>8, <1>10, <1>11
<1>13. IsFiniteSet(Pile(f, s))
  BY <1>9, <1>12
<1> QED BY <1>4, <1>13

\* Sums add up, begin at nothing and grow by what is added.
LEMMA SumsAdd ==
  ASSUME NEW S, NEW T, IsFiniteSet(S), IsFiniteSet(T), S \cap T = {},
         NEW f, \A x \in S \cup T : f[x] \in Nat
  PROVE  Sum(f, S \cup T) = Sum(f, S) + Sum(f, T)
<1>1. /\ IsFiniteSet(Pile(f, S)) /\ IsFiniteSet(Pile(f, T))
      /\ Sum(f, S) \in Nat /\ Sum(f, T) \in Nat
  BY PilesAreFinite
<1>2. Cardinality(Pile(f, S) \cup Pile(f, T))
        = Cardinality(Pile(f, S)) + Cardinality(Pile(f, T)) - Cardinality(Pile(f, S) \cap Pile(f, T))
  BY <1>1, FS_Union
<1>3. Cardinality(Pile(f, S) \cap Pile(f, T)) = 0
  BY PilesApart, FS_EmptySet
<1>4. Pile(f, S \cup T) = Pile(f, S) \cup Pile(f, T)
  BY PilesApart
<1>5. /\ Sum(f, S) = Cardinality(Pile(f, S)) /\ Sum(f, T) = Cardinality(Pile(f, T))
      /\ Sum(f, S \cup T) = Cardinality(Pile(f, S) \cup Pile(f, T))
  BY <1>4 DEF Sum
<1> QED BY <1>1, <1>2, <1>3, <1>5

LEMMA SumOfNone == ASSUME NEW f PROVE Sum(f, {}) = 0
<1>1. Pile(f, {}) = {}
  BY DEF Pile
<1> QED BY <1>1, FS_EmptySet DEF Sum

LEMMA SumWithOne ==
  ASSUME NEW S, IsFiniteSet(S), NEW f, \A x \in S : f[x] \in Nat, NEW x \in S
  PROVE  Sum(f, S) = f[x] + Sum(f, S \ {x})
<1>1. S = (S \ {x}) \cup {x} /\ (S \ {x}) \cap {x} = {}
  OBVIOUS
<1>2. IsFiniteSet(S \ {x}) /\ IsFiniteSet({x})
  BY FS_Subset, FS_RemoveElement, FS_Singleton
<1>3. Sum(f, {x}) = f[x] /\ f[x] \in Nat
  BY PileOfOne DEF Sum
<1>4. Sum(f, S \ {x}) \in Nat
  BY <1>2, PilesAreFinite
<1>5. Sum(f, (S \ {x}) \cup {x}) = Sum(f, S \ {x}) + Sum(f, {x})
  BY <1>1, <1>2, SumsAdd
<1>6. Sum(f, S) = Sum(f, (S \ {x}) \cup {x})
  BY <1>1
<1> QED BY <1>3, <1>4, <1>5, <1>6

\* What the library's fold computes of a finite set, one element that it chooses
\* after the other, is the sum.
Folded(g, f, S) ==
  g = [s \in SUBSET S |-> IF s = {} THEN 0
                          ELSE f[CHOOSE x \in s : TRUE] + g[s \ {CHOOSE x \in s : TRUE}]]

LEMMA SumIsFolded ==
  ASSUME NEW S, IsFiniteSet(S), NEW f, \A x \in S : f[x] \in Nat
  PROVE  Folded([s \in SUBSET S |-> Sum(f, s)], f, S)
<1> DEFINE g == [s \in SUBSET S |-> Sum(f, s)]
<1>1. ASSUME NEW s \in SUBSET S
      PROVE  g[s] = IF s = {} THEN 0
                    ELSE f[CHOOSE x \in s : TRUE] + g[s \ {CHOOSE x \in s : TRUE}]
  <2>1. CASE s = {}
    BY <2>1, SumOfNone
  <2>2. CASE s # {}
    <3>1. PICK y \in s : y = CHOOSE x \in s : TRUE
      BY <2>2
    <3>2. IsFiniteSet(s) /\ s \ {y} \in SUBSET S
      BY FS_Subset
    <3>3. Sum(f, s) = f[y] + Sum(f, s \ {y})
      BY <3>2, SumWithOne
    <3> QED BY <2>2, <3>1, <3>2, <3>3
  <2> QED BY <2>1, <2>2
<1>2. g = [s \in SUBSET S |-> g[s]]
  OBVIOUS
<1> HIDE DEF g
<1>3. Folded(g, f, S)
  BY <1>1, <1>2 DEF Folded
<1> QED BY <1>3 DEF g

LEMMA FoldIsSum ==
  ASSUME NEW S, IsFiniteSet(S), NEW f, \A x \in S : f[x] \in Nat, NEW g, Folded(g, f, S)
  PROVE  g[S] = Sum(f, S)
<1> SUFFICES ASSUME g[S] # Sum(f, S) PROVE FALSE
  OBVIOUS
<1> DEFINE N == {n \in Nat : \E s \in SUBSET S : g[s] # Sum(f, s) /\ Cardinality(s) = n}
<1>1. \A s \in SUBSET S : IsFiniteSet(s) /\ Cardinality(s) \in Nat
  BY FS_Subset, FS_CardinalityType
<1>2. Cardinality(S) \in N
  BY <1>1
<1>3. PICK n \in N : \A m \in N : n <= m
  <2>1. N \subseteq Nat /\ N # {}
    BY <1>2
  <2> HIDE DEF N
  <2> QED BY <2>1, LeastNumber
<1>4. PICK s \in SUBSET S : g[s] # Sum(f, s) /\ Cardinality(s) = n
  BY <1>3
<1>5. g[s] = IF s = {} THEN 0 ELSE f[CHOOSE x \in s : TRUE] + g[s \ {CHOOSE x \in s : TRUE}]
  BY DEF Folded
<1>6. s # {}
  BY <1>4, <1>5, SumOfNone
<1>7. PICK y \in s : y = CHOOSE x \in s : TRUE
  BY <1>6
<1>8. Cardinality(s \ {y}) = n - 1 /\ s \ {y} \in SUBSET S
  BY <1>1, <1>4, FS_RemoveElement
<1>9. g[s \ {y}] = Sum(f, s \ {y})
  <2> SUFFICES ASSUME g[s \ {y}] # Sum(f, s \ {y}) PROVE FALSE
    OBVIOUS
  <2>1. n - 1 \in Nat
    BY <1>1, <1>8
  <2>2. n - 1 \in N
    BY <1>8, <2>1
  <2>3. n <= n - 1 /\ n \in Nat
    BY <1>3, <2>2
  <2> QED BY <2>3
<1>10. Sum(f, s) = f[y] + Sum(f, s \ {y})
  BY <1>1, SumWithOne
<1> QED BY <1>4, <1>5, <1>6, <1>7, <1>9, <1>10

\* The sums of the ledger: of the costs of rows, and of a column of a table.
LEMMA CostsAreSummed ==
  ASSUME NEW S, IsFiniteSet(S), \A r \in S : r.cost \in Nat
  PROVE  MapThenSumSet(LAMBDA r : r.cost, S) = Sum([r \in S |-> r.cost], S)
<1> DEFINE f == [r \in S |-> r.cost]
           Is(g) == g = [s \in SUBSET S |-> IF s = {} THEN 0
                                            ELSE LET x == CHOOSE x \in s : TRUE IN x.cost + g[s \ {x}]]
<1>1. MapThenSumSet(LAMBDA r : r.cost, S) = (CHOOSE g : Is(g))[S]
  BY DEF MapThenSumSet, MapThenFoldSet
<1>2. ASSUME NEW g PROVE Is(g) <=> Folded(g, f, S)
  <2>1. \A s \in SUBSET S : s # {} => f[CHOOSE x \in s : TRUE] = (CHOOSE x \in s : TRUE).cost
    OBVIOUS
  <2> QED BY <2>1 DEF Folded
<1>3. \E g : Is(g)
  <2>1. \A x \in S : f[x] \in Nat
    OBVIOUS
  <2> QED BY <1>2, <2>1, SumIsFolded
<1>4. Is(CHOOSE g : Is(g))
  BY <1>3
<1>5. \A x \in S : f[x] \in Nat
  OBVIOUS
<1> HIDE DEF Is, f
<1>6. (CHOOSE g : Is(g))[S] = Sum(f, S)
  BY <1>2, <1>4, <1>5, FoldIsSum
<1> QED BY <1>1, <1>6 DEF f

-----------------------------------------------------------------------------
\* Sums of the same numbers are the same.
LEMMA SumsOfSame ==
  ASSUME NEW S, NEW f, NEW g, \A x \in S : f[x] = g[x]
  PROVE  Sum(f, S) = Sum(g, S)
<1>1. Pile(f, S) = Pile(g, S)
  BY DEF Pile
<1> QED BY <1>1 DEF Sum

\* To count is to sum ones.
LEMMA CountIsSum ==
  ASSUME NEW S, IsFiniteSet(S), NEW f, NEW T, T \subseteq S,
         \A x \in S : f[x] = IF x \in T THEN 1 ELSE 0
  PROVE  Cardinality(T) = Sum(f, S)
<1> DEFINE F == [x \in T |-> <<x, 1>>]
<1>1. Pile(f, S) = {<<x, 1>> : x \in T}
  <2>1. ASSUME NEW p \in Pile(f, S) PROVE \E x \in T : p = <<x, 1>>
    <3>1. /\ p[1] \in S /\ p[2] \in Nat /\ 1 <= p[2] /\ p[2] <= f[p[1]]
          /\ p = <<p[1], p[2]>>
      BY <2>1 DEF Pile
    <3>2. p[1] \in T /\ p[2] = 1
      BY <3>1
    <3> QED BY <3>1, <3>2
  <2>2. ASSUME NEW x \in T PROVE <<x, 1>> \in Pile(f, S)
    BY DEF Pile
  <2> QED BY <2>1, <2>2
<1>2. F \in [T -> Pile(f, S)]
  BY <1>1
<1>3. F \in Injection(T, Pile(f, S))
  <2>1. \A x, y \in T : F[x] = F[y] => x = y
    OBVIOUS
  <2> HIDE DEF F
  <2> QED BY <1>2, <2>1 DEF Injection, IsInjective
<1>4. F \in Surjection(T, Pile(f, S))
  <2>1. \A p \in Pile(f, S) : \E x \in T : F[x] = p
    BY <1>1
  <2> HIDE DEF F
  <2> QED BY <1>2, <2>1 DEF Surjection
<1> HIDE DEF F
<1>5. ExistsBijection(T, Pile(f, S))
  BY <1>3, <1>4 DEF Bijection, ExistsBijection
<1>6. IsFiniteSet(T)
  BY FS_Subset
<1> QED BY <1>5, <1>6, FS_Bijection DEF Sum

\* Things put in groups: the groups' sums add up to the sum of all.
GroupSums(v, K, G) == [k \in K |-> Sum(v, G[k])]
Together(G, s) == UNION {G[k] : k \in s}

\* G puts every r of R in the group of one k of K.
Groups(R, K, G) ==
  /\ IsFiniteSet(K) /\ G \in [K -> SUBSET R]
  /\ \A r \in R : \E k \in K : r \in G[k]
  /\ \A k, l \in K : k # l => G[k] \cap G[l] = {}
Weighs(v, R) == \A r \in R : v[r] \in Nat

LEMMA ColumnIsFinite ==
  ASSUME NEW R, IsFiniteSet(R), NEW f
  PROVE  IsFiniteSet({f[r] : r \in R})
<1> DEFINE T == {f[r] : r \in R}
           F == [r \in R |-> f[r]]
<1>1. F \in [R -> T] /\ \A t \in T : \E r \in R : F[r] = t
  OBVIOUS
<1> HIDE DEF T, F
<1>2. F \in Surjection(R, T)
  BY <1>1 DEF Surjection
<1>3. IsFiniteSet(T)
  BY <1>2, FS_Surjection
<1> QED BY <1>3 DEF T

LEMMA GroupsAddUp ==
  ASSUME NEW R, IsFiniteSet(R), NEW v, Weighs(v, R), NEW K, NEW G, Groups(R, K, G)
  PROVE  /\ Sum(GroupSums(v, K, G), K) = Sum(v, R)
         /\ \A k \in K : Sum(v, G[k]) \in Nat
<1> USE DEF Groups, Weighs
<1> DEFINE h == [k \in K |-> Sum(v, G[k])]
           Bad == {s \in SUBSET K : Sum(h, s) # Sum(v, Together(G, s))}
           N == {n \in Nat : \E s \in Bad : Cardinality(s) = n}
<1>1. \A s \in SUBSET K : IsFiniteSet(s) /\ Cardinality(s) \in Nat
  BY FS_Subset, FS_CardinalityType
<1>2. \A T \in SUBSET R : IsFiniteSet(T) /\ Sum(v, T) \in Nat
  <2> SUFFICES ASSUME NEW T \in SUBSET R PROVE IsFiniteSet(T) /\ Sum(v, T) \in Nat
    OBVIOUS
  <2>1. IsFiniteSet(T)
    BY FS_Subset
  <2> QED BY <2>1, PilesAreFinite
<1>3. \A s \in SUBSET K : Together(G, s) \in SUBSET R
  BY DEF Together
<1>4. \A k \in K : h[k] = Sum(v, G[k]) /\ h[k] \in Nat
  BY <1>2
<1>5. Bad = {}
  <2> SUFFICES ASSUME NEW t \in Bad PROVE FALSE
    OBVIOUS
  <2>1. PICK n \in N : \A m \in N : n <= m
    <3>1. N \subseteq Nat /\ Cardinality(t) \in N
      BY <1>1
    <3> HIDE DEF N
    <3> QED BY <3>1, LeastNumber
  <2>2. PICK s \in Bad : Cardinality(s) = n
    BY <2>1
  <2>3. s # {}
    <3>1. Together(G, {}) = {}
      BY DEF Together
    <3>2. Sum(h, {}) = 0 /\ Sum(v, {}) = 0
      <4> HIDE DEF h
      <4> QED BY SumOfNone
    <3> QED BY <2>2, <3>1, <3>2
  <2>4. PICK k \in s : TRUE
    BY <2>3
  <2>5. s \in SUBSET K /\ s \ {k} \in SUBSET K /\ k \in K
    BY <2>2
  <2>6. Cardinality(s \ {k}) = n - 1 /\ Cardinality(s \ {k}) \in Nat
    BY <1>1, <2>2, <2>4, <2>5, FS_RemoveElement
  <2>7. Sum(h, s \ {k}) = Sum(v, Together(G, s \ {k}))
    <3> SUFFICES ASSUME Sum(h, s \ {k}) # Sum(v, Together(G, s \ {k})) PROVE FALSE
      OBVIOUS
    <3>1. s \ {k} \in Bad
      BY <2>5
    <3>2. n - 1 \in N
      BY <2>6, <3>1
    <3>3. n <= n - 1 /\ n \in Nat
      BY <2>1, <3>2
    <3> QED BY <3>3
  <2>8. /\ Together(G, s) = Together(G, s \ {k}) \cup G[k]
        /\ Together(G, s \ {k}) \cap G[k] = {}
    BY <2>4, <2>5 DEF Together
  <2>9. Sum(h, s) = h[k] + Sum(h, s \ {k})
    <3>1. IsFiniteSet(s) /\ \A x \in s : h[x] \in Nat
      BY <1>1, <1>4, <2>5
    <3> HIDE DEF h
    <3> QED BY <2>4, <3>1, SumWithOne
  <2>10. Sum(v, Together(G, s)) = Sum(v, Together(G, s \ {k})) + Sum(v, G[k])
    <3> DEFINE A == Together(G, s \ {k})
               B == G[k]
    <3>1. A \in SUBSET R /\ B \in SUBSET R /\ A \cap B = {} /\ Together(G, s) = A \cup B
      BY <1>3, <2>5, <2>8
    <3> HIDE DEF A, B
    <3>2. IsFiniteSet(A) /\ IsFiniteSet(B) /\ \A x \in A \cup B : v[x] \in Nat
      BY <1>2, <3>1
    <3>3. Sum(v, A \cup B) = Sum(v, A) + Sum(v, B)
      BY <3>1, <3>2, SumsAdd
    <3> QED BY <3>1, <3>3 DEF A, B
  <2>11. Sum(h, s) # Sum(v, Together(G, s))
    BY <2>2
  <2>12. Sum(v, Together(G, s \ {k})) \in Nat /\ Sum(v, G[k]) \in Nat
    BY <1>2, <1>3, <2>5
  <2> QED BY <1>4, <2>5, <2>7, <2>9, <2>10, <2>11, <2>12
<1>6. Sum(h, K) = Sum(v, Together(G, K))
  BY <1>5
<1>7. Together(G, K) = R
  BY DEF Together
<1>8. GroupSums(v, K, G) = h
  BY DEF GroupSums
<1> HIDE DEF h
<1> QED BY <1>2, <1>6, <1>7, <1>8

-----------------------------------------------------------------------------
\* What the rollups are of: the rows' number, the unpriced ones' and the costs.
Ones(U) == [r \in U |-> 1]
Blanks(U) == [r \in U |-> IF r.cost = NoRate THEN 1 ELSE 0]
Costs(U) == [r \in U |-> Money(r.cost)]

PricedRows(U) == IsFiniteSet(U) /\ \A r \in U : r.cost \in Priced

LEMMA MeasuresAreNumbers ==
  ASSUME NEW U, PricedRows(U), NEW r \in U
  PROVE  Ones(U)[r] \in Nat /\ Blanks(U)[r] \in Nat /\ Costs(U)[r] \in Nat
BY UsageAssumption DEF UsageAssumption, Ones, Blanks, Costs, PricedRows, Priced, Money

LEMMA TotalsAreSums ==
  ASSUME NEW U, PricedRows(U), NEW S \in SUBSET U
  PROVE  /\ Total(S).calls = Sum(Ones(U), S)
         /\ Total(S).unpriced = Sum(Blanks(U), S)
         /\ Money(Total(S).cost) = Sum(Costs(U), S)
         /\ Total(S).cost = NoRate <=> Total(S).unpriced = Total(S).calls
<1>1. IsFiniteSet(S) /\ \A r \in S : r.cost \in Priced
  BY FS_Subset DEF PricedRows
<1> DEFINE P == {r \in S : r.cost # NoRate}
           B == {r \in S : r.cost = NoRate}
<1>2. IsFiniteSet(P) /\ IsFiniteSet(B) /\ P \cup B = S /\ P \cap B = {}
  <2>1. P \in SUBSET S /\ B \in SUBSET S /\ P \cup B = S /\ P \cap B = {}
    OBVIOUS
  <2> HIDE DEF P, B
  <2> QED BY <1>1, <2>1, FS_Subset
<1>3. \A r \in P : r.cost \in Nat
  BY <1>1, UsageAssumption DEF UsageAssumption, Priced
<1>4. Cardinality(S) = Sum(Ones(U), S)
  <2>1. \A x \in S : Ones(U)[x] = IF x \in S THEN 1 ELSE 0
    BY DEF Ones
  <2> QED BY <1>1, <2>1, CountIsSum
<1>5. Cardinality(B) = Sum(Blanks(U), S)
  <2>1. B \subseteq S /\ \A x \in S : Blanks(U)[x] = IF x \in B THEN 1 ELSE 0
    BY DEF Blanks
  <2> HIDE DEF B
  <2> QED BY <1>1, <2>1, CountIsSum
<1>6. Sum(Costs(U), B) = 0
  <2> DEFINE z == [r \in B |-> IF r \in {} THEN 1 ELSE 0]
  <2>1. \A r \in B : Costs(U)[r] = z[r] /\ z[r] = IF r \in {} THEN 1 ELSE 0
    BY DEF Costs, Money
  <2> HIDE DEF z, B
  <2>2. Cardinality({}) = Sum(z, B)
    BY <1>2, <2>1, CountIsSum
  <2>3. Sum(Costs(U), B) = Sum(z, B)
    BY <2>1, SumsOfSame
  <2> QED BY <2>2, <2>3, FS_EmptySet
<1>7. Sum([r \in P |-> r.cost], P) = Sum(Costs(U), P)
  <2> DEFINE z == [r \in P |-> r.cost]
  <2>1. \A r \in P : z[r] = Costs(U)[r]
    BY DEF Costs, Money
  <2> HIDE DEF z, P
  <2>2. Sum(z, P) = Sum(Costs(U), P)
    BY <2>1, SumsOfSame
  <2> QED BY <2>2 DEF z
<1>8. Sum(Costs(U), S) = Sum(Costs(U), P) + Sum(Costs(U), B) /\ Sum(Costs(U), P) \in Nat
  <2>1. \A x \in P \cup B : Costs(U)[x] \in Nat
    BY MeasuresAreNumbers
  <2> HIDE DEF P, B
  <2>2. Sum(Costs(U), P \cup B) = Sum(Costs(U), P) + Sum(Costs(U), B)
    BY <1>2, <2>1, SumsAdd
  <2>3. Sum(Costs(U), P) \in Nat
    BY <1>2, <2>1, PilesAreFinite
  <2> QED BY <1>2, <2>2, <2>3
<1>9. Cost(S) = IF P = {} THEN NoRate ELSE Sum(Costs(U), P)
  <2>1. (\A r \in S : r.cost = NoRate) <=> P = {}
    OBVIOUS
  <2>2. MapThenSumSet(LAMBDA r : r.cost, P) = Sum([r \in P |-> r.cost], P)
    BY <1>2, <1>3, CostsAreSummed
  <2> QED BY <1>7, <2>1, <2>2 DEF Cost
<1>10. Money(Cost(S)) = Sum(Costs(U), S)
  <2>1. CASE P = {}
    <3>1. Sum(Costs(U), {}) = 0
      BY SumOfNone
    <3> HIDE DEF P, B
    <3> QED BY <1>6, <1>8, <1>9, <2>1, <3>1 DEF Money
  <2>2. CASE P # {}
    <3> HIDE DEF P, B
    <3> QED BY <1>6, <1>8, <1>9, <2>2, UsageAssumption DEF Money, UsageAssumption
  <2> QED BY <2>1, <2>2
<1>11. Cost(S) = NoRate <=> P = {}
  <2> HIDE DEF P, B
  <2> QED BY <1>8, <1>9, UsageAssumption DEF UsageAssumption
<1>12. P = {} <=> Cardinality(B) = Cardinality(S)
  <2> HIDE DEF P, B
  <2>1. Cardinality(P \cup B) = Cardinality(P) + Cardinality(B) - Cardinality(P \cap B)
    BY <1>2, FS_Union
  <2>2. Cardinality(P) \in Nat /\ Cardinality(B) \in Nat /\ (Cardinality(P) = 0 <=> P = {})
    BY <1>2, FS_CardinalityType, FS_EmptySet
  <2>3. Cardinality(P \cap B) = 0
    BY <1>2, FS_EmptySet
  <2>4. Cardinality(S) = Cardinality(P) + Cardinality(B)
    <3>1. P \cup B = S
      BY <1>2
    <3>2. Cardinality(S) = Cardinality(P) + Cardinality(B) - Cardinality(P \cap B)
      BY <2>1, <3>1
    <3> QED BY <2>2, <2>3, <3>2
  <2> QED BY <2>2, <2>4
<1>13. /\ Total(S).calls = Cardinality(S) /\ Total(S).unpriced = Cardinality(B)
       /\ Total(S).cost = Cost(S)
  BY DEF Total
<1> HIDE DEF P, B
<1> QED BY <1>4, <1>5, <1>10, <1>11, <1>12, <1>13

\* The sums of the columns of a table.
LEMMA CallsAreSummed ==
  ASSUME NEW table, IsFiniteSet(DOMAIN table),
         NEW f, \A x \in DOMAIN table : f[x] \in Nat /\ f[x] = table[x].calls
  PROVE  Summed(table, LAMBDA t : t.calls) = Sum(f, DOMAIN table)
<1> DEFINE S == DOMAIN table
           Is(g) == g = [s \in SUBSET S |-> IF s = {} THEN 0
                                            ELSE LET x == CHOOSE x \in s : TRUE
                                                 IN table[x].calls + g[s \ {x}]]
<1>1. Summed(table, LAMBDA t : t.calls) = (CHOOSE g : Is(g))[S]
  BY DEF Summed, MapThenSumSet, MapThenFoldSet
<1>2. ASSUME NEW g PROVE Is(g) <=> Folded(g, f, S)
  <2>1. \A s \in SUBSET S : s # {} =>
          f[CHOOSE x \in s : TRUE] = table[CHOOSE x \in s : TRUE].calls
    OBVIOUS
  <2> QED BY <2>1 DEF Folded
<1>3. IsFiniteSet(S) /\ \A x \in S : f[x] \in Nat
  OBVIOUS
<1>4. \E g : Is(g)
  <2>1. Folded([s \in SUBSET S |-> Sum(f, s)], f, S)
    BY <1>3, SumIsFolded
  <2> HIDE DEF S, Is
  <2> QED BY <1>2, <2>1
<1>5. Is(CHOOSE g : Is(g))
  BY <1>4
<1> HIDE DEF Is, S
<1>6. (CHOOSE g : Is(g))[S] = Sum(f, S)
  BY <1>2, <1>3, <1>5, FoldIsSum
<1> QED BY <1>1, <1>6 DEF S

LEMMA UnpricedAreSummed ==
  ASSUME NEW table, IsFiniteSet(DOMAIN table),
         NEW f, \A x \in DOMAIN table : f[x] \in Nat /\ f[x] = table[x].unpriced
  PROVE  Summed(table, LAMBDA t : t.unpriced) = Sum(f, DOMAIN table)
<1> DEFINE S == DOMAIN table
           Is(g) == g = [s \in SUBSET S |-> IF s = {} THEN 0
                                            ELSE LET x == CHOOSE x \in s : TRUE
                                                 IN table[x].unpriced + g[s \ {x}]]
<1>1. Summed(table, LAMBDA t : t.unpriced) = (CHOOSE g : Is(g))[S]
  BY DEF Summed, MapThenSumSet, MapThenFoldSet
<1>2. ASSUME NEW g PROVE Is(g) <=> Folded(g, f, S)
  <2>1. \A s \in SUBSET S : s # {} =>
          f[CHOOSE x \in s : TRUE] = table[CHOOSE x \in s : TRUE].unpriced
    OBVIOUS
  <2> QED BY <2>1 DEF Folded
<1>3. IsFiniteSet(S) /\ \A x \in S : f[x] \in Nat
  OBVIOUS
<1>4. \E g : Is(g)
  <2>1. Folded([s \in SUBSET S |-> Sum(f, s)], f, S)
    BY <1>3, SumIsFolded
  <2> HIDE DEF S, Is
  <2> QED BY <1>2, <2>1
<1>5. Is(CHOOSE g : Is(g))
  BY <1>4
<1> HIDE DEF Is, S
<1>6. (CHOOSE g : Is(g))[S] = Sum(f, S)
  BY <1>2, <1>3, <1>5, FoldIsSum
<1> QED BY <1>1, <1>6 DEF S

LEMMA CostColumnIsSummed ==
  ASSUME NEW table, IsFiniteSet(DOMAIN table),
         NEW f, \A x \in DOMAIN table : f[x] \in Nat /\ f[x] = Money(table[x].cost)
  PROVE  Summed(table, LAMBDA t : Money(t.cost)) = Sum(f, DOMAIN table)
<1> DEFINE S == DOMAIN table
           Is(g) == g = [s \in SUBSET S |-> IF s = {} THEN 0
                                            ELSE LET x == CHOOSE x \in s : TRUE
                                                 IN Money(table[x].cost) + g[s \ {x}]]
<1>1. Summed(table, LAMBDA t : Money(t.cost)) = (CHOOSE g : Is(g))[S]
  BY DEF Summed, MapThenSumSet, MapThenFoldSet
<1>2. ASSUME NEW g PROVE Is(g) <=> Folded(g, f, S)
  <2>1. \A s \in SUBSET S : s # {} =>
          f[CHOOSE x \in s : TRUE] = Money(table[CHOOSE x \in s : TRUE].cost)
    OBVIOUS
  <2> QED BY <2>1 DEF Folded
<1>3. IsFiniteSet(S) /\ \A x \in S : f[x] \in Nat
  OBVIOUS
<1>4. \E g : Is(g)
  <2>1. Folded([s \in SUBSET S |-> Sum(f, s)], f, S)
    BY <1>3, SumIsFolded
  <2> HIDE DEF S, Is
  <2> QED BY <1>2, <2>1
<1>5. Is(CHOOSE g : Is(g))
  BY <1>4
<1> HIDE DEF Is, S
<1>6. (CHOOSE g : Is(g))[S] = Sum(f, S)
  BY <1>2, <1>3, <1>5, FoldIsSum
<1> QED BY <1>1, <1>6 DEF S

-----------------------------------------------------------------------------
\* Rows in two lots.
LEMMA LotsAddUp ==
  ASSUME NEW U, PricedRows(U), NEW A \in SUBSET U, NEW B \in SUBSET U, A \cap B = {}
  PROVE  /\ Total(A \cup B).calls = Total(A).calls + Total(B).calls
         /\ Total(A \cup B).unpriced = Total(A).unpriced + Total(B).unpriced
         /\ Money(Total(A \cup B).cost) = Money(Total(A).cost) + Money(Total(B).cost)
         /\ Sum(Ones(U), A) \in Nat /\ Sum(Blanks(U), A) \in Nat /\ Sum(Costs(U), A) \in Nat
<1>1. IsFiniteSet(A) /\ IsFiniteSet(B) /\ A \cup B \in SUBSET U
  BY FS_Subset DEF PricedRows
<1>2. \A x \in A \cup B : Ones(U)[x] \in Nat /\ Blanks(U)[x] \in Nat /\ Costs(U)[x] \in Nat
  BY MeasuresAreNumbers
<1>3. ASSUME NEW f, \A x \in A \cup B : f[x] \in Nat
      PROVE  Sum(f, A \cup B) = Sum(f, A) + Sum(f, B) /\ Sum(f, A) \in Nat
  <2>1. Sum(f, A \cup B) = Sum(f, A) + Sum(f, B)
    BY <1>1, <1>3, SumsAdd
  <2>2. Sum(f, A) \in Nat
    <3>1. \A x \in A : f[x] \in Nat
      BY <1>3
    <3> QED BY <1>1, <3>1, PilesAreFinite
  <2> QED BY <2>1, <2>2
<1>4. /\ Sum(Ones(U), A \cup B) = Sum(Ones(U), A) + Sum(Ones(U), B) /\ Sum(Ones(U), A) \in Nat
      /\ Sum(Blanks(U), A \cup B) = Sum(Blanks(U), A) + Sum(Blanks(U), B) /\ Sum(Blanks(U), A) \in Nat
      /\ Sum(Costs(U), A \cup B) = Sum(Costs(U), A) + Sum(Costs(U), B) /\ Sum(Costs(U), A) \in Nat
  BY <1>2, <1>3
<1> QED BY <1>1, <1>4, TotalsAreSums

\* The groups of some rows, by what they have in one column.
TotalsOf(table, K, G) == DOMAIN table = K /\ \A k \in K : table[k] = Total(G[k])

LEMMA RowsInGroups ==
  ASSUME NEW U, PricedRows(U), NEW R \in SUBSET U, NEW K, NEW G, Groups(R, K, G), NEW table, TotalsOf(table, K, G)
  PROVE  /\ Summed(table, LAMBDA t : t.calls) = Total(R).calls
         /\ Summed(table, LAMBDA t : t.unpriced) = Total(R).unpriced
         /\ Summed(table, LAMBDA t : Money(t.cost)) = Money(Total(R).cost)
<1> USE DEF TotalsOf
<1>1. IsFiniteSet(R) /\ Weighs(Ones(U), R) /\ Weighs(Blanks(U), R) /\ Weighs(Costs(U), R)
  BY FS_Subset, MeasuresAreNumbers DEF PricedRows, Weighs
<1>2. ASSUME NEW v, Weighs(v, R)
      PROVE  /\ Sum(GroupSums(v, K, G), K) = Sum(v, R)
             /\ \A k \in K : GroupSums(v, K, G)[k] = Sum(v, G[k]) /\ Sum(v, G[k]) \in Nat
  <2>1. /\ Sum(GroupSums(v, K, G), K) = Sum(v, R)
        /\ \A k \in K : Sum(v, G[k]) \in Nat
    BY <1>1, <1>2, GroupsAddUp
  <2> QED BY <2>1 DEF GroupSums
<1>3. \A k \in K : /\ table[k].calls = Sum(Ones(U), G[k])
                   /\ table[k].unpriced = Sum(Blanks(U), G[k])
                   /\ Money(table[k].cost) = Sum(Costs(U), G[k])
  <2>1. \A k \in K : G[k] \in SUBSET U
    BY DEF Groups
  <2> QED BY <2>1, TotalsAreSums
<1>4. /\ Total(R).calls = Sum(Ones(U), R) /\ Total(R).unpriced = Sum(Blanks(U), R)
      /\ Money(Total(R).cost) = Sum(Costs(U), R)
  BY TotalsAreSums
<1>a. IsFiniteSet(DOMAIN table) /\ DOMAIN table = K
  BY DEF Groups
<1>5. Summed(table, LAMBDA t : t.calls) = Total(R).calls
  <2> DEFINE f == GroupSums(Ones(U), K, G)
  <2>1. Sum(f, K) = Sum(Ones(U), R) /\ \A k \in K : f[k] = table[k].calls /\ f[k] \in Nat
    BY <1>1, <1>2, <1>3
  <2> HIDE DEF f
  <2>2. Summed(table, LAMBDA t : t.calls) = Sum(f, DOMAIN table)
    BY <1>a, <2>1, CallsAreSummed
  <2> QED BY <1>4, <1>a, <2>1, <2>2
<1>6. Summed(table, LAMBDA t : t.unpriced) = Total(R).unpriced
  <2> DEFINE f == GroupSums(Blanks(U), K, G)
  <2>1. Sum(f, K) = Sum(Blanks(U), R) /\ \A k \in K : f[k] = table[k].unpriced /\ f[k] \in Nat
    BY <1>1, <1>2, <1>3
  <2> HIDE DEF f
  <2>2. Summed(table, LAMBDA t : t.unpriced) = Sum(f, DOMAIN table)
    BY <1>a, <2>1, UnpricedAreSummed
  <2> QED BY <1>4, <1>a, <2>1, <2>2
<1>7. Summed(table, LAMBDA t : Money(t.cost)) = Money(Total(R).cost)
  <2> DEFINE f == GroupSums(Costs(U), K, G)
  <2>1. Sum(f, K) = Sum(Costs(U), R) /\ \A k \in K : f[k] = Money(table[k].cost) /\ f[k] \in Nat
    BY <1>1, <1>2, <1>3
  <2> HIDE DEF f
  <2>2. Summed(table, LAMBDA t : Money(t.cost)) = Sum(f, DOMAIN table)
    BY <1>a, <2>1, CostColumnIsSummed
  <2> QED BY <1>4, <1>a, <2>1, <2>2
<1> QED BY <1>5, <1>6, <1>7

-----------------------------------------------------------------------------
\* The rows of a workspace in a month, and what its counter says of them.
Monthly(U, w, n) == {r \in U : r.payer = w /\ MonthOf(r.day) = n}
Counted ==
  \A w \in Spenders, n \in Months :
    counter[<<w, n>>] = [calls |-> Cardinality(Monthly(usage, w, n)),
                         cost |-> Money(Cost(Monthly(usage, w, n)))]

\* The ledger's rows; the last one's id is their number.
LedgerOK ==
  /\ IsFiniteSet(usage)
  /\ \A r \in usage : /\ r.id \in 1 .. Cardinality(usage) /\ r.payer \in Payers
                      /\ r.seat = Asker[r.id] /\ r.cost \in Priced /\ r.day \in 1 .. DayMax
                      /\ r.lag \in Nat

LEMMA RollupsFollow ==
  ASSUME LedgerOK, Counted
  PROVE  RollupsAgree
<1>1. PricedRows(usage)
  BY DEF LedgerOK, PricedRows
<1>2. \A r \in usage : r.day \in Nat
  BY DEF LedgerOK
<1>3. ASSUME NEW w \in Payers, NEW s \in 1 .. DayMax + 1, NEW u \in 1 .. DayMax + 1, s < u
      PROVE  LET whole == Total(OfPayer(w, s, u))
                 first == DailySeries(w, s, u)[s]
                 rest == Total(OfPayer(w, s + 1, u))
             IN /\ whole.calls = first.calls + rest.calls
                /\ whole.unpriced = first.unpriced + rest.unpriced
                /\ Money(whole.cost) = Money(first.cost) + Money(rest.cost)
                /\ whole.cost = NoRate <=> whole.unpriced = whole.calls
  <2>1. s \in Nat /\ u \in Nat
    BY UsageAssumption DEF UsageAssumption
  <2>2. DailySeries(w, s, u)[s] = Total(OfPayer(w, s, s + 1))
    <3>1. s \in s .. u - 1
      BY <1>3, <2>1
    <3> QED BY <3>1 DEF DailySeries
  <2> DEFINE A == OfPayer(w, s, s + 1)
             B == OfPayer(w, s + 1, u)
             C == OfPayer(w, s, u)
  <2>3. A \in SUBSET usage /\ B \in SUBSET usage /\ C \in SUBSET usage
    BY DEF OfPayer, Period
  <2>4. C = A \cup B /\ A \cap B = {}
    BY <1>2, <1>3, <2>1 DEF OfPayer, Period
  <2> HIDE DEF A, B, C
  <2>5. /\ Total(A \cup B).calls = Total(A).calls + Total(B).calls
        /\ Total(A \cup B).unpriced = Total(A).unpriced + Total(B).unpriced
        /\ Money(Total(A \cup B).cost) = Money(Total(A).cost) + Money(Total(B).cost)
    BY <1>1, <2>3, <2>4, LotsAddUp
  <2>6. Total(C).cost = NoRate <=> Total(C).unpriced = Total(C).calls
    BY <1>1, <2>3, TotalsAreSums
  <2>7. DailySeries(w, s, u)[s] = Total(A)
    BY <2>2 DEF A
  <2>8. /\ Total(C).calls = Total(A).calls + Total(B).calls
        /\ Total(C).unpriced = Total(A).unpriced + Total(B).unpriced
        /\ Money(Total(C).cost) = Money(Total(A).cost) + Money(Total(B).cost)
    BY <2>4, <2>5
  <2> QED BY <2>6, <2>7, <2>8 DEF B, C
<1>4. ASSUME NEW s \in 1 .. DayMax + 1, NEW u \in 1 .. DayMax + 1, s < u
      PROVE  LET all == PlatformTotals(s, u)
             IN /\ Money(all.whole.cost) = Money(all.own.cost)
                                            + Summed(TopTenants(s, u), LAMBDA t : Money(t.cost))
                /\ all.whole.unpriced = UnpricedModels(s, u)
  <2> DEFINE R == Period(s, u)
             Own == OfPayer(Platform, s, u)
             Theirs == R \ Own
             K == {r.payer : r \in R} \ {Platform}
             G == [k \in K |-> OfPayer(k, s, u)]
  <2>1. /\ R \in SUBSET usage /\ Own \in SUBSET usage /\ Theirs \in SUBSET usage
        /\ R = Own \cup Theirs /\ Own \cap Theirs = {}
    BY DEF OfPayer, Period
  <2>2. Money(Total(R).cost) = Money(Total(Own).cost) + Money(Total(Theirs).cost)
    <3> HIDE DEF R, Own, Theirs
    <3>1. Money(Total(Own \cup Theirs).cost) = Money(Total(Own).cost) + Money(Total(Theirs).cost)
      BY <1>1, <2>1, LotsAddUp
    <3> QED BY <2>1, <3>1
  <2>3. IsFiniteSet(K)
    <3>1. IsFiniteSet(R)
      <4>1. IsFiniteSet(usage)
        BY DEF LedgerOK
      <4> HIDE DEF R
      <4> QED BY <2>1, <4>1, FS_Subset
    <3>2. IsFiniteSet({r.payer : r \in R})
      <4> DEFINE f == [r \in R |-> r.payer]
      <4> HIDE DEF R
      <4>1. {f[r] : r \in R} = {r.payer : r \in R}
        OBVIOUS
      <4> HIDE DEF f
      <4>2. IsFiniteSet({f[r] : r \in R})
        BY <3>1, ColumnIsFinite
      <4> QED BY <4>1, <4>2
    <3> HIDE DEF R
    <3> QED BY <3>2, FS_Difference
  <2>4. Groups(Theirs, K, G)
    <3>1. /\ G \in [K -> SUBSET Theirs] /\ \A r \in Theirs : \E k \in K : r \in G[k]
          /\ \A k, l \in K : k # l => G[k] \cap G[l] = {}
      BY DEF OfPayer, Period
    <3> HIDE DEF R, Own, Theirs, K, G
    <3> QED BY <2>3, <3>1 DEF Groups
  <2>5. TotalsOf(TopTenants(s, u), K, G)
    BY DEF TopTenants, TotalsOf
  <2>6. Summed(TopTenants(s, u), LAMBDA t : Money(t.cost)) = Money(Total(Theirs).cost)
    <3> DEFINE table == TopTenants(s, u)
    <3>1. TotalsOf(table, K, G)
      BY <2>5
    <3> HIDE DEF R, Own, Theirs, K, G, table
    <3>2. Summed(table, LAMBDA t : Money(t.cost)) = Money(Total(Theirs).cost)
      BY <1>1, <2>1, <2>4, <3>1, RowsInGroups
    <3> QED BY <3>2 DEF table
  <2>7. /\ PlatformTotals(s, u).whole = Total(R) /\ PlatformTotals(s, u).own = Total(Own)
        /\ Total(R).unpriced = UnpricedModels(s, u)
    BY DEF PlatformTotals, UnpricedModels, Total
  <2> HIDE DEF R, Own, Theirs, K, G
  <2> QED BY <2>2, <2>6, <2>7
<1>5. \A w \in Spenders, n \in Months :
        LET rows == {r \in usage : r.payer = w /\ MonthOf(r.day) = n}
        IN counter[<<w, n>>] = [calls |-> Cardinality(rows), cost |-> Money(Cost(rows))]
  BY DEF Counted, Monthly
<1> QED BY <1>3, <1>4, <1>5 DEF RollupsAgree

\* A page shows what there was when its totals were read.
PageOK ==
  page # NoPage =>
    /\ page.rows \in Nat /\ page.rows <= Cardinality(usage) /\ page.on \in Nat /\ page.on <= day
    /\ page.on = day =>
         page.totals = Total({r \in OfPayer(page.of, Since(page.days), Tomorrow) : r.id <= page.rows})

LEMMA SeatsFollow ==
  ASSUME LedgerOK, PageOK
  PROVE  SeatsAddUp
<1> SUFFICES ASSUME page # NoPage, page.on = day
             PROVE  LET seats == ByActor(page.of, Since(page.days), Tomorrow)
                        between == Total({r \in OfPayer(page.of, Since(page.days), Tomorrow) : r.id > page.rows})
                    IN /\ Summed(seats, LAMBDA t : t.calls) = page.totals.calls + between.calls
                       /\ Summed(seats, LAMBDA t : t.unpriced) = page.totals.unpriced + between.unpriced
                       /\ Summed(seats, LAMBDA t : Money(t.cost)) = Money(page.totals.cost) + Money(between.cost)
  BY DEF SeatsAddUp
<1> DEFINE R == OfPayer(page.of, Since(page.days), Tomorrow)
           Old == {r \in R : r.id <= page.rows}
           Late == {r \in R : r.id > page.rows}
           K == {r.seat : r \in R}
           G == [k \in K |-> {r \in R : r.seat = k}]
           table == ByActor(page.of, Since(page.days), Tomorrow)
<1>1. PricedRows(usage)
  BY DEF LedgerOK, PricedRows
<1>2. R \in SUBSET usage
  BY DEF OfPayer, Period
<1>3. /\ Old \in SUBSET usage /\ Late \in SUBSET usage /\ R = Old \cup Late /\ Old \cap Late = {}
  <2>1. \A r \in R : r.id \in Nat
    <3> HIDE DEF R
    <3> QED BY <1>2 DEF LedgerOK
  <2>2. page.rows \in Nat
    BY DEF PageOK
  <2> HIDE DEF R
  <2> QED BY <1>2, <2>1, <2>2
<1>4. page.totals = Total(Old)
  BY DEF PageOK
<1>5. IsFiniteSet(K)
  <2>1. IsFiniteSet(usage)
    BY DEF LedgerOK
  <2> HIDE DEF R
  <2>2. IsFiniteSet(R)
    BY <1>2, <2>1, FS_Subset
  <2> DEFINE f == [r \in R |-> r.seat]
  <2>3. {f[r] : r \in R} = {r.seat : r \in R}
    OBVIOUS
  <2> HIDE DEF f
  <2>4. IsFiniteSet({f[r] : r \in R})
    BY <2>2, ColumnIsFinite
  <2> QED BY <2>3, <2>4
<1>6. Groups(R, K, G)
  <2> HIDE DEF R
  <2>1. /\ G \in [K -> SUBSET R] /\ \A r \in R : \E k \in K : r \in G[k]
        /\ \A k, l \in K : k # l => G[k] \cap G[l] = {}
    OBVIOUS
  <2> HIDE DEF K, G
  <2> QED BY <1>5, <2>1 DEF Groups
<1>7. TotalsOf(table, K, G)
  BY DEF ByActor, TotalsOf
<1>8. /\ Summed(table, LAMBDA t : t.calls) = Total(R).calls
      /\ Summed(table, LAMBDA t : t.unpriced) = Total(R).unpriced
      /\ Summed(table, LAMBDA t : Money(t.cost)) = Money(Total(R).cost)
  <2> HIDE DEF R, K, G, table
  <2> QED BY <1>1, <1>2, <1>6, <1>7, RowsInGroups
<1>9. /\ Total(R).calls = Total(Old).calls + Total(Late).calls
      /\ Total(R).unpriced = Total(Old).unpriced + Total(Late).unpriced
      /\ Money(Total(R).cost) = Money(Total(Old).cost) + Money(Total(Late).cost)
  <2> HIDE DEF R, Old, Late
  <2>1. /\ Total(Old \cup Late).calls = Total(Old).calls + Total(Late).calls
        /\ Total(Old \cup Late).unpriced = Total(Old).unpriced + Total(Late).unpriced
        /\ Money(Total(Old \cup Late).cost) = Money(Total(Old).cost) + Money(Total(Late).cost)
    BY <1>1, <1>3, LotsAddUp
  <2> QED BY <1>3, <2>1
<1> QED BY <1>4, <1>8, <1>9

-----------------------------------------------------------------------------
\* The requests that are recording a call: each of them writes one row or none.
Recording == {m \in Meters : errand[m].step \in Metering}
RoomOK == Cardinality(usage) + Cardinality(Recording) <= called

Errands == [step : {"home"} \cup Metering \cup Editing, holds : Priced, to : Priced, time : 0 .. Longest]

UsageShapes ==
  /\ rate \in Priced
  /\ entry = NoEntry \/ entry \in [price : Priced, age : 0 .. PriceTtl]
  /\ errand \in [Meters -> Errands]
  /\ counter \in [Spenders \X Months -> [calls : Nat, cost : Nat]]
  /\ day \in 1 .. DayMax /\ priced \in 0 .. EditMax /\ called \in 0 .. CallMax
  /\ gone \in [Priced -> 0 .. Stale]
  /\ slipped \in BOOLEAN /\ met \in BOOLEAN /\ misled \in BOOLEAN
  /\ \A m \in Meters : errand[m].step = "home" => errand[m] = AtHome

\* How old the prices are that an entry shows and a request holds: what was read
\* of the table is as old as the request at most, what was cached as old as the
\* entry and that request, and what was found in the cache as old as that and
\* this request.
PricesOK ==
  /\ gone[rate] = 0
  /\ entry # NoEntry => gone[entry.price] <= Longest + entry.age
  /\ \A m \in Meters :
       /\ errand[m].step = "cache" => gone[errand[m].holds] <= errand[m].time
       /\ errand[m].step = "write" => gone[errand[m].holds] <= PriceTtl + Longest + errand[m].time

\* As long as nothing slipped, an entry that is wrong is about to be dropped by
\* an edit no older than its mistake.
DropsOK ==
  ~slipped =>
    /\ entry # NoEntry =>
         \/ entry.price = rate
         \/ \E m \in Meters : errand[m].step = "drop" /\ gone[entry.price] <= errand[m].time
    /\ \A m \in Meters :
         errand[m].step = "write" => gone[errand[m].holds] <= Longest + errand[m].time

\* Edits that never met are one at a time, and one that has read what it is to
\* replace has the table to itself.
EditsOK ==
  ~met =>
    /\ ~misled
    /\ \A m, o \in Meters : errand[m].step \in Editing /\ errand[o].step \in Editing => m = o
    /\ \A m \in Meters : errand[m].step = "upsert" => errand[m].holds = rate

UsageIndInv ==
  UsageShapes /\ LedgerOK /\ Counted /\ PageOK /\ RoomOK /\ PricesOK /\ DropsOK /\ EditsOK /\ ChargesAreRecent

LEMMA UsageParameters ==
  /\ PriceTtl \in Nat /\ Longest \in Nat /\ DayMax \in Nat \ {0} /\ CallMax \in Nat /\ EditMax \in Nat
  /\ Stale \in Nat /\ Stale = PriceTtl + 2 * Longest + 1
  /\ Rates \subseteq Nat /\ NoRate \in Priced /\ NoRate \notin Nat
  /\ Platform \notin Spenders /\ IsFiniteSet(Meters) /\ AtHome \in Errands
  /\ AtHome.step = "home" /\ AtHome.time = 0
BY UsageAssumption DEF UsageAssumption, Stale, Priced, AtHome, Errands

LEMMA UsageIndInvImplies == UsageIndInv => UsageInv
<1> SUFFICES ASSUME UsageIndInv PROVE UsageInv
  OBVIOUS
<1>1. RollupsAgree /\ SeatsAddUp
  BY RollupsFollow, SeatsFollow DEF UsageIndInv
<1>2. Cardinality(usage) <= CallMax /\ Cardinality(usage) \in Nat
  <2>1. IsFiniteSet(Recording) /\ Recording \subseteq Meters
    BY UsageParameters, FS_Subset DEF Recording
  <2>2. Cardinality(Recording) \in Nat /\ Cardinality(usage) \in Nat
    BY <2>1, FS_CardinalityType DEF UsageIndInv, LedgerOK
  <2> QED BY <2>2, UsageParameters DEF UsageIndInv, RoomOK, UsageShapes
<1>3. UsageTypeOK
  <2>1. \A r \in usage : r.id \in 1 .. CallMax /\ r.payer \in Payers
                          /\ r.seat = Asker[r.id] /\ r.cost \in Priced /\ r.day \in 1 .. DayMax
    BY <1>2, UsageParameters DEF UsageIndInv, LedgerOK
  <2> QED BY <2>1 DEF UsageIndInv, UsageShapes, UsageTypeOK, Errands
<1>4. TrailIsTrue
  BY DEF UsageIndInv, EditsOK, TrailIsTrue
<1> QED BY <1>1, <1>3, <1>4 DEF UsageIndInv, UsageInv

LEMMA InitUsageInd == UsageInit => UsageIndInv
<1> SUFFICES ASSUME UsageInit PROVE UsageIndInv
  OBVIOUS
<1> USE DEF UsageInit
<1>1. UsageShapes
  <2>1. errand \in [Meters -> Errands] /\ \A m \in Meters : errand[m] = AtHome
    BY UsageParameters
  <2>2. gone \in [Priced -> 0 .. Stale]
    BY UsageParameters
  <2>3. counter \in [Spenders \X Months -> [calls : Nat, cost : Nat]]
    OBVIOUS
  <2>4. day \in 1 .. DayMax /\ priced \in 0 .. EditMax /\ called \in 0 .. CallMax
    BY UsageParameters
  <2> QED BY <2>1, <2>2, <2>3, <2>4 DEF UsageShapes
<1>2. LedgerOK /\ Cardinality(usage) = 0
  BY FS_EmptySet DEF LedgerOK
<1>3. Counted
  <2>1. \A w, n : Monthly(usage, w, n) = {}
    BY DEF Monthly
  <2>2. Cost({}) = NoRate /\ Money(NoRate) = 0 /\ Cardinality({}) = 0
    BY FS_EmptySet DEF Cost, Money
  <2> QED BY <2>1, <2>2 DEF Counted
<1>4. RoomOK
  <2>1. Recording = {}
    BY DEF Recording, AtHome, Metering
  <2> QED BY <1>2, <2>1, FS_EmptySet DEF RoomOK
<1>5. PageOK /\ PricesOK /\ DropsOK /\ EditsOK /\ ChargesAreRecent
  BY DEF PageOK, PricesOK, DropsOK, EditsOK, ChargesAreRecent, AtHome, Editing
<1> QED BY <1>1, <1>2, <1>3, <1>4, <1>5 DEF UsageIndInv

-----------------------------------------------------------------------------
\* What a request turns to.
LEMMA ErrandTurns ==
  ASSUME UsageShapes, NEW m \in Meters, NEW s \in Metering \cup Editing, NEW p \in Priced,
         Turns(m, s, p)
  PROVE  /\ errand' \in [Meters -> Errands]
         /\ errand'[m].step = s /\ errand'[m].holds = p /\ errand'[m].time = errand[m].time
         /\ \A o \in Meters \ {m} : errand'[o] = errand[o]
         /\ \A o \in Meters : errand'[o].step = "home" => errand'[o] = AtHome
<1>1. errand[m] \in Errands /\ s # "home"
  BY DEF UsageShapes, Metering, Editing
<1>2. errand' = [errand EXCEPT ![m] = [errand[m] EXCEPT !.step = s, !.holds = p]]
  BY DEF UsageShapes, Turns
<1>3. [errand[m] EXCEPT !.step = s, !.holds = p] \in Errands
  BY <1>1 DEF Errands
<1>4. /\ [errand[m] EXCEPT !.step = s, !.holds = p].step = s
      /\ [errand[m] EXCEPT !.step = s, !.holds = p].holds = p
      /\ [errand[m] EXCEPT !.step = s, !.holds = p].time = errand[m].time
  BY <1>1 DEF Errands
<1> QED BY <1>1, <1>2, <1>3, <1>4 DEF UsageShapes

LEMMA ErrandGoesHome ==
  ASSUME UsageShapes, NEW m \in Meters, GoesHome(m)
  PROVE  /\ errand' \in [Meters -> Errands] /\ errand'[m] = AtHome
         /\ \A o \in Meters \ {m} : errand'[o] = errand[o]
         /\ \A o \in Meters : errand'[o].step = "home" => errand'[o] = AtHome
BY UsageParameters DEF UsageShapes, GoesHome

\* What does not touch the ledger.
LEMMA LedgerStays ==
  ASSUME LedgerOK, Counted, PageOK, ChargesAreRecent, UNCHANGED <<usage, counter, day, page>>
  PROVE  LedgerOK' /\ Counted' /\ PageOK' /\ ChargesAreRecent'
BY DEF LedgerOK, Counted, Monthly, PageOK, ChargesAreRecent, OfPayer, Period, Since, Tomorrow

LEMMA RecordingIsFinite == IsFiniteSet(Recording) /\ Cardinality(Recording) \in Nat
<1>1. Recording \subseteq Meters
  BY DEF Recording
<1> QED BY <1>1, UsageParameters, FS_Subset, FS_CardinalityType

LEMMA RoomStays ==
  ASSUME UsageShapes, LedgerOK, RoomOK, UNCHANGED <<usage, called>>,
         \A m \in Meters : errand'[m].step \in Metering => errand[m].step \in Metering
  PROVE  RoomOK'
<1>1. Recording' \subseteq Recording
  BY DEF Recording
<1>2. Cardinality(Recording') <= Cardinality(Recording) /\ Cardinality(Recording') \in Nat
  BY <1>1, RecordingIsFinite, FS_Subset, FS_CardinalityType
<1>3. Cardinality(usage) \in Nat /\ called \in Nat
  BY UsageParameters, FS_CardinalityType DEF LedgerOK, UsageShapes
<1> QED BY <1>2, <1>3, RecordingIsFinite DEF RoomOK

\* The price changes: those it was and is are in effect now.
LEMMA PriceMoves ==
  ASSUME UsageShapes, NEW p \in Priced, PriceIs(p)
  PROVE  /\ rate' = p /\ gone' \in [Priced -> 0 .. Stale]
         /\ gone'[rate] = 0 /\ gone'[p] = 0
         /\ \A q \in Priced : gone'[q] <= gone[q]
BY UsageParameters DEF UsageShapes, PriceIs

-----------------------------------------------------------------------------
LEMMA BeginCallInd == ASSUME UsageIndInv, NEW m \in Meters, BeginCall(m) PROVE UsageIndInv'
<1> USE DEF UsageIndInv
<1>1. /\ errand[m].step = "home" /\ errand[m] = AtHome /\ called < CallMax /\ called' = called + 1
      /\ UNCHANGED <<rate, entry, usage, counter, day, page, gone, slipped, priced, met, misled>>
  BY DEF BeginCall, Steps, UsageShapes, audit
<1>2. \E s \in {"read", "write"}, p \in Priced :
        /\ Turns(m, s, p)
        /\ s = "write" => entry # NoEntry /\ p = entry.price
  <2>1. CASE entry = NoEntry
    BY <2>1, UsageParameters DEF BeginCall
  <2>2. CASE entry # NoEntry
    BY <2>2 DEF BeginCall, UsageShapes
  <2> QED BY <2>1, <2>2
<1>3. PICK s \in {"read", "write"}, p \in Priced :
        /\ Turns(m, s, p)
        /\ s = "write" => entry # NoEntry /\ p = entry.price
  BY <1>2
<1>4. /\ errand' \in [Meters -> Errands]
      /\ errand'[m].step = s /\ errand'[m].holds = p /\ errand'[m].time = errand[m].time
      /\ \A o \in Meters \ {m} : errand'[o] = errand[o]
      /\ \A o \in Meters : errand'[o].step = "home" => errand'[o] = AtHome
  <2>1. s \in Metering \cup Editing
    BY DEF Metering
  <2> QED BY <1>3, <2>1, ErrandTurns
<1>5. UsageShapes'
  BY <1>1, <1>4, UsageParameters DEF UsageShapes
<1>6. LedgerOK' /\ Counted' /\ PageOK' /\ ChargesAreRecent'
  BY <1>1, LedgerStays
<1>7. RoomOK'
  <2>1. Recording' = Recording \cup {m} /\ m \notin Recording
    BY <1>1, <1>4 DEF Recording, Metering
  <2>2. Cardinality(Recording') = Cardinality(Recording) + 1
    BY <2>1, RecordingIsFinite, FS_AddElement
  <2>3. Cardinality(usage) \in Nat /\ called \in Nat
    BY UsageParameters, FS_CardinalityType DEF LedgerOK, UsageShapes
  <2> QED BY <1>1, <2>2, <2>3, RecordingIsFinite DEF RoomOK
<1>8. /\ entry # NoEntry => entry.price \in Priced /\ gone[entry.price] \in Nat /\ entry.age \in 0 .. PriceTtl
      /\ errand[m].time = 0
      /\ \A o \in Meters : errand[o].time \in 0 .. Longest
  BY <1>1, UsageParameters DEF UsageShapes, Errands
<1>9. PricesOK'
  <2>1. s = "write" => gone[p] <= PriceTtl + Longest
    BY <1>3, <1>8, UsageParameters DEF PricesOK
  <2> QED BY <1>1, <1>4, <1>8, <2>1, UsageParameters DEF PricesOK
<1>10. DropsOK'
  <2>1. ~slipped /\ s = "write" => gone[p] <= Longest
    BY <1>3, <1>8, UsageParameters DEF PricesOK, DropsOK
  <2>2. \A o \in Meters : errand[o].step = "drop" => errand'[o] = errand[o]
    BY <1>1, <1>4
  <2> QED BY <1>1, <1>4, <1>8, <2>1, <2>2, UsageParameters DEF DropsOK
<1>11. EditsOK'
  BY <1>1, <1>4 DEF EditsOK, Editing
<1> QED BY <1>5, <1>6, <1>7, <1>9, <1>10, <1>11

LEMMA ReadPriceInd == ASSUME UsageIndInv, NEW m \in Meters, ReadPrice(m) PROVE UsageIndInv'
<1> USE DEF UsageIndInv
<1>1. /\ errand[m].step = "read"
      /\ UNCHANGED <<rate, entry, usage, counter, day, page, called, gone, slipped, priced, met, misled>>
  BY DEF ReadPrice, Steps, audit, book
<1>2. /\ errand' \in [Meters -> Errands]
      /\ errand'[m].step = "cache" /\ errand'[m].holds = rate /\ errand'[m].time = errand[m].time
      /\ \A o \in Meters \ {m} : errand'[o] = errand[o]
      /\ \A o \in Meters : errand'[o].step = "home" => errand'[o] = AtHome
  BY ErrandTurns DEF ReadPrice, Metering, UsageShapes
<1>3. UsageShapes'
  BY <1>1, <1>2, UsageParameters DEF UsageShapes
<1>4. LedgerOK' /\ Counted' /\ PageOK' /\ ChargesAreRecent'
  BY <1>1, LedgerStays
<1>5. RoomOK'
  <2>1. \A o \in Meters : errand'[o].step \in Metering => errand[o].step \in Metering
    BY <1>1, <1>2 DEF Metering
  <2> QED BY <1>1, <2>1, RoomStays
<1>6. PricesOK'
  <2>1. errand[m].time \in Nat
    BY UsageParameters DEF UsageShapes, Errands
  <2> QED BY <1>1, <1>2, <2>1 DEF PricesOK
<1>7. DropsOK'
  <2>1. \A o \in Meters : errand[o].step = "drop" => errand'[o] = errand[o]
    BY <1>1, <1>2
  <2> QED BY <1>1, <1>2, <2>1 DEF DropsOK
<1>8. EditsOK'
  BY <1>1, <1>2 DEF EditsOK, Editing
<1> QED BY <1>3, <1>4, <1>5, <1>6, <1>7, <1>8

LEMMA CachePriceInd == ASSUME UsageIndInv, NEW m \in Meters, CachePrice(m) PROVE UsageIndInv'
<1> USE DEF UsageIndInv
<1>1. /\ errand[m].step = "cache" /\ entry' = [price |-> errand[m].holds, age |-> 0]
      /\ slipped' = (slipped \/ errand[m].holds # rate)
      /\ UNCHANGED <<rate, usage, counter, day, page, called, gone, priced, met, misled>>
  BY DEF CachePrice, Steps, audit, book
<1>2. errand[m].holds \in Priced /\ errand[m].time \in 0 .. Longest /\ gone[errand[m].holds] \in Nat
  BY UsageParameters DEF UsageShapes, Errands
<1>3. /\ errand' \in [Meters -> Errands]
      /\ errand'[m].step = "write" /\ errand'[m].holds = errand[m].holds /\ errand'[m].time = errand[m].time
      /\ \A o \in Meters \ {m} : errand'[o] = errand[o]
      /\ \A o \in Meters : errand'[o].step = "home" => errand'[o] = AtHome
  BY <1>2, ErrandTurns DEF CachePrice, Metering
<1>4. UsageShapes'
  BY <1>1, <1>2, <1>3, UsageParameters DEF UsageShapes
<1>5. LedgerOK' /\ Counted' /\ PageOK' /\ ChargesAreRecent'
  BY <1>1, LedgerStays
<1>6. RoomOK'
  <2>1. \A o \in Meters : errand'[o].step \in Metering => errand[o].step \in Metering
    BY <1>1, <1>3 DEF Metering
  <2> QED BY <1>1, <2>1, RoomStays
<1>7. gone[errand[m].holds] <= errand[m].time
  BY <1>1 DEF PricesOK
<1>8. PricesOK'
  <2>1. entry'.price = errand[m].holds /\ entry'.age = 0
    BY <1>1
  <2>2. /\ gone[errand[m].holds] <= Longest + 0
        /\ gone[errand[m].holds] <= PriceTtl + Longest + errand[m].time
    BY <1>2, <1>7, UsageParameters
  <2> QED BY <1>1, <1>3, <2>1, <2>2 DEF PricesOK
<1>9. DropsOK'
  <2>1. entry'.price = errand[m].holds
    BY <1>1
  <2>2. gone[errand[m].holds] <= Longest + errand[m].time
    BY <1>2, <1>7, UsageParameters
  <2>3. \A o \in Meters : errand[o].step = "drop" => errand'[o] = errand[o]
    BY <1>1, <1>3
  <2> QED BY <1>1, <1>3, <2>1, <2>2, <2>3 DEF DropsOK
<1>10. EditsOK'
  BY <1>1, <1>3 DEF EditsOK, Editing
<1> QED BY <1>4, <1>5, <1>6, <1>8, <1>9, <1>10

-----------------------------------------------------------------------------
LEMMA BeginSetInd ==
  ASSUME UsageIndInv, NEW m \in Meters, NEW p \in Rates, BeginSet(m, p) PROVE UsageIndInv'
<1> USE DEF UsageIndInv
<1>1. /\ errand[m].step = "home" /\ priced < EditMax /\ priced' = priced + 1
      /\ met' = (met \/ \E o \in Meters : errand[o].step \in Editing)
      /\ errand' = [errand EXCEPT ![m] = [AtHome EXCEPT !.step = "upsert", !.holds = rate, !.to = p]]
      /\ UNCHANGED <<rate, entry, usage, counter, day, page, called, gone, slipped, misled>>
  BY DEF BeginSet, Edits, Steps, book
<1> DEFINE e == [AtHome EXCEPT !.step = "upsert", !.holds = rate, !.to = p]
<1>2. e \in Errands /\ e.step = "upsert" /\ e.holds = rate
  BY UsageParameters DEF AtHome, Errands, Editing, UsageShapes, Priced
<1>3. /\ errand' \in [Meters -> Errands] /\ errand'[m] = e
      /\ \A o \in Meters \ {m} : errand'[o] = errand[o]
      /\ \A o \in Meters : errand'[o].step = "home" => errand'[o] = AtHome
  BY <1>1, <1>2 DEF UsageShapes
<1> HIDE DEF e
<1>4. UsageShapes'
  BY <1>1, <1>3, UsageParameters DEF UsageShapes
<1>5. LedgerOK' /\ Counted' /\ PageOK' /\ ChargesAreRecent'
  BY <1>1, LedgerStays
<1>6. RoomOK'
  <2>1. \A o \in Meters : errand'[o].step \in Metering => errand[o].step \in Metering
    BY <1>2, <1>3 DEF Metering
  <2> QED BY <1>1, <2>1, RoomStays
<1>7. PricesOK'
  BY <1>1, <1>2, <1>3 DEF PricesOK
<1>8. DropsOK'
  <2>1. \A o \in Meters : errand[o].step = "drop" => errand'[o] = errand[o]
    BY <1>1, <1>3
  <2> QED BY <1>1, <1>2, <1>3, <2>1 DEF DropsOK
<1>9. EditsOK'
  BY <1>1, <1>2, <1>3 DEF EditsOK
<1> QED BY <1>4, <1>5, <1>6, <1>7, <1>8, <1>9

\* The price changes under an edit that will drop the entry: it was what the entry
\* says until now, or the entry is another's to drop.
LEMMA PriceOfEdit ==
  ASSUME UsageShapes, PricesOK, DropsOK, NEW m \in Meters, NEW p \in Priced, PriceIs(p),
         errand[m].step # "drop", errand' \in [Meters -> Errands], errand'[m].step = "drop",
         errand'[m].time \in Nat, \A o \in Meters \ {m} : errand'[o] = errand[o],
         UNCHANGED <<entry, slipped>>
  PROVE  PricesOK' /\ DropsOK'
<1>1. /\ rate' = p /\ gone' \in [Priced -> 0 .. Stale]
      /\ gone'[rate] = 0 /\ gone'[p] = 0
      /\ \A q \in Priced : gone'[q] <= gone[q]
  BY PriceMoves
<1>2. /\ entry # NoEntry => entry.price \in Priced /\ entry.age \in Nat
      /\ \A o \in Meters : errand[o].holds \in Priced /\ errand[o].time \in Nat
      /\ \A q \in Priced : gone[q] \in Nat /\ gone'[q] \in Nat
  BY <1>1, UsageParameters DEF UsageShapes, Errands
<1>3. PricesOK'
  <2>1. entry # NoEntry => gone'[entry.price] <= Longest + entry.age
    BY <1>1, <1>2, UsageParameters DEF PricesOK
  <2>2. ASSUME NEW o \in Meters
        PROVE  /\ errand'[o].step = "cache" => gone'[errand'[o].holds] <= errand'[o].time
               /\ errand'[o].step = "write" =>
                    gone'[errand'[o].holds] <= PriceTtl + Longest + errand'[o].time
    <3>1. CASE o = m
      BY <3>1
    <3>2. CASE o # m
      BY <1>1, <1>2, <3>2, UsageParameters DEF PricesOK
    <3> QED BY <3>1, <3>2
  <2> QED BY <1>1, <2>1, <2>2 DEF PricesOK
<1>4. DropsOK'
  <2> SUFFICES ASSUME ~slipped PROVE DropsOK'
    BY DEF DropsOK
  <2>1. ASSUME entry # NoEntry
        PROVE  \E o \in Meters : errand'[o].step = "drop" /\ gone'[entry.price] <= errand'[o].time
    <3>1. CASE entry.price = rate
      BY <1>1, <3>1
    <3>2. CASE entry.price # rate
      <4>1. PICK o \in Meters : errand[o].step = "drop" /\ gone[entry.price] <= errand[o].time
        BY <2>1, <3>2 DEF DropsOK
      <4>2. o # m /\ errand'[o] = errand[o]
        BY <4>1
      <4>3. gone'[entry.price] <= errand[o].time
        BY <1>1, <1>2, <2>1, <4>1
      <4> QED BY <4>1, <4>2, <4>3
    <3> QED BY <3>1, <3>2
  <2>2. ASSUME NEW o \in Meters, errand'[o].step = "write"
        PROVE  gone'[errand'[o].holds] <= Longest + errand'[o].time
    <3>1. o # m /\ errand'[o] = errand[o]
      BY <2>2
    <3>2. gone[errand[o].holds] <= Longest + errand[o].time
      BY <2>2, <3>1 DEF DropsOK
    <3> QED BY <1>1, <1>2, <3>1, <3>2, UsageParameters
  <2> QED BY <2>1, <2>2 DEF DropsOK
<1> QED BY <1>3, <1>4

LEMMA SetPriceInd == ASSUME UsageIndInv, NEW m \in Meters, SetPrice(m) PROVE UsageIndInv'
<1> USE DEF UsageIndInv
<1>1. /\ errand[m].step = "upsert" /\ PriceIs(errand[m].to)
      /\ misled' = (misled \/ errand[m].holds # rate)
      /\ UNCHANGED <<entry, usage, counter, day, page, called, slipped, priced, met>>
  BY DEF SetPrice, Steps, book
<1>2. errand[m].holds \in Priced /\ errand[m].to \in Priced /\ errand[m].time \in Nat
  BY UsageParameters DEF UsageShapes, Errands
<1>3. /\ errand' \in [Meters -> Errands]
      /\ errand'[m].step = "drop" /\ errand'[m].holds = errand[m].holds /\ errand'[m].time = errand[m].time
      /\ \A o \in Meters \ {m} : errand'[o] = errand[o]
      /\ \A o \in Meters : errand'[o].step = "home" => errand'[o] = AtHome
  BY <1>2, ErrandTurns DEF SetPrice, Editing
<1>4. UsageShapes'
  <2>1. rate' \in Priced /\ gone' \in [Priced -> 0 .. Stale]
    BY <1>1, <1>2, PriceMoves
  <2> QED BY <1>1, <1>3, <2>1, UsageParameters DEF UsageShapes
<1>5. LedgerOK' /\ Counted' /\ PageOK' /\ ChargesAreRecent'
  BY <1>1, LedgerStays
<1>6. RoomOK'
  <2>1. \A o \in Meters : errand'[o].step \in Metering => errand[o].step \in Metering
    BY <1>1, <1>3 DEF Metering
  <2> QED BY <1>1, <2>1, RoomStays
<1>7. PricesOK' /\ DropsOK'
  BY <1>1, <1>2, <1>3, PriceOfEdit
<1>8. EditsOK'
  <2> SUFFICES ASSUME ~met PROVE EditsOK'
    BY <1>1 DEF EditsOK
  <2>1. /\ ~misled /\ errand[m].holds = rate
        /\ \A o \in Meters \ {m} : errand[o].step \notin Editing
    BY <1>1 DEF EditsOK, Editing
  <2>2. \A o \in Meters : errand'[o].step \in Editing => o = m
    BY <1>3, <2>1
  <2>3. \A o \in Meters : errand'[o].step # "upsert"
    BY <1>3, <2>1 DEF Editing
  <2> QED BY <1>1, <2>1, <2>2, <2>3 DEF EditsOK
<1> QED BY <1>4, <1>5, <1>6, <1>7, <1>8

LEMMA DeletePriceInd == ASSUME UsageIndInv, NEW m \in Meters, DeletePrice(m) PROVE UsageIndInv'
<1> USE DEF UsageIndInv
<1>1. /\ errand[m].step = "home" /\ PriceIs(NoRate)
      /\ priced < EditMax /\ priced' = priced + 1
      /\ met' = (met \/ \E o \in Meters : errand[o].step \in Editing)
      /\ UNCHANGED <<entry, usage, counter, day, page, called, slipped, misled>>
  BY DEF DeletePrice, Edits, Steps, book
<1>2. rate \in Priced /\ errand[m].time \in Nat
  BY UsageParameters DEF UsageShapes, Errands
<1>3. /\ errand' \in [Meters -> Errands]
      /\ errand'[m].step = "drop" /\ errand'[m].holds = rate /\ errand'[m].time = errand[m].time
      /\ \A o \in Meters \ {m} : errand'[o] = errand[o]
      /\ \A o \in Meters : errand'[o].step = "home" => errand'[o] = AtHome
  BY <1>2, ErrandTurns DEF DeletePrice, Editing
<1>4. UsageShapes'
  <2>1. rate' \in Priced /\ gone' \in [Priced -> 0 .. Stale]
    BY <1>1, UsageParameters, PriceMoves
  <2> QED BY <1>1, <1>3, <2>1, UsageParameters DEF UsageShapes
<1>5. LedgerOK' /\ Counted' /\ PageOK' /\ ChargesAreRecent'
  BY <1>1, LedgerStays
<1>6. RoomOK'
  <2>1. \A o \in Meters : errand'[o].step \in Metering => errand[o].step \in Metering
    BY <1>1, <1>3 DEF Metering
  <2> QED BY <1>1, <2>1, RoomStays
<1>7. PricesOK' /\ DropsOK'
  BY <1>1, <1>2, <1>3, UsageParameters, PriceOfEdit
<1>8. EditsOK'
  <2> SUFFICES ASSUME ~met, \A o \in Meters : errand[o].step \notin Editing PROVE EditsOK'
    BY <1>1 DEF EditsOK
  <2>1. \A o \in Meters : errand'[o].step \in Editing => o = m
    BY <1>3
  <2>2. \A o \in Meters : errand'[o].step # "upsert"
    BY <1>3 DEF Editing
  <2> QED BY <1>1, <2>1, <2>2 DEF EditsOK
<1> QED BY <1>4, <1>5, <1>6, <1>7, <1>8

LEMMA DropPriceInd == ASSUME UsageIndInv, NEW m \in Meters, DropPrice(m) PROVE UsageIndInv'
<1> USE DEF UsageIndInv
<1>1. /\ errand[m].step = "drop" /\ entry' = NoEntry
      /\ UNCHANGED <<rate, usage, counter, day, page, called, gone, slipped, priced, met, misled>>
  BY DEF DropPrice, Steps, audit, book
<1>2. errand[m].holds \in Priced
  BY DEF UsageShapes, Errands
<1>3. /\ errand' \in [Meters -> Errands]
      /\ errand'[m].step = "audit" /\ errand'[m].holds = errand[m].holds /\ errand'[m].time = errand[m].time
      /\ \A o \in Meters \ {m} : errand'[o] = errand[o]
      /\ \A o \in Meters : errand'[o].step = "home" => errand'[o] = AtHome
  BY <1>2, ErrandTurns DEF DropPrice, Editing
<1>4. UsageShapes'
  BY <1>1, <1>3, UsageParameters DEF UsageShapes
<1>5. LedgerOK' /\ Counted' /\ PageOK' /\ ChargesAreRecent'
  BY <1>1, LedgerStays
<1>6. RoomOK'
  <2>1. \A o \in Meters : errand'[o].step \in Metering => errand[o].step \in Metering
    BY <1>1, <1>3 DEF Metering
  <2> QED BY <1>1, <2>1, RoomStays
<1>7. PricesOK'
  BY <1>1, <1>3 DEF PricesOK
<1>8. DropsOK'
  BY <1>1, <1>3 DEF DropsOK
<1>9. EditsOK'
  BY <1>1, <1>3 DEF EditsOK, Editing
<1> QED BY <1>4, <1>5, <1>6, <1>7, <1>8, <1>9

\* A request ends: TellEdit, and whatever fails.
LEMMA RequestLeaves ==
  ASSUME UsageIndInv, NEW m \in Meters, GoesHome(m), slipped' \in BOOLEAN, slipped => slipped',
         errand[m].step = "drop" => slipped',
         UNCHANGED <<rate, entry, usage, counter, day, page, called, gone, priced, met, misled>>
  PROVE  UsageIndInv'
<1> USE DEF UsageIndInv
<1>1. /\ errand' \in [Meters -> Errands] /\ errand'[m] = AtHome
      /\ \A o \in Meters \ {m} : errand'[o] = errand[o]
      /\ \A o \in Meters : errand'[o].step = "home" => errand'[o] = AtHome
  BY ErrandGoesHome
<1>2. errand'[m].step = "home"
  BY <1>1 DEF AtHome
<1>3. UsageShapes'
  BY <1>1, UsageParameters DEF UsageShapes
<1>4. LedgerOK' /\ Counted' /\ PageOK' /\ ChargesAreRecent'
  BY LedgerStays
<1>5. RoomOK'
  <2>1. \A o \in Meters : errand'[o].step \in Metering => errand[o].step \in Metering
    BY <1>1, <1>2 DEF Metering
  <2> QED BY <2>1, RoomStays
<1>6. PricesOK'
  BY <1>1, <1>2 DEF PricesOK
<1>7. DropsOK'
  <2> SUFFICES ASSUME ~slipped' PROVE DropsOK'
    BY DEF DropsOK
  <2>1. \A o \in Meters : errand[o].step = "drop" => errand'[o] = errand[o]
    BY <1>1
  <2> QED BY <1>1, <1>2, <2>1 DEF DropsOK
<1>8. EditsOK'
  BY <1>1, <1>2 DEF EditsOK, Editing
<1> QED BY <1>3, <1>4, <1>5, <1>6, <1>7, <1>8

LEMMA TellEditInd == ASSUME UsageIndInv, NEW m \in Meters, TellEdit(m) PROVE UsageIndInv'
BY RequestLeaves DEF TellEdit, Steps, book, audit, UsageIndInv, UsageShapes

LEMMA ErrandFailsInd == ASSUME UsageIndInv, NEW m \in Meters, ErrandFails(m) PROVE UsageIndInv'
BY RequestLeaves DEF ErrandFails, Steps, book, audit, UsageIndInv, UsageShapes

-----------------------------------------------------------------------------
LEMMA TimePassesInd == ASSUME UsageIndInv, TimePasses PROVE UsageIndInv'
<1> USE DEF UsageIndInv
<1>1. /\ UNCHANGED <<rate, usage, counter, day, page, called, slipped, priced, met, misled>>
      /\ entry' = Aged /\ gone' = [p \in Priced |-> OlderBy(p)]
      /\ \A m \in Meters : errand[m].step # "home" => errand[m].time < Longest
      /\ errand' = [m \in Meters |-> IF errand[m].step = "home" THEN AtHome
                                     ELSE [errand[m] EXCEPT !.time = @ + 1]]
  BY DEF TimePasses, Steps, book, audit
<1>2. /\ gone' \in [Priced -> 0 .. Stale] /\ gone'[rate] = 0
      /\ \A p \in Priced : gone'[p] \in Nat /\ gone[p] \in Nat /\ gone'[p] <= gone[p] + 1
  <2>1. \A p \in Priced : gone'[p] = OlderBy(p) /\ gone[p] \in 0 .. Stale
    BY <1>1 DEF UsageShapes
  <2>2. \A p \in Priced : OlderBy(p) \in 0 .. Stale /\ OlderBy(p) <= gone[p] + 1
    BY <2>1, UsageParameters DEF OlderBy
  <2>3. rate \in Priced /\ OlderBy(rate) = 0
    BY DEF OlderBy, UsageShapes
  <2> QED BY <1>1, <2>1, <2>2, <2>3, UsageParameters
<1>3. ASSUME NEW m \in Meters
      PROVE  /\ errand'[m] \in Errands
             /\ errand'[m].step = errand[m].step
             /\ errand[m].step = "home" => errand'[m] = AtHome
             /\ errand[m].step # "home" => /\ errand'[m].time = errand[m].time + 1
                                           /\ errand'[m].holds = errand[m].holds
             /\ errand[m].holds \in Priced /\ errand[m].time \in Nat
  <2>1. errand[m] \in Errands
    BY DEF UsageShapes
  <2>2. CASE errand[m].step = "home"
    BY <1>1, <2>1, <2>2, UsageParameters DEF Errands
  <2>3. CASE errand[m].step # "home"
    <3>1. errand'[m] = [errand[m] EXCEPT !.time = @ + 1] /\ errand[m].time < Longest
      BY <1>1, <2>3
    <3>2. errand[m].time + 1 \in 0 .. Longest
      BY <2>1, <3>1, UsageParameters DEF Errands
    <3> QED BY <2>1, <2>3, <3>1, <3>2, UsageParameters DEF Errands
  <2> QED BY <2>2, <2>3
<1>4. /\ entry' # NoEntry => /\ entry # NoEntry /\ entry'.price = entry.price
                             /\ entry'.age = entry.age + 1 /\ entry.age \in Nat
                             /\ entry'.age \in 0 .. PriceTtl /\ entry.price \in Priced
      /\ entry' = NoEntry \/ entry' \in [price : Priced, age : 0 .. PriceTtl]
  <2>1. CASE entry = NoEntry \/ entry.age = PriceTtl
    BY <1>1, <2>1 DEF Aged
  <2>2. CASE ~(entry = NoEntry \/ entry.age = PriceTtl)
    <3>1. entry' = [entry EXCEPT !.age = @ + 1] /\ entry \in [price : Priced, age : 0 .. PriceTtl]
      BY <1>1, <2>2 DEF Aged, UsageShapes
    <3>2. entry.age \in 0 .. PriceTtl /\ entry.age + 1 \in 0 .. PriceTtl
      BY <2>2, <3>1, UsageParameters
    <3> QED BY <2>2, <3>1, <3>2, UsageParameters
  <2> QED BY <2>1, <2>2
<1>5. UsageShapes'
  <2>1. errand' \in [Meters -> Errands]
    BY <1>1, <1>3
  <2> QED BY <1>1, <1>2, <1>3, <1>4, <2>1 DEF UsageShapes
<1>6. LedgerOK' /\ Counted' /\ PageOK' /\ ChargesAreRecent'
  BY <1>1, LedgerStays
<1>7. RoomOK'
  BY <1>1, <1>3, RoomStays
<1>8. PricesOK'
  <2>1. entry' # NoEntry => gone'[entry'.price] <= Longest + entry'.age
    BY <1>2, <1>4, UsageParameters DEF PricesOK
  <2>2. ASSUME NEW m \in Meters, errand'[m].step = "cache"
        PROVE  gone'[errand'[m].holds] <= errand'[m].time
    BY <1>2, <1>3, <2>2 DEF PricesOK
  <2>3. ASSUME NEW m \in Meters, errand'[m].step = "write"
        PROVE  gone'[errand'[m].holds] <= PriceTtl + Longest + errand'[m].time
    BY <1>2, <1>3, <2>3, UsageParameters DEF PricesOK
  <2> QED BY <1>1, <1>2, <2>1, <2>2, <2>3 DEF PricesOK
<1>9. DropsOK'
  <2> SUFFICES ASSUME ~slipped PROVE DropsOK'
    BY <1>1 DEF DropsOK
  <2>1. ASSUME entry' # NoEntry, entry'.price # rate
        PROVE  \E m \in Meters : errand'[m].step = "drop" /\ gone'[entry'.price] <= errand'[m].time
    <3>1. PICK m \in Meters : errand[m].step = "drop" /\ gone[entry.price] <= errand[m].time
      BY <1>4, <2>1 DEF DropsOK
    <3>2. gone'[entry.price] <= errand[m].time + 1
      BY <1>2, <1>3, <1>4, <2>1, <3>1
    <3> QED BY <1>3, <1>4, <2>1, <3>1, <3>2
  <2>2. ASSUME NEW m \in Meters, errand'[m].step = "write"
        PROVE  gone'[errand'[m].holds] <= Longest + errand'[m].time
    BY <1>2, <1>3, <2>2, UsageParameters DEF DropsOK
  <2> QED BY <1>1, <2>1, <2>2 DEF DropsOK
<1>10. EditsOK'
  BY <1>1, <1>3 DEF EditsOK, Editing
<1> QED BY <1>5, <1>6, <1>7, <1>8, <1>9, <1>10

\* What only concerns the pages.
LEMMA RequestsStay ==
  ASSUME UsageShapes, RoomOK, PricesOK, DropsOK, EditsOK, ChargesAreRecent,
         UNCHANGED <<rate, entry, errand, usage, counter, called, gone, slipped, priced, met, misled>>,
         day' \in 1 .. DayMax
  PROVE  UsageShapes' /\ RoomOK' /\ PricesOK' /\ DropsOK' /\ EditsOK' /\ ChargesAreRecent'
BY DEF UsageShapes, RoomOK, Recording, PricesOK, DropsOK, EditsOK, ChargesAreRecent

LEMMA MidnightInd == ASSUME UsageIndInv, Midnight PROVE UsageIndInv'
<1> USE DEF UsageIndInv
<1>1. day' = day + 1 /\ day \in Nat /\ day' \in 1 .. DayMax
  BY UsageParameters DEF Midnight, UsageShapes
<1>2. UNCHANGED <<rate, entry, errand, usage, counter, page, called, gone, slipped, priced, met, misled>>
  BY DEF Midnight, audit
<1>3. LedgerOK' /\ Counted'
  BY <1>2 DEF LedgerOK, Counted, Monthly
<1>4. PageOK'
  BY <1>1, <1>2 DEF PageOK
<1> QED BY <1>1, <1>2, <1>3, <1>4, RequestsStay

LEMMA AskTotalsInd == ASSUME UsageIndInv, NEW w \in Spenders, NEW n \in Days, AskTotals(w, n) PROVE UsageIndInv'
<1> USE DEF UsageIndInv
<1>1. UNCHANGED <<rate, entry, errand, usage, counter, day, called, gone, slipped, priced, met, misled>>
  BY DEF AskTotals, audit
<1>2. /\ page'.of = w /\ page'.days = n /\ page'.on = day /\ page'.rows = Cardinality(usage)
      /\ page'.totals = Total(OfPayer(w, Since(n), Tomorrow))
  BY DEF AskTotals
<1>3. LedgerOK' /\ Counted'
  BY <1>1 DEF LedgerOK, Counted, Monthly
<1>4. PageOK'
  <2>1. Cardinality(usage) \in Nat /\ day \in Nat
    BY FS_CardinalityType, UsageParameters DEF LedgerOK, UsageShapes
  <2>2. \A r \in usage : r.id <= Cardinality(usage)
    BY <2>1 DEF LedgerOK
  <2>3. {r \in OfPayer(w, Since(n), Tomorrow)' : r.id <= page'.rows} = OfPayer(w, Since(n), Tomorrow)
    BY <1>1, <1>2, <2>2 DEF OfPayer, Period, Since, Tomorrow
  <2>4. {r \in OfPayer(page.of, Since(page.days), Tomorrow)' : r.id <= page'.rows}
          = {r \in OfPayer(w, Since(n), Tomorrow)' : r.id <= page'.rows}
    BY <1>1, <1>2 DEF OfPayer, Period, Since, Tomorrow
  <2>5. page'.totals = Total({r \in OfPayer(page.of, Since(page.days), Tomorrow)' : r.id <= page'.rows})
    BY <1>2, <2>3, <2>4
  <2> QED BY <1>1, <1>2, <2>1, <2>5 DEF PageOK
<1>5. day' \in 1 .. DayMax
  BY <1>1 DEF UsageShapes
<1> QED BY <1>1, <1>3, <1>4, <1>5, RequestsStay

LEMMA AskSeatsInd == ASSUME UsageIndInv, AskSeats PROVE UsageIndInv'
<1> USE DEF UsageIndInv
<1>1. /\ page' = NoPage
      /\ UNCHANGED <<rate, entry, errand, usage, counter, day, called, gone, slipped, priced, met, misled>>
  BY DEF AskSeats, audit
<1>2. LedgerOK' /\ Counted' /\ PageOK'
  BY <1>1 DEF LedgerOK, Counted, Monthly, PageOK
<1>3. day' \in 1 .. DayMax
  BY <1>1 DEF UsageShapes
<1> QED BY <1>1, <1>2, <1>3, RequestsStay

\* One more row, and the trigger.
LEMMA TotalOfOne ==
  ASSUME NEW U, PricedRows(U), NEW r \in U
  PROVE  Total({r}).calls = 1 /\ Money(Total({r}).cost) = Money(r.cost)
<1>1. {r} \in SUBSET U
  OBVIOUS
<1>2. Total({r}).calls = Sum(Ones(U), {r}) /\ Money(Total({r}).cost) = Sum(Costs(U), {r})
  BY <1>1, TotalsAreSums
<1>3. Sum(Ones(U), {r}) = Ones(U)[r] /\ Sum(Costs(U), {r}) = Costs(U)[r]
  BY MeasuresAreNumbers, PileOfOne DEF Sum
<1> QED BY <1>2, <1>3 DEF Ones, Costs

LEMMA LedgerGrows ==
  ASSUME UsageShapes, LedgerOK, Counted, PageOK, NEW line,
         line.id = Cardinality(usage) + 1, line.payer \in Payers, line.seat = Asker[line.id],
         line.cost \in Priced, line.day = day, line.lag \in Nat,
         usage' = usage \cup {line}, Bump(line), UNCHANGED <<day, page>>
  PROVE  /\ LedgerOK' /\ Counted' /\ PageOK' /\ Cardinality(usage') = Cardinality(usage) + 1
         /\ counter' \in [Spenders \X Months -> [calls : Nat, cost : Nat]]
<1>1. IsFiniteSet(usage) /\ Cardinality(usage) \in Nat
  BY FS_CardinalityType DEF LedgerOK
<1>2. line \notin usage
  BY <1>1 DEF LedgerOK
<1>3. IsFiniteSet(usage') /\ Cardinality(usage') = Cardinality(usage) + 1
  BY <1>1, <1>2, FS_AddElement
<1>4. LedgerOK'
  <2>1. ASSUME NEW r \in usage'
        PROVE  /\ r.id \in 1 .. Cardinality(usage) + 1 /\ r.payer \in Payers /\ r.seat = Asker[r.id]
               /\ r.cost \in Priced /\ r.day \in 1 .. DayMax /\ r.lag \in Nat
    <3>1. CASE r = line
      BY <1>1, <3>1 DEF UsageShapes
    <3>2. CASE r \in usage
      BY <1>1, <3>2 DEF LedgerOK
    <3> QED BY <2>1, <3>1, <3>2
  <2> QED BY <1>3, <2>1 DEF LedgerOK
<1>5. PricedRows(usage') /\ PricedRows(usage)
  BY <1>4 DEF LedgerOK, PricedRows
<1>6. PageOK'
  <2> SUFFICES ASSUME page # NoPage, page.on = day PROVE PageOK'
    BY <1>1, <1>3 DEF PageOK
  <2>1. /\ page.rows \in Nat /\ page.rows <= Cardinality(usage) /\ page.on \in Nat /\ page.on <= day
        /\ page.totals = Total({r \in OfPayer(page.of, Since(page.days), Tomorrow) : r.id <= page.rows})
    BY DEF PageOK
  <2>2. ~(line.id <= page.rows)
    BY <1>1, <2>1
  <2>3. {r \in OfPayer(page.of, Since(page.days), Tomorrow)' : r.id <= page.rows}
          = {r \in OfPayer(page.of, Since(page.days), Tomorrow) : r.id <= page.rows}
    BY <2>2 DEF OfPayer, Period, Since, Tomorrow
  <2>4. page.totals = Total({r \in OfPayer(page.of, Since(page.days), Tomorrow)' : r.id <= page.rows})
    BY <2>1, <2>3
  <2> QED BY <1>1, <1>3, <2>1, <2>4 DEF PageOK
<1>7. line.payer # Platform => <<line.payer, MonthOf(line.day)>> \in Spenders \X Months
  BY DEF Payers, MonthOf, Months
<1>8. /\ line.payer = Platform => counter' = counter
      /\ line.payer # Platform =>
           counter' = [counter EXCEPT ![<<line.payer, MonthOf(line.day)>>] =
                         [calls |-> @.calls + 1, cost |-> @.cost + Money(line.cost)]]
  BY DEF Bump, Money
<1>9. counter' \in [Spenders \X Months -> [calls : Nat, cost : Nat]]
  <2>1. Money(line.cost) \in Nat
    BY UsageAssumption DEF UsageAssumption, Money, Priced
  <2>2. CASE line.payer = Platform
    BY <1>8, <2>2 DEF UsageShapes
  <2>3. CASE line.payer # Platform
    <3> DEFINE k == <<line.payer, MonthOf(line.day)>>
    <3>1. k \in Spenders \X Months /\ counter[k] \in [calls : Nat, cost : Nat]
      BY <1>7, <2>3 DEF UsageShapes
    <3>2. counter' = [counter EXCEPT ![k] = [calls |-> counter[k].calls + 1,
                                            cost |-> counter[k].cost + Money(line.cost)]]
      BY <1>8, <2>3
    <3> HIDE DEF k
    <3>3. [calls |-> counter[k].calls + 1, cost |-> counter[k].cost + Money(line.cost)] \in [calls : Nat, cost : Nat]
      BY <2>1, <3>1
    <3> QED BY <3>1, <3>2, <3>3 DEF UsageShapes
  <2> QED BY <2>2, <2>3
<1>10. ASSUME NEW w \in Spenders, NEW n \in Months
       PROVE  counter'[<<w, n>>] = [calls |-> Cardinality(Monthly(usage', w, n)),
                                    cost |-> Money(Cost(Monthly(usage', w, n)))]
  <2> DEFINE A == Monthly(usage, w, n)
  <2>1. A \in SUBSET usage' /\ A \cap {line} = {} /\ {line} \in SUBSET usage'
    BY <1>2 DEF Monthly
  <2>2. counter[<<w, n>>] = [calls |-> Cardinality(A), cost |-> Money(Cost(A))]
    BY DEF Counted
  <2>3. <<w, n>> \in Spenders \X Months
    OBVIOUS
  <2>4. CASE line.payer = w /\ MonthOf(line.day) = n
    <3>1. Monthly(usage', w, n) = A \cup {line}
      BY <2>4 DEF Monthly
    <3> HIDE DEF A
    <3>2. /\ Total(A \cup {line}).calls = Total(A).calls + Total({line}).calls
          /\ Money(Total(A \cup {line}).cost) = Money(Total(A).cost) + Money(Total({line}).cost)
      BY <1>5, <2>1, LotsAddUp
    <3>3. Total({line}).calls = 1 /\ Money(Total({line}).cost) = Money(line.cost)
      BY <1>5, <2>1, TotalOfOne
    <3>4. \A S : Total(S).calls = Cardinality(S) /\ Total(S).cost = Cost(S)
      BY DEF Total
    <3>5. /\ Cardinality(A \cup {line}) = Cardinality(A) + 1
          /\ Money(Cost(A \cup {line})) = Money(Cost(A)) + Money(line.cost)
      BY <3>2, <3>3, <3>4
    <3>6. w # Platform
      BY UsageParameters
    <3>7. counter' = [counter EXCEPT ![<<w, n>>] = [calls |-> counter[<<w, n>>].calls + 1,
                                                   cost |-> counter[<<w, n>>].cost + Money(line.cost)]]
      BY <1>8, <2>4, <3>6
    <3>8. counter'[<<w, n>>] = [calls |-> counter[<<w, n>>].calls + 1,
                                cost |-> counter[<<w, n>>].cost + Money(line.cost)]
      BY <2>3, <3>7 DEF UsageShapes
    <3>9. counter[<<w, n>>].calls = Cardinality(A) /\ counter[<<w, n>>].cost = Money(Cost(A))
      BY <2>2
    <3> QED BY <3>1, <3>5, <3>8, <3>9
  <2>5. CASE ~(line.payer = w /\ MonthOf(line.day) = n)
    <3>1. Monthly(usage', w, n) = A
      BY <2>5 DEF Monthly
    <3>2. counter'[<<w, n>>] = counter[<<w, n>>]
      <4>1. <<w, n>> # <<line.payer, MonthOf(line.day)>>
        BY <2>5
      <4> QED BY <1>8, <2>3, <4>1 DEF UsageShapes
    <3> QED BY <2>2, <3>1, <3>2
  <2> QED BY <2>4, <2>5
<1>11. Counted'
  BY <1>10 DEF Counted
<1> QED BY <1>3, <1>4, <1>6, <1>9, <1>11

LEMMA WriteUsageInd == ASSUME UsageIndInv, NEW m \in Meters, WriteUsage(m) PROVE UsageIndInv'
<1> USE DEF UsageIndInv
<1>1. /\ errand[m].step = "write" /\ GoesHome(m)
      /\ UNCHANGED <<rate, entry, day, page, called, gone, slipped, priced, met, misled>>
  BY DEF WriteUsage, Steps, audit
<1>2. PICK w \in Payers, c \in {errand[m].holds, NoRate} :
        LET line == [id |-> Cardinality(usage) + 1, payer |-> w, seat |-> Asker[Cardinality(usage) + 1], cost |-> c,
                     day |-> day, lag |-> gone[errand[m].holds], sure |-> ~slipped]
        IN usage' = usage \cup {line} /\ Bump(line)
  BY DEF WriteUsage
<1> DEFINE line == [id |-> Cardinality(usage) + 1, payer |-> w, seat |-> Asker[Cardinality(usage) + 1], cost |-> c,
                    day |-> day, lag |-> gone[errand[m].holds], sure |-> ~slipped]
<1>3. errand[m].holds \in Priced /\ errand[m].time \in 0 .. Longest /\ gone[errand[m].holds] \in Nat
  BY UsageParameters DEF UsageShapes, Errands
<1>4. /\ line.id = Cardinality(usage) + 1 /\ line.payer \in Payers /\ line.seat = Asker[line.id]
      /\ line.cost \in Priced /\ line.day = day /\ line.lag \in Nat
      /\ line.lag = gone[errand[m].holds] /\ line.sure = ~slipped
  BY <1>3, UsageParameters
<1>5. usage' = usage \cup {line} /\ Bump(line)
  BY <1>2
<1> HIDE DEF line
<1>6. /\ LedgerOK' /\ Counted' /\ PageOK' /\ Cardinality(usage') = Cardinality(usage) + 1
      /\ counter' \in [Spenders \X Months -> [calls : Nat, cost : Nat]]
  BY <1>1, <1>4, <1>5, LedgerGrows
<1>7. /\ errand' \in [Meters -> Errands] /\ errand'[m] = AtHome
      /\ \A o \in Meters \ {m} : errand'[o] = errand[o]
      /\ \A o \in Meters : errand'[o].step = "home" => errand'[o] = AtHome
  BY <1>1, ErrandGoesHome
<1>8. errand'[m].step = "home"
  BY <1>7 DEF AtHome
<1>9. UsageShapes'
  BY <1>1, <1>6, <1>7, UsageParameters DEF UsageShapes
<1>10. RoomOK'
  <2>1. Recording' = Recording \ {m} /\ m \in Recording
    BY <1>1, <1>7, <1>8 DEF Recording, Metering
  <2>2. Cardinality(Recording') = Cardinality(Recording) - 1
    BY <2>1, RecordingIsFinite, FS_RemoveElement
  <2>3. Cardinality(usage) \in Nat /\ called \in Nat
    BY UsageParameters, FS_CardinalityType DEF LedgerOK, UsageShapes
  <2> QED BY <1>1, <1>6, <2>2, <2>3, RecordingIsFinite DEF RoomOK
<1>11. PricesOK'
  BY <1>1, <1>7, <1>8 DEF PricesOK
<1>12. DropsOK'
  <2>1. \A o \in Meters : errand[o].step = "drop" => errand'[o] = errand[o]
    BY <1>1, <1>7
  <2> QED BY <1>1, <1>7, <1>8, <2>1 DEF DropsOK
<1>13. EditsOK'
  BY <1>1, <1>7, <1>8 DEF EditsOK, Editing
<1>14. ChargesAreRecent'
  <2>1. line.lag < Stale
    BY <1>1, <1>3, <1>4, UsageParameters DEF PricesOK
  <2>2. line.sure => line.lag <= 2 * Longest
    <3>1. line.sure => ~slipped
      BY <1>4
    <3>2. ~slipped => gone[errand[m].holds] <= Longest + errand[m].time
      BY <1>1 DEF DropsOK
    <3>3. ~slipped => gone[errand[m].holds] <= 2 * Longest
      BY <1>3, <3>2, UsageParameters
    <3> QED BY <1>4, <3>1, <3>3
  <2> QED BY <1>5, <2>1, <2>2 DEF ChargesAreRecent
<1> QED BY <1>6, <1>9, <1>10, <1>11, <1>12, <1>13, <1>14

LEMMA NextUsageInd == UsageIndInv /\ [UsageNext]_usageVars => UsageIndInv'
<1> SUFFICES ASSUME UsageIndInv, [UsageNext]_usageVars PROVE UsageIndInv'
  OBVIOUS
<1>1. CASE TimePasses
  BY <1>1, TimePassesInd
<1>2. CASE Midnight
  BY <1>2, MidnightInd
<1>3. CASE AskSeats
  BY <1>3, AskSeatsInd
<1>4. CASE \E w \in Spenders, n \in Days : AskTotals(w, n)
  BY <1>4, AskTotalsInd
<1>5. ASSUME NEW m \in Meters, BeginCall(m) PROVE UsageIndInv'
  BY <1>5, BeginCallInd
<1>6. ASSUME NEW m \in Meters, ReadPrice(m) PROVE UsageIndInv'
  BY <1>6, ReadPriceInd
<1>7. ASSUME NEW m \in Meters, CachePrice(m) PROVE UsageIndInv'
  BY <1>7, CachePriceInd
<1>8. ASSUME NEW m \in Meters, WriteUsage(m) PROVE UsageIndInv'
  BY <1>8, WriteUsageInd
<1>9. ASSUME NEW m \in Meters, NEW p \in Rates, BeginSet(m, p) PROVE UsageIndInv'
  BY <1>9, BeginSetInd
<1>10. ASSUME NEW m \in Meters, SetPrice(m) PROVE UsageIndInv'
  BY <1>10, SetPriceInd
<1>11. ASSUME NEW m \in Meters, DeletePrice(m) PROVE UsageIndInv'
  BY <1>11, DeletePriceInd
<1>12. ASSUME NEW m \in Meters, DropPrice(m) PROVE UsageIndInv'
  BY <1>12, DropPriceInd
<1>13. ASSUME NEW m \in Meters, TellEdit(m) PROVE UsageIndInv'
  BY <1>13, TellEditInd
<1>14. ASSUME NEW m \in Meters, ErrandFails(m) PROVE UsageIndInv'
  BY <1>14, ErrandFailsInd
<1>15. CASE UNCHANGED usageVars
  <2>1. UNCHANGED <<rate, entry, errand, usage, counter, day, page, called, gone, slipped, priced, met, misled>>
    BY <1>15 DEF usageVars
  <2>2. day' \in 1 .. DayMax
    BY <2>1 DEF UsageIndInv, UsageShapes
  <2>3. LedgerOK' /\ Counted' /\ PageOK'
    BY <2>1, LedgerStays DEF UsageIndInv
  <2> QED BY <2>1, <2>2, <2>3, RequestsStay DEF UsageIndInv
<1> QED BY <1>1, <1>2, <1>3, <1>4, <1>5, <1>6, <1>7, <1>8, <1>9, <1>10, <1>11, <1>12, <1>13, <1>14,
           <1>15 DEF UsageNext

\* No call is charged a price older than the cache's TTL and two requests, an
\* audit entry of an edit by itself is true, and the page, the chart, the seats,
\* the counter and the owner's total are sums of the same rows, for any
\* requests, prices, tenants, days and calls (metering.py:53-56, plans.py:343,
\* usage.py:7-25 and 91, 0022_ai_usage_monthly.sql).
THEOREM UsageHolds == UsageSpec => []UsageInv
<1>1. UsageInit => UsageIndInv
  BY InitUsageInd
<1>2. UsageIndInv /\ [UsageNext]_usageVars => UsageIndInv'
  BY NextUsageInd
<1>3. UsageIndInv => UsageInv
  BY UsageIndInvImplies
<1> QED BY <1>1, <1>2, <1>3, PTL DEF UsageSpec
=================================================================================
