------------------------------- MODULE MCServices -------------------------------
(***************************************************************************)
(* An instance for TLC of what must come about in the end: a tenant's      *)
(* snapshot of its entitlements, the enrichment of the notices, and the    *)
(* circuit breaker of the model provider.  They share no state: one of     *)
(* them, chosen at the start, moves, so that the states and the fairness   *)
(* are those of each by itself.  Below are two claims of the code's        *)
(* comments that the instance refutes (README.md tells how).               *)
(***************************************************************************)
EXTENDS LlmBreaker, EntitlementCache, Enrichment

VARIABLE part

\* At first one notice may be unreadable; the feed can make it two.  The other
\* parts have none that should be read.
Illegible == {n \in Notices : note[n] \in Unreadable}

ServicesInit ==
  /\ part \in {"breaker", "cache", "enrichment"}
  /\ part # "breaker" => provider = "up"
  /\ Init /\ CacheInit /\ EnrichInit
  /\ IF part = "enrichment" THEN Cardinality(Illegible) <= 1 ELSE Illegible = Notices

ServicesNext ==
  /\ UNCHANGED part
  /\ \/ part = "breaker" /\ Next /\ UNCHANGED <<cacheVars, enrichVars>>
     \/ part = "cache" /\ CacheNext /\ UNCHANGED <<vars, enrichVars>>
     \/ part = "enrichment" /\ EnrichNext /\ UNCHANGED <<vars, cacheVars>>

\* Fairness, CacheFairness and EnrichFairness, each of the part that moves.
Of(p, A) == part = p /\ A

ServicesFairness ==
  /\ WF_vars(Of("breaker", Tick))
  /\ \A c \in Calls : WF_vars(Of("breaker", Answer(c))) /\ WF_vars(Of("breaker", Admit(c)))
  /\ WF_cacheVars(Of("cache", AgeEntry))
  /\ \A c \in Tasks : WF_cacheVars(Of("cache", Runs(c)))
  /\ WF_enrichVars(Of("enrichment", Schedule))
  /\ \A b \in Batches : WF_enrichVars(Of("enrichment", BatchStep(b)))

ServicesSpec ==
  ServicesInit /\ [][ServicesNext]_<<part, vars, cacheVars, enrichVars>> /\ ServicesFairness

-----------------------------------------------------------------------------
\* entitlements_service.py:98: suspension bites immediately.  (A refresh that
\* read the old status puts the old snapshot back after the invalidation and
\* after the recomputation of the operator's call.)
SuspensionBites ==
  Suspended(truth) /\ (\A c \in Tasks : step[c] = "idle") /\ cache # Empty =>
    ~Granted(cache)

\* domain/entitlements.py:77: suspension holds everywhere entitlements are
\* read.  (save leaves the rows of a suspended tenant alone, and the module
\* services fall back on them when the cache entry has expired.)
SuspensionHoldsEverywhere ==
  \A c \in Tasks :
    Suspended(truth) /\ step[c] = "table" /\ saved = TRUE =>
      \E d \in Tasks \ {c} : step[d] # "idle"
=============================================================================
