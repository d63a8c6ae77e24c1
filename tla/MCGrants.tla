-------------------------------- MODULE MCGrants --------------------------------
(***************************************************************************)
(* An instance for TLC of the grants a tenant sees: the quota of its       *)
(* scans, the load of the feed, and its matches.  They share no state but  *)
(* what each says of the others by name: one of them, chosen at the start, *)
(* moves, so that the states are those of each by itself.  Below are       *)
(* claims of the code's comments that the instance refutes (README.md      *)
(* tells how).                                                             *)
(***************************************************************************)
EXTENDS ScanQuota, FeedLoad, GrantMatching, TLC

VARIABLE part

\* Records of two notices: one that comes twice with different texts; one that
\* the table refuses, or whose dates and amounts contradict each other; and one
\* without an identifier.
Record(u) ==
  [uid |-> u, posted |-> 1, closes |-> 2, floor |-> 1, ceiling |-> Missing, storable |-> TRUE]

Records ==
  {Record("a"), [Record("a") EXCEPT !.closes = Missing],
   Record("b"), [Record("b") EXCEPT !.storable = FALSE],
   [Record("b") EXCEPT !.posted = 2, !.closes = 1, !.floor = 2, !.ceiling = 1],
   Record(Missing)}

PublishedExtracts == UNION {[1 .. n -> Records] : n \in 0 .. 3}

\* Two profiles that prefer different offers.
Preferences == [p \in Profiles |-> IF p = "p" THEN [x |-> 1, y |-> 2] ELSE [x |-> 2, y |-> 1]]

Symmetry == Permutations(Requests) \cup Permutations(Scans)

GrantsInit ==
  /\ part \in {"quota", "feed", "matches"}
  /\ part # "feed" => extract = <<>> /\ batchSize = 1 /\ table = [u \in Uids |-> NoRow]
  /\ part # "matches" => open = {}
  /\ Init /\ FeedInit /\ MatchInit

GrantsNext ==
  /\ UNCHANGED part
  /\ \/ part = "quota" /\ Next /\ UNCHANGED <<feedVars, matchVars>>
     \/ part = "feed" /\ FeedNext /\ UNCHANGED <<vars, matchVars>>
     \/ part = "matches" /\ MatchNext /\ UNCHANGED <<vars, feedVars>>

GrantsSpec == GrantsInit /\ [][GrantsNext]_<<part, vars, feedVars, matchVars>>

-----------------------------------------------------------------------------
\* grant_service.py:3 and :186: plan limits are enforced on the server, and a
\* scan is queued subject to the plan's limit.
WithinLimit == Used <= Limit

\* grant_service.py:210: of two requests under way at once only one
\* consumes a scan.
DoubleClickTakesOne ==
  [][\A r \in Requests, s \in Scans :
       stage[r] # stage'[r] /\ scan[s] = "absent" /\ scan'[s] # "absent"
         => Used = 0 \/ ~beside[r]]_vars
=============================================================================
