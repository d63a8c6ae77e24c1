----------------------------- MODULE GrantMatching -----------------------------
(***************************************************************************)
(* The matches of one tenant: a profile that is edited, a catalogue that   *)
(* the nightly ingest rewrites, and the rescore jobs that moves, scans and *)
(* the nightly fan-out enqueue, each under a key of its own.  A rescore is *)
(* one SQL statement: it scores what it saw when it began and upserts when *)
(* it ends.  JobLedger models the ledger; here a key has a live job or not.*)
(***************************************************************************)
EXTENDS Integers, FiniteSets

CONSTANTS
  Offers,      \* opportunities
  Profiles,    \* what a profile says as far as the scorer reads it
  Scoreable,   \* the profiles with focus areas
  Rank,        \* Rank[p][o]: the place of o for p; 0: a hard gate excludes it
  MatchLimit,  \* the limit of refresh_matches
  Savers,      \* concurrent PUT /profile
  MinuteMax,   \* bound on the minutes that moves and scans are keyed by
  MoveMax,     \* bound on moves, scans, dismissals, deadlines and losses
  NoProfile

ASSUME MatchingAssumption ==
  /\ IsFiniteSet(Offers) /\ Scoreable \subseteq Profiles /\ NoProfile \notin Profiles
  /\ Rank \in [Profiles -> [Offers -> Nat]]
  /\ MatchLimit \in Nat \ {0} /\ MinuteMax \in Nat /\ MoveMax \in Nat

Keys == ({"edit", "scan"} \X (0 .. MinuteMax)) \cup {<<"night", 0>>}

VARIABLES
  profile,   \* org_profiles
  open,      \* the offers that are neither forecast, nor closed, nor archived
  scoredFor, \* the profile a match was scored for; NoProfile: there is no match
  hidden,    \* the matches the tenant dismissed
  clock,     \* the minute
  job,       \* the live job under a key: "none", "queued" or "scoring"
  seen,      \* what the statement of a scoring job sees
  saving,    \* requests that have written the profile and not enqueued yet
  ingest,    \* the ingest job: "none" or "live"
  unloaded,  \* offers it has yet to write
  feed,      \* the open offers of the extract it loads
  fanout,    \* rescore_all: "none", "due" (daily_pipeline will enqueue it) or "queued"
  moves,     \* so far
  \* history variables
  judged,    \* what the tenant dismissed and did not take back
  excused    \* why a rescore that is owed may not be coming

nightVars == <<ingest, unloaded, feed, fanout>>
matchVars == <<profile, open, scoredFor, hidden, clock, job, seen, saving, nightVars, moves,
               judged, excused>>

MatchTypeOK ==
  /\ profile \in Profiles \cup {NoProfile} /\ open \subseteq Offers
  /\ scoredFor \in [Offers -> Profiles \cup {NoProfile}]
  /\ hidden \subseteq Offers /\ judged \subseteq Offers
  /\ job \in [Keys -> {"none", "queued", "scoring"}]
  /\ seen \in [Keys -> [profile: Profiles \cup {NoProfile}, open: SUBSET Offers]]
  /\ saving \subseteq Savers /\ ingest \in {"none", "live"} /\ unloaded \subseteq Offers
  /\ fanout \in {"none", "due", "queued"}
  /\ excused \subseteq {"died", "swallowed", "overtaken", "gone", "early", "date"}

Unseen == [profile |-> NoProfile, open |-> {}]

MatchInit ==
  /\ profile = NoProfile /\ open \in SUBSET Offers
  /\ scoredFor = [o \in Offers |-> NoProfile] /\ hidden = {} /\ judged = {}
  /\ clock = 0 /\ job = [k \in Keys |-> "none"] /\ seen = [k \in Keys |-> Unseen]
  /\ saving = {} /\ ingest = "none" /\ unloaded = {} /\ feed = {} /\ fanout = "none"
  /\ moves = 0 /\ excused = {}

-----------------------------------------------------------------------------
\* score_opportunities_for_tenant: the hard gates, then the best by rank.
Top(p, S) ==
  IF p = NoProfile THEN {}
  ELSE LET eligible == {o \in S : Rank[p][o] > 0}
       IN {o \in eligible : Cardinality({q \in eligible : Rank[p][q] < Rank[p][o]}) < MatchLimit}

Present == [profile |-> profile, open |-> open]

OneMore == moves < MoveMax /\ moves' = moves + 1

\* enqueue under a key: nothing happens when its job is live, and that job may
\* have begun before the edit.
Enqueues(k) ==
  /\ job' = IF job[k] = "none" THEN [job EXCEPT ![k] = "queued"] ELSE job
  /\ excused' = IF job[k] = "scoring" /\ seen[k] # Present
                THEN excused \cup {"swallowed"} ELSE excused

-----------------------------------------------------------------------------
SaveQuietly(c, p) == \* mutant: a field that is scored is not in scoring_inputs
  /\ c \notin saving /\ p # profile
  /\ OneMore /\ profile' = p /\ excused' = {}
  /\ UNCHANGED <<open, scoredFor, hidden, clock, job, seen, saving, nightVars, judged>>

\* save_profile and upsert_profile: a patch of what is scored.
Save(c, p) ==
  /\ c \notin saving /\ p # profile
  /\ OneMore
  /\ profile' = p
  /\ saving' = IF p \in Scoreable THEN saving \cup {c} ELSE saving
  /\ excused' = {}
  /\ UNCHANGED <<open, scoredFor, hidden, clock, job, seen, nightVars, judged>>

EnqueueEdit(c) ==
  /\ c \in saving
  /\ saving' = saving \ {c}
  /\ Enqueues(<<"edit", clock>>)
  /\ UNCHANGED <<profile, open, scoredFor, hidden, clock, seen, nightVars, moves, judged>>

\* The request dies, or enqueue raises.
SaveDies(c) ==
  /\ c \in saving /\ OneMore
  /\ saving' = saving \ {c}
  /\ excused' = excused \cup {"died"}
  /\ UNCHANGED <<profile, open, scoredFor, hidden, clock, job, seen, nightVars, judged>>

\* request_scan; ScanQuota models its limit.
Scan ==
  /\ profile \in Scoreable /\ OneMore
  /\ Enqueues(<<"scan", clock>>)
  /\ UNCHANGED <<profile, open, scoredFor, hidden, clock, seen, saving, nightVars, judged>>

\* set_match_state.
Dismiss(o) ==
  /\ scoredFor[o] # NoProfile /\ OneMore
  /\ \/ hidden' = hidden \cup {o} /\ judged' = judged \cup {o}
     \/ hidden' = hidden \ {o} /\ judged' = judged \ {o}
  /\ UNCHANGED <<profile, open, scoredFor, clock, job, seen, saving, nightVars, excused>>

NextMinute ==
  /\ clock < MinuteMax
  /\ clock' = clock + 1
  /\ UNCHANGED <<profile, open, scoredFor, hidden, job, seen, saving, nightVars, moves, judged,
                 excused>>

-----------------------------------------------------------------------------
\* rescore_tenant: the statement begins.
BeginScoring(k) ==
  /\ job[k] = "queued"
  /\ job' = [job EXCEPT ![k] = "scoring"]
  /\ seen' = [seen EXCEPT ![k] = Present]
  /\ UNCHANGED <<profile, open, scoredFor, hidden, clock, saving, nightVars, moves, judged,
                 excused>>

Rescored(k) ==
  [o \in Offers |->
     IF o \in Top(seen[k].profile, seen[k].open) THEN seen[k].profile ELSE scoredFor[o]]

\* What follows a commit: the job is finished, or its worker dies first and the
\* ledger runs it again.
Committed(k) ==
  /\ job[k] = "scoring"
  /\ scoredFor' = Rescored(k)
  /\ \E after \in {"none", "queued"} : job' = [job EXCEPT ![k] = after]
  /\ seen' = [seen EXCEPT ![k] = Unseen]
  /\ excused' = IF \E o \in Offers : scoredFor[o] = profile /\ Rescored(k)[o] # profile
                THEN excused \cup {"overtaken"} ELSE excused
  /\ UNCHANGED <<profile, open, clock, saving, nightVars, moves, judged>>

CommitReplaced(k) == \* mutant: the matches are deleted and inserted
  Committed(k) /\ hidden' = hidden \ Top(seen[k].profile, seen[k].open)

\* refresh_matches_for_tenant: the upsert leaves the tenant's columns alone.
CommitScores(k) == Committed(k) /\ UNCHANGED hidden

\* The statement is rolled back and retried, or the job ends otherwise: its last
\* attempt failed or an operator cancelled it.
LoseJob(k) ==
  /\ job[k] # "none" /\ OneMore
  /\ seen' = [seen EXCEPT ![k] = Unseen]
  /\ \/ job' = [job EXCEPT ![k] = "queued"] /\ UNCHANGED excused
     \/ job' = [job EXCEPT ![k] = "none"] /\ excused' = excused \cup {"gone"}
  /\ UNCHANGED <<profile, open, scoredFor, hidden, clock, saving, nightVars, judged>>

-----------------------------------------------------------------------------
\* daily_pipeline: it enqueues the ingest, then the fan-out, to run now.
BeginNight(offers) ==
  /\ fanout = "none" /\ ingest = "none" /\ OneMore
  /\ ingest' = "live" /\ unloaded' = Offers /\ feed' = offers
  /\ fanout' = "due"
  /\ excused' = {}
  /\ UNCHANGED <<profile, open, scoredFor, hidden, clock, job, seen, saving, judged>>

EnqueueFanout ==
  /\ fanout = "due"
  /\ fanout' = "queued"
  /\ UNCHANGED <<profile, open, scoredFor, hidden, clock, job, seen, saving, ingest, unloaded,
                 feed, moves, judged, excused>>

\* rescore_all, for this tenant: nothing makes it wait for the ingest.
Fanout ==
  /\ fanout = "queued"
  /\ fanout' = "none"
  /\ IF profile \in Scoreable THEN Enqueues(<<"night", 0>>) ELSE UNCHANGED <<job, excused>>
  /\ UNCHANGED <<profile, open, scoredFor, hidden, clock, seen, saving, ingest, unloaded, feed,
                 moves, judged>>

\* ingest_grants_gov, one batch of the load (FeedLoad models the load).
LoadOffers(o) ==
  /\ ingest = "live" /\ o \in unloaded
  /\ unloaded' = unloaded \ {o}
  /\ open' = IF o \in feed THEN open \cup {o} ELSE open \ {o}
  /\ UNCHANGED <<profile, scoredFor, hidden, clock, job, seen, saving, ingest, feed, fanout,
                 moves, judged, excused>>

StillToScore == fanout # "none" \/ job[<<"night", 0>>] = "queued"

EndIngest ==
  /\ ingest = "live"
  /\ ingest' = "none" /\ unloaded' = {} /\ feed' = {}
  /\ \/ unloaded = {} /\ excused' = IF StillToScore THEN excused ELSE excused \cup {"early"}
     \/ excused' = excused \cup {"gone"}
  /\ UNCHANGED <<profile, open, scoredFor, hidden, clock, job, seen, saving, fanout,
                 moves, judged>>

\* daily_pipeline or rescore_all fails for good.
LoseFanout ==
  /\ fanout # "none" /\ OneMore
  /\ fanout' = "none"
  /\ excused' = excused \cup {"gone"}
  /\ UNCHANGED <<profile, open, scoredFor, hidden, clock, job, seen, saving, ingest, unloaded,
                 feed, judged>>

\* A deadline passes, which lets a worse offer into the best.
Closes(o) ==
  /\ o \in open /\ OneMore
  /\ open' = open \ {o}
  /\ excused' = excused \cup {"date"}
  /\ UNCHANGED <<profile, scoredFor, hidden, clock, job, seen, saving, nightVars, judged>>

MatchNext ==
  \/ \E c \in Savers : (\E p \in Profiles : Save(c, p)) \/ EnqueueEdit(c) \/ SaveDies(c)
  \/ Scan \/ NextMinute \/ EnqueueFanout \/ Fanout \/ EndIngest \/ LoseFanout
  \/ \E k \in Keys : BeginScoring(k) \/ CommitScores(k) \/ LoseJob(k)
  \/ \E S \in SUBSET Offers : BeginNight(S)
  \/ \E o \in Offers : Dismiss(o) \/ LoadOffers(o) \/ Closes(o)

MatchSpec == MatchInit /\ [][MatchNext]_matchVars

-----------------------------------------------------------------------------
\* One of the best offers has no score for the current profile.
RescoreOwed == profile \in Scoreable /\ \E o \in Top(profile, open) : scoredFor[o] # profile

RescoreComing ==
  \/ saving # {} \/ fanout # "none" \/ ingest # "none"
  \/ \E k \in Keys : job[k] = "queued" \/ (job[k] = "scoring" /\ seen[k] = Present)

\* Types; an edit "queue[s] a rescore if the scoring inputs moved"
\* (grant_service.py:88): while one of the best offers is not scored for the
\* current profile, a rescore that will do it is on its way, unless since the
\* last edit or night a request died, its enqueue met a job that had already
\* begun, a slower job overwrote newer scores, a job was given
\* up, the night's rescore ran ahead of its ingest, or a deadline passed; and
\* "a user-dismissed match must not resurface" (0010_scoring.sql:273).
StaleMatchesAreExplained ==
  /\ MatchTypeOK
  /\ RescoreOwed => RescoreComing \/ excused # {}
  /\ hidden = judged
=============================================================================
