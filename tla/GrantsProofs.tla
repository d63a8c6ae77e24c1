------------------------------ MODULE GrantsProofs ------------------------------
(***************************************************************************)
(* Proofs about ScanQuota, for any number of concurrent requests and scans *)
(* and any limit; about GrantMatching, for any offers, profiles, ranks and *)
(* savers; and about FeedLoad, for any extracts, batches, runs and faults. *)
(*                                                                         *)
(* A request that has counted and not yet enqueued is as good as a scan,   *)
(* so the inductive invariant of ScanQuota adds those to the scans in use: *)
(* a count finds room and adds one request, an enqueue turns one into a    *)
(* scan, and only an operator's retry makes scans of nothing.              *)
(*                                                                         *)
(* StaleMatchesAreExplained is inductive once the clock and the feed have  *)
(* their types: a step that makes a rescore owed leaves one coming, one    *)
(* that ends what was coming pays or says why not.                         *)
(*                                                                         *)
(* LoadIsSequential speaks of the end of a load; FeedIndInv says at every  *)
(* step what the records gone through have made of the table.  In a run    *)
(* that is not the first that is not what loading them one by one would    *)
(* have made, the run before may have written a later record: but a notice *)
(* with a record among them shows the last of these, and one with none in  *)
(* the whole extract shows what it did.                                    *)
(***************************************************************************)
EXTENDS ScanQuota, GrantMatching, FeedLoad, FunctionTheorems, FiniteSetTheorems,
        WellFoundedInduction, TLAPS

Counting == {r \in Requests : stage[r] = "counted"}

IInv ==
  /\ TypeOK
  /\ Used + Cardinality(Counting) <= Limit + Cardinality(Requests) - 1 + retries

-----------------------------------------------------------------------------
\* The two sets are finite, before and after a step.
LEMMA Sizes ==
  /\ IsFiniteSet(Counted) /\ Used \in Nat
  /\ IsFiniteSet(Counted') /\ Used' \in Nat
  /\ IsFiniteSet(Counting) /\ Cardinality(Counting) \in Nat
  /\ IsFiniteSet(Counting') /\ Cardinality(Counting') \in Nat
  /\ Cardinality(Requests) \in Nat \ {0}
  /\ Cardinality(Counting') <= Cardinality(Requests)
<1>1. /\ Counted \subseteq Scans /\ Counted' \subseteq Scans
      /\ Counting \subseteq Requests /\ Counting' \subseteq Requests
  BY DEF Counted, Counting
<1>2. /\ IsFiniteSet(Counted) /\ IsFiniteSet(Counted')
      /\ IsFiniteSet(Counting) /\ IsFiniteSet(Counting')
      /\ Cardinality(Counting') <= Cardinality(Requests)
  BY <1>1, FS_Subset, ScanAssumption
<1>3. Cardinality(Requests) # 0 /\ Cardinality(Requests) \in Nat
  BY FS_EmptySet, FS_CardinalityType, ScanAssumption
<1> QED BY <1>2, <1>3, FS_CardinalityType DEF Used

\* A step after which nothing more is counted keeps the bound.
LEMMA NoneMore ==
  ASSUME IInv, TypeOK', Counted' \subseteq Counted, Counting' \subseteq Counting,
         retries' = retries
  PROVE  IInv'
<1>1. Used' <= Used /\ Cardinality(Counting') <= Cardinality(Counting)
  BY Sizes, FS_Subset DEF Used
<1> QED BY <1>1, Sizes, ScanAssumption DEF IInv, TypeOK

\* A step that counts one scan or one request more.
LEMMA OneMoreScan ==
  ASSUME NEW s, Counted' \subseteq Counted \cup {s}
  PROVE  Used' <= Used + 1
<1> DEFINE S == Counted
<1>1. IsFiniteSet(S) /\ Cardinality(S) \in Nat
  BY Sizes DEF Used
<1> HIDE DEF S
<1>2. /\ IsFiniteSet(S \cup {s})
      /\ Cardinality(S \cup {s}) = Cardinality(S) \/ Cardinality(S \cup {s}) = Cardinality(S) + 1
  BY <1>1, FS_AddElement
<1>3. Cardinality(Counted') <= Cardinality(S \cup {s})
  BY <1>2, FS_Subset DEF S
<1>4. Used' <= Cardinality(S) + 1
  BY <1>1, <1>2, <1>3, Sizes DEF Used
<1> QED BY <1>4 DEF S, Used

-----------------------------------------------------------------------------
LEMMA InitIInv == Init => IInv
<1> SUFFICES ASSUME Init PROVE IInv
  OBVIOUS
<1>1. TypeOK
  BY ScanAssumption DEF Init, TypeOK, Statuses, Live
<1>2. Counted = {} /\ Counting = {}
  BY DEF Init, Counted, Counting
<1>3. Used = 0 /\ Cardinality(Counting) = 0
  BY <1>2, FS_EmptySet DEF Used
<1> QED BY <1>1, <1>3, Sizes, ScanAssumption DEF IInv, Init

LEMMA CountIInv == ASSUME NEW r \in Requests, IInv, Count(r) PROVE IInv'
<1>1. TypeOK'
  BY DEF IInv, TypeOK, Count
<1>2. Used' = Used
  BY DEF Count, Used, Counted
<1>3. Used < Limit /\ retries' = retries
  BY DEF Count
<1> QED BY <1>1, <1>2, <1>3, Sizes, ScanAssumption DEF IInv, TypeOK

LEMMA EnqueueIInv ==
  ASSUME NEW r \in Requests, NEW s \in Scans, IInv, Enqueue(r, s)
  PROVE  IInv'
<1>1. TypeOK'
  BY DEF IInv, TypeOK, Enqueue, Answer, Holders, Statuses, Live
<1>2. Used' <= Used + 1
  <2>1. Counted' \subseteq Counted \cup {s}
    BY DEF Enqueue, Counted, IInv, TypeOK
  <2> QED BY <2>1, OneMoreScan
<1>3. Cardinality(Counting') = Cardinality(Counting) - 1
  <2>1. r \in Counting /\ Counting' = Counting \ {r}
    BY DEF Enqueue, Answer, Counting, IInv, TypeOK
  <2> QED BY <2>1, Sizes, FS_RemoveElement
<1>4. retries' = retries
  BY DEF Enqueue
<1> QED BY <1>1, <1>2, <1>3, <1>4, Sizes, ScanAssumption DEF IInv, TypeOK

LEMMA EnqueueNothingIInv ==
  ASSUME NEW r \in Requests, IInv, EnqueueNothing(r)
  PROVE  IInv'
<1>1. TypeOK'
  BY DEF IInv, TypeOK, EnqueueNothing, Answer
<1>2. Counted' \subseteq Counted /\ Counting' \subseteq Counting /\ retries' = retries
  BY DEF EnqueueNothing, Answer, Counted, Counting, IInv, TypeOK
<1> QED BY <1>1, <1>2, NoneMore

LEMMA WorkIInv == ASSUME NEW s \in Scans, IInv, Work(s) PROVE IInv'
<1>1. TypeOK'
  BY DEF IInv, TypeOK, Work, Moves, Statuses, Live
<1>2. Counted' \subseteq Counted /\ Counting' \subseteq Counting /\ retries' = retries
  BY DEF Work, Moves, Counted, Counting, IInv, TypeOK
<1> QED BY <1>1, <1>2, NoneMore

LEMMA CancelIInv == ASSUME NEW s \in Scans, IInv, Cancel(s) PROVE IInv'
<1>1. TypeOK'
  BY DEF IInv, TypeOK, Cancel, Moves, Statuses, Live
<1>2. Counted' \subseteq Counted /\ Counting' \subseteq Counting /\ retries' = retries
  BY DEF Cancel, Moves, Counted, Counting, IInv, TypeOK, Live
<1> QED BY <1>1, <1>2, NoneMore

LEMMA RetryIInv == ASSUME NEW s \in Scans, IInv, Retry(s) PROVE IInv'
<1>1. TypeOK'
  BY ScanAssumption DEF IInv, TypeOK, Retry, Moves, Statuses, Live
<1>2. Used' <= Used + 1
  <2>1. Counted' \subseteq Counted \cup {s}
    BY DEF Retry, Moves, Counted, IInv, TypeOK
  <2> QED BY <2>1, OneMoreScan
<1>3. Counting' = Counting
  BY DEF Retry, Counting
<1>4. retries' = retries + 1
  BY DEF Retry
<1> QED BY <1>1, <1>2, <1>3, <1>4, Sizes, ScanAssumption DEF IInv, TypeOK

LEMMA NextIInv == IInv /\ [Next]_vars => IInv'
<1> SUFFICES ASSUME IInv, [Next]_vars PROVE IInv'
  OBVIOUS
<1>1. ASSUME NEW r \in Requests, NEW s \in Scans, Enqueue(r, s) PROVE IInv'
  BY <1>1, EnqueueIInv
<1>2. ASSUME NEW r \in Requests, Count(r) \/ EnqueueNothing(r) PROVE IInv'
  BY <1>2, CountIInv, EnqueueNothingIInv
<1>3. ASSUME NEW s \in Scans, Work(s) \/ Cancel(s) \/ Retry(s) PROVE IInv'
  BY <1>3, WorkIInv, CancelIInv, RetryIInv
<1>4. CASE Tick
  <2>1. TypeOK'
    BY <1>4, ScanAssumption DEF IInv, TypeOK, Tick
  <2>2. Counted' \subseteq Counted /\ Counting' \subseteq Counting /\ retries' = retries
    BY <1>4 DEF Tick, Counted, Counting
  <2> QED BY <2>1, <2>2, NoneMore
<1>5. CASE UNCHANGED vars
  BY <1>5 DEF IInv, TypeOK, Used, Counted, Counting, vars
<1> QED BY <1>1, <1>2, <1>3, <1>4, <1>5 DEF Next

\* The types, one live scan per key, and how far the monthly limit of
\* request_scan (grant_service.py:195) stretches: by the other requests under
\* way when one counts, and by one for each operator's retry.
THEOREM StretchIsBounded == Spec => []ScanInv
<1>1. IInv => ScanInv
  <2> SUFFICES ASSUME IInv PROVE ScanInv
    OBVIOUS
  <2> QED BY Sizes, ScanAssumption DEF IInv, TypeOK, ScanInv, QuotaStretch
<1> QED BY <1>1, InitIInv, NextIInv, PTL DEF Spec

-----------------------------------------------------------------------------
\* Matches: while a rescore is owed, every step leaves one coming, pays what is
\* owed, or says why not; that is inductive once the clock and the feed have
\* their types.
OwedIsExplained == RescoreOwed => RescoreComing \/ excused # {}

MatchIndInv ==
  /\ MatchTypeOK /\ clock \in 0 .. MinuteMax /\ feed \subseteq Offers
  /\ OwedIsExplained
  /\ hidden = judged

Shots == [profile: Profiles \cup {NoProfile}, open: SUBSET Offers]

LEMMA PresentIsSeen ==
  ASSUME MatchTypeOK
  PROVE  Present \in Shots
BY DEF MatchTypeOK, Present, Shots

\* The present is the same as long as neither the profile nor the catalogue moves.
LEMMA SamePresent ==
  ASSUME UNCHANGED <<profile, open>>
  PROVE  /\ Present' = Present /\ Top(profile, open)' = Top(profile, open)
BY DEF Present, Top

\* A step that changes no profile, no catalogue and no match owes as much as
\* before.
LEMMA SameOwed ==
  ASSUME UNCHANGED <<profile, open, scoredFor>>
  PROVE  RescoreOwed' <=> RescoreOwed
<1>1. Top(profile, open)' = Top(profile, open)
  BY SamePresent
<1> QED BY <1>1 DEF RescoreOwed

\* A step that leaves the night, the requests and every job on its way alone, and
\* forgives nothing, keeps the explanation.
LEMMA OwedStays ==
  ASSUME OwedIsExplained, UNCHANGED <<profile, open, scoredFor>>,
         RescoreComing => RescoreComing' \/ excused' # {}, excused \subseteq excused'
  PROVE  OwedIsExplained'
BY SameOwed DEF OwedIsExplained

\* What enqueue does under a key of the tenant: a rescore is coming, or excused.
LEMMA EnqueuedIsComing ==
  ASSUME MatchTypeOK, NEW k \in Keys, Enqueues(k), UNCHANGED <<profile, open, seen>>
  PROVE  /\ RescoreComing' \/ excused' # {}
         /\ job' \in [Keys -> {"none", "queued", "scoring"}]
         /\ excused' \subseteq {"died", "swallowed", "overtaken", "gone", "early", "date"}
<1> USE DEF MatchTypeOK, Enqueues
<1>1. CASE job[k] = "none"
  <2>1. job' = [job EXCEPT ![k] = "queued"] /\ excused' = excused
    BY <1>1
  <2>2. job'[k] = "queued"
    BY <2>1
  <2> QED BY <2>1, <2>2 DEF RescoreComing
<1>2. CASE job[k] = "queued"
  <2>1. job' = job /\ excused' = excused
    BY <1>2
  <2> QED BY <1>2, <2>1 DEF RescoreComing
<1>3. CASE job[k] = "scoring" /\ seen[k] = Present
  <2>1. job' = job /\ excused' = excused /\ seen' = seen /\ Present' = Present
    BY <1>3, SamePresent
  <2> QED BY <1>3, <2>1 DEF RescoreComing
<1>4. CASE job[k] = "scoring" /\ seen[k] # Present
  BY <1>4
<1>5. job[k] \in {"none", "queued", "scoring"}
  OBVIOUS
<1> QED BY <1>1, <1>2, <1>3, <1>4, <1>5

-----------------------------------------------------------------------------
LEMMA InitMatchInd == MatchInit => MatchIndInv
<1> SUFFICES ASSUME MatchInit PROVE MatchIndInv
  OBVIOUS
<1>1. ~RescoreOwed
  BY MatchingAssumption DEF MatchInit, RescoreOwed
<1>2. Unseen \in Shots
  BY DEF Unseen, Shots
<1>3. clock \in 0 .. MinuteMax
  BY MatchingAssumption DEF MatchInit
<1> QED BY <1>1, <1>2, <1>3 DEF MatchInit, MatchIndInv, MatchTypeOK, OwedIsExplained, Shots

LEMMA SaveMatchInd ==
  ASSUME MatchIndInv, NEW c \in Savers, NEW p \in Profiles, Save(c, p)
  PROVE  MatchIndInv'
<1>1. RescoreOwed' => saving' # {}
  BY DEF Save, RescoreOwed
<1>2. OwedIsExplained'
  BY <1>1 DEF OwedIsExplained, RescoreComing
<1> QED BY <1>2 DEF MatchIndInv, MatchTypeOK, Save, nightVars

LEMMA EnqueueEditMatchInd ==
  ASSUME MatchIndInv, NEW c \in Savers, EnqueueEdit(c)
  PROVE  MatchIndInv'
<1> DEFINE k == <<"edit", clock>>
<1>1. k \in Keys /\ Enqueues(k) /\ UNCHANGED <<profile, open, seen>> /\ MatchTypeOK
  BY DEF MatchIndInv, EnqueueEdit, Keys
<1> HIDE DEF k
<1>2. /\ RescoreComing' \/ excused' # {}
      /\ job' \in [Keys -> {"none", "queued", "scoring"}]
      /\ excused' \subseteq {"died", "swallowed", "overtaken", "gone", "early", "date"}
  BY <1>1, EnqueuedIsComing
<1>3. OwedIsExplained'
  BY <1>2 DEF OwedIsExplained
<1> QED BY <1>2, <1>3 DEF MatchIndInv, MatchTypeOK, EnqueueEdit, nightVars

LEMMA SaveDiesMatchInd ==
  ASSUME MatchIndInv, NEW c \in Savers, SaveDies(c)
  PROVE  MatchIndInv'
<1>1. OwedIsExplained'
  BY DEF OwedIsExplained, SaveDies
<1> QED BY <1>1 DEF MatchIndInv, MatchTypeOK, SaveDies, nightVars

LEMMA ScanMatchInd == ASSUME MatchIndInv, Scan PROVE MatchIndInv'
<1> DEFINE k == <<"scan", clock>>
<1>1. k \in Keys /\ Enqueues(k) /\ UNCHANGED <<profile, open, seen>> /\ MatchTypeOK
  BY DEF MatchIndInv, Scan, Keys
<1> HIDE DEF k
<1>2. /\ RescoreComing' \/ excused' # {}
      /\ job' \in [Keys -> {"none", "queued", "scoring"}]
      /\ excused' \subseteq {"died", "swallowed", "overtaken", "gone", "early", "date"}
  BY <1>1, EnqueuedIsComing
<1>3. OwedIsExplained'
  BY <1>2 DEF OwedIsExplained
<1> QED BY <1>2, <1>3 DEF MatchIndInv, MatchTypeOK, Scan, nightVars

LEMMA DismissMatchInd ==
  ASSUME MatchIndInv, NEW o \in Offers, Dismiss(o)
  PROVE  MatchIndInv'
<1>1. RescoreComing => RescoreComing'
  BY SamePresent DEF RescoreComing, Dismiss, nightVars
<1>2. OwedIsExplained'
  BY <1>1, OwedStays DEF MatchIndInv, Dismiss
<1> QED BY <1>2 DEF MatchIndInv, MatchTypeOK, Dismiss, nightVars

LEMMA NextMinuteMatchInd == ASSUME MatchIndInv, NextMinute PROVE MatchIndInv'
<1>1. RescoreComing => RescoreComing'
  BY SamePresent DEF RescoreComing, NextMinute, nightVars
<1>2. OwedIsExplained'
  BY <1>1, OwedStays DEF MatchIndInv, NextMinute
<1>3. clock' \in 0 .. MinuteMax
  BY MatchingAssumption DEF MatchIndInv, NextMinute
<1> QED BY <1>2, <1>3 DEF MatchIndInv, MatchTypeOK, NextMinute, nightVars

-----------------------------------------------------------------------------
\* The statement sees the present when it begins, and that pays what is owed.
LEMMA BeginScoringMatchInd ==
  ASSUME MatchIndInv, NEW k \in Keys, BeginScoring(k)
  PROVE  MatchIndInv'
<1>1. Present' = Present /\ Present \in Shots
  BY SamePresent, PresentIsSeen DEF BeginScoring, MatchIndInv
<1>2. seen' \in [Keys -> Shots] /\ seen'[k] = Present /\ job'[k] = "scoring"
  BY <1>1 DEF BeginScoring, MatchIndInv, MatchTypeOK, Shots
<1>3. RescoreComing'
  BY <1>1, <1>2 DEF RescoreComing
<1>4. OwedIsExplained'
  BY <1>3 DEF OwedIsExplained
<1> QED BY <1>2, <1>4 DEF MatchIndInv, MatchTypeOK, BeginScoring, nightVars, Shots

\* A commit of what was seen at present pays; one of a past view overwrites newer
\* scores and says so, or leaves the debt and what is coming as they were.
LEMMA CommitMatchInd ==
  ASSUME MatchIndInv, NEW k \in Keys, CommitScores(k)
  PROVE  MatchIndInv'
<1>1. MatchTypeOK /\ Committed(k) /\ hidden' = hidden
  BY DEF MatchIndInv, CommitScores
<1>2. /\ job[k] = "scoring" /\ scoredFor' = Rescored(k)
      /\ seen' = [seen EXCEPT ![k] = Unseen]
      /\ UNCHANGED <<profile, open, clock, saving, ingest, unloaded, feed, fanout, judged>>
      /\ excused' = IF \E o \in Offers : scoredFor[o] = profile /\ Rescored(k)[o] # profile
                    THEN excused \cup {"overtaken"} ELSE excused
  BY <1>1 DEF Committed, nightVars
<1>3. PICK after \in {"none", "queued"} : job' = [job EXCEPT ![k] = after]
  BY <1>1 DEF Committed
<1>4. seen[k] \in Shots /\ Unseen \in Shots
  BY <1>1 DEF MatchTypeOK, Shots, Unseen
<1>5. scoredFor' \in [Offers -> Profiles \cup {NoProfile}]
  BY <1>1, <1>2, <1>4 DEF Rescored, MatchTypeOK, Shots
<1>6. MatchTypeOK'
  BY <1>1, <1>2, <1>3, <1>4, <1>5 DEF MatchTypeOK, Shots
<1>7. Present' = Present /\ Top(profile, open)' = Top(profile, open)
  BY <1>2, SamePresent
<1>8. CASE seen[k] = Present
  <2>1. seen[k].profile = profile /\ seen[k].open = open
    BY <1>8 DEF Present
  <2>2. \A o \in Top(profile, open) : o \in Offers
    BY <1>1 DEF Top, MatchTypeOK
  <2>3. \A o \in Top(profile, open) : scoredFor'[o] = profile
    BY <1>2, <2>1, <2>2 DEF Rescored
  <2>4. ~RescoreOwed'
    BY <1>2, <1>7, <2>3 DEF RescoreOwed
  <2> QED BY <1>1, <1>2, <1>6, <2>4 DEF MatchIndInv, OwedIsExplained
<1>9. CASE seen[k] # Present /\ excused' # excused
  BY <1>1, <1>2, <1>6, <1>9 DEF MatchIndInv, OwedIsExplained
<1>10. CASE seen[k] # Present /\ excused' = excused /\ "overtaken" \in excused
  BY <1>1, <1>2, <1>6, <1>10 DEF MatchIndInv, OwedIsExplained
<1>11. CASE seen[k] # Present /\ excused' = excused /\ "overtaken" \notin excused
  <2>1. \A o \in Offers : scoredFor[o] = profile => scoredFor'[o] = profile
    BY <1>2, <1>11
  <2>2. \A o \in Top(profile, open) : o \in Offers
    BY <1>1 DEF Top, MatchTypeOK
  <2>3. RescoreOwed' => RescoreOwed
    BY <1>2, <1>7, <2>1, <2>2 DEF RescoreOwed
  <2>4. \A j \in Keys : j # k => job'[j] = job[j] /\ seen'[j] = seen[j]
    BY <1>1, <1>2, <1>3 DEF MatchTypeOK
  <2>5. RescoreComing => RescoreComing'
    <3> SUFFICES ASSUME RescoreComing PROVE RescoreComing'
      OBVIOUS
    <3>1. CASE saving # {} \/ fanout # "none" \/ ingest # "none"
      BY <3>1, <1>2 DEF RescoreComing
    <3>2. CASE \E j \in Keys : job[j] = "queued" \/ (job[j] = "scoring" /\ seen[j] = Present)
      <4>1. PICK j \in Keys : job[j] = "queued" \/ (job[j] = "scoring" /\ seen[j] = Present)
        BY <3>2
      <4>2. j # k
        BY <4>1, <1>2, <1>11
      <4>3. job'[j] = "queued" \/ (job'[j] = "scoring" /\ seen'[j] = Present')
        BY <4>1, <4>2, <2>4, <1>7
      <4> QED BY <4>3 DEF RescoreComing
    <3> QED BY <3>1, <3>2 DEF RescoreComing
  <2> QED BY <1>1, <1>2, <1>6, <1>11, <2>3, <2>5 DEF MatchIndInv, OwedIsExplained
<1> QED BY <1>8, <1>9, <1>10, <1>11

LEMMA LoseJobMatchInd ==
  ASSUME MatchIndInv, NEW k \in Keys, LoseJob(k)
  PROVE  MatchIndInv'
<1>1. MatchTypeOK /\ Unseen \in Shots
  BY DEF MatchIndInv, Unseen, Shots
<1>2. seen' \in [Keys -> Shots]
  BY <1>1 DEF LoseJob, MatchTypeOK, Shots
<1>3. CASE job' = [job EXCEPT ![k] = "queued"] /\ UNCHANGED excused
  <2>1. job'[k] = "queued" /\ job' \in [Keys -> {"none", "queued", "scoring"}]
    BY <1>1, <1>3 DEF MatchTypeOK
  <2>2. OwedIsExplained'
    BY <2>1 DEF OwedIsExplained, RescoreComing
  <2> QED BY <1>2, <1>3, <2>1, <2>2 DEF MatchIndInv, MatchTypeOK, LoseJob, nightVars, Shots
<1>4. CASE job' = [job EXCEPT ![k] = "none"] /\ excused' = excused \cup {"gone"}
  <2>1. OwedIsExplained'
    BY <1>4 DEF OwedIsExplained
  <2> QED BY <1>2, <1>4, <2>1 DEF MatchIndInv, MatchTypeOK, LoseJob, nightVars, Shots
<1> QED BY <1>3, <1>4 DEF LoseJob

-----------------------------------------------------------------------------
\* The night: a rescore is coming until the fan-out has run and the ingest ended.
LEMMA BeginNightMatchInd ==
  ASSUME MatchIndInv, NEW S \in SUBSET Offers, BeginNight(S)
  PROVE  MatchIndInv'
<1>1. OwedIsExplained'
  BY DEF OwedIsExplained, RescoreComing, BeginNight
<1> QED BY <1>1 DEF MatchIndInv, MatchTypeOK, BeginNight

LEMMA EnqueueFanoutMatchInd == ASSUME MatchIndInv, EnqueueFanout PROVE MatchIndInv'
<1>1. OwedIsExplained'
  BY DEF OwedIsExplained, RescoreComing, EnqueueFanout
<1> QED BY <1>1 DEF MatchIndInv, MatchTypeOK, EnqueueFanout

LEMMA FanoutMatchInd == ASSUME MatchIndInv, Fanout PROVE MatchIndInv'
<1>1. CASE profile \in Scoreable
  <2> DEFINE k == <<"night", 0>>
  <2>1. k \in Keys /\ Enqueues(k) /\ UNCHANGED <<profile, open, seen>> /\ MatchTypeOK
    BY <1>1 DEF MatchIndInv, Fanout, Keys
  <2> HIDE DEF k
  <2>2. /\ RescoreComing' \/ excused' # {}
        /\ job' \in [Keys -> {"none", "queued", "scoring"}]
        /\ excused' \subseteq {"died", "swallowed", "overtaken", "gone", "early", "date"}
    BY <2>1, EnqueuedIsComing
  <2>3. OwedIsExplained'
    BY <2>2 DEF OwedIsExplained
  <2> QED BY <2>2, <2>3 DEF MatchIndInv, MatchTypeOK, Fanout
<1>2. CASE profile \notin Scoreable
  <2>1. ~RescoreOwed'
    BY <1>2 DEF RescoreOwed, Fanout
  <2> QED BY <1>2, <2>1 DEF MatchIndInv, MatchTypeOK, Fanout, OwedIsExplained
<1> QED BY <1>1, <1>2

LEMMA LoadOffersMatchInd ==
  ASSUME MatchIndInv, NEW o \in Offers, LoadOffers(o)
  PROVE  MatchIndInv'
<1>1. OwedIsExplained'
  BY DEF OwedIsExplained, RescoreComing, LoadOffers
<1>2. open' \subseteq Offers
  BY DEF LoadOffers, MatchIndInv, MatchTypeOK
<1> QED BY <1>1, <1>2 DEF MatchIndInv, MatchTypeOK, LoadOffers

LEMMA EndIngestMatchInd == ASSUME MatchIndInv, EndIngest PROVE MatchIndInv'
<1>1. /\ UNCHANGED <<job, fanout>>
      /\ \/ excused' = excused /\ StillToScore
         \/ excused' = excused \cup {"early"}
         \/ excused' = excused \cup {"gone"}
  BY DEF EndIngest
<1>2. <<"night", 0>> \in Keys
  BY DEF Keys
<1>3. OwedIsExplained'
  BY <1>1, <1>2 DEF OwedIsExplained, RescoreComing, StillToScore
<1> QED BY <1>1, <1>3 DEF MatchIndInv, MatchTypeOK, EndIngest

LEMMA LoseFanoutMatchInd == ASSUME MatchIndInv, LoseFanout PROVE MatchIndInv'
<1>1. OwedIsExplained'
  BY DEF OwedIsExplained, LoseFanout
<1> QED BY <1>1 DEF MatchIndInv, MatchTypeOK, LoseFanout

LEMMA ClosesMatchInd ==
  ASSUME MatchIndInv, NEW o \in Offers, Closes(o)
  PROVE  MatchIndInv'
<1>1. OwedIsExplained'
  BY DEF OwedIsExplained, Closes
<1> QED BY <1>1 DEF MatchIndInv, MatchTypeOK, Closes, nightVars

-----------------------------------------------------------------------------
LEMMA NextMatchInd == MatchIndInv /\ [MatchNext]_matchVars => MatchIndInv'
<1> SUFFICES ASSUME MatchIndInv, [MatchNext]_matchVars PROVE MatchIndInv'
  OBVIOUS
<1>1. ASSUME NEW c \in Savers, (\E p \in Profiles : Save(c, p)) \/ EnqueueEdit(c) \/ SaveDies(c)
      PROVE  MatchIndInv'
  BY <1>1, SaveMatchInd, EnqueueEditMatchInd, SaveDiesMatchInd
<1>2. ASSUME Scan \/ NextMinute \/ EnqueueFanout \/ Fanout \/ EndIngest \/ LoseFanout
      PROVE  MatchIndInv'
  BY <1>2, ScanMatchInd, NextMinuteMatchInd, EnqueueFanoutMatchInd, FanoutMatchInd,
     EndIngestMatchInd, LoseFanoutMatchInd
<1>3. ASSUME NEW k \in Keys, BeginScoring(k) \/ CommitScores(k) \/ LoseJob(k)
      PROVE  MatchIndInv'
  BY <1>3, BeginScoringMatchInd, CommitMatchInd, LoseJobMatchInd
<1>4. ASSUME NEW S \in SUBSET Offers, BeginNight(S) PROVE MatchIndInv'
  BY <1>4, BeginNightMatchInd
<1>5. ASSUME NEW o \in Offers, Dismiss(o) \/ LoadOffers(o) \/ Closes(o) PROVE MatchIndInv'
  BY <1>5, DismissMatchInd, LoadOffersMatchInd, ClosesMatchInd
<1>6. CASE UNCHANGED matchVars
  <2>1. Present' = Present /\ (RescoreOwed' <=> RescoreOwed)
    BY <1>6, SamePresent, SameOwed DEF matchVars
  <2>2. RescoreComing' <=> RescoreComing
    BY <1>6, <2>1 DEF matchVars, nightVars, RescoreComing
  <2> QED BY <1>6, <2>1, <2>2 DEF matchVars, nightVars, MatchIndInv, MatchTypeOK, OwedIsExplained
<1> QED BY <1>1, <1>2, <1>3, <1>4, <1>5, <1>6 DEF MatchNext

\* However edits, scans, nights, slow jobs and losses interleave, a match that is
\* out of date is being rescored or there is a reason it is not, and what the user
\* dismissed stays dismissed (grant_service.py:88, 0010_scoring.sql:273).
THEOREM MatchesAreExplained == MatchSpec => []StaleMatchesAreExplained
<1>1. MatchIndInv => StaleMatchesAreExplained
  BY DEF MatchIndInv, StaleMatchesAreExplained, OwedIsExplained
<1> QED BY InitMatchInd, NextMatchInd, <1>1, PTL DEF MatchSpec

-----------------------------------------------------------------------------
\* The feed: what the load has of a record is what it built of it, record by
\* record, whatever statements it took.
Stored(i, u) == Parsed[i].uid = u /\ Parsed[i].storable

\* The last of the first n records that the table can take for u.
LastFor(i, u, n) ==
  i \in 1 .. n /\ Stored(i, u) /\ \A j \in 1 .. n : Stored(j, u) => j <= i

\* What failed among the first n records.
Lost(n) == {i \in 1 .. n : ~Parsed[i].storable} \cup unlucky

FeedShapes ==
  /\ extract \in Seq(RawRecords) /\ batchSize \in Nat \ {0}
  /\ next \in 1 .. Total + 1 /\ retryTo \in 0 .. Total
  /\ retryTo # 0 => next <= retryTo
  /\ table \in [Uids -> RawRecords \cup {Old, NoRow}]
  /\ before \in [Uids -> RawRecords \cup {Old, NoRow}]
  /\ result \in [inserted : Int, updated : Int, failed : Int]
  /\ loading \in {"running", "done", "failed"} /\ runs \in 1 .. MaxRuns
  /\ unlucky \subseteq 1 .. next - 1

\* The table, of the n records that this run has been through; a notice with no
\* record that the table can take is as it was before the first run.
TableShows(n) ==
  \A u \in Uids :
    /\ \A i \in 1 .. n :
         LastFor(i, u, n) /\ (\A j \in unlucky : Parsed[j].uid # u) => table[u] = Parsed[i]
    /\ (runs = 1 /\ \A i \in 1 .. n : ~Stored(i, u)) => table[u] = before[u]
    /\ (\A i \in 1 .. Total : ~Stored(i, u)) => table[u] = before[u]

FeedTally ==
  /\ result.failed = Cardinality(Lost(next - 1))
  /\ result.inserted + result.updated + result.failed = next - 1

FeedEnd ==
  loading # "running" =>
    /\ retryTo = 0 /\ next = Total + 1
    /\ loading = "failed" <=> result.inserted + result.updated = 0

FeedIndInv == FeedShapes /\ TableShows(next - 1) /\ FeedTally /\ FeedEnd

-----------------------------------------------------------------------------
\* Sets of numbers have a least member, and when they are bounded a greatest one.
LEMMA LeastOf ==
  ASSUME NEW S, S \subseteq Nat, S # {}
  PROVE  \E m \in S : \A y \in S : m <= y
<1> DEFINE R == OpToRel(<, Nat)
<1>1. IsWellFoundedOn(R, Nat)
  BY NatLessThanWellFounded
<1> HIDE DEF R
<1>2. \E x \in S : \A y \in S : ~ (<<y, x>> \in R)
  BY <1>1, WFMin
<1>3. \E x \in S : \A y \in S : ~ (y < x)
  BY <1>2 DEF OpToRel, R
<1> QED BY <1>3

LEMMA GreatestOf ==
  ASSUME NEW n \in Nat, NEW S, S \subseteq 1 .. n, S # {}
  PROVE  \E m \in S : \A y \in S : y <= m
<1> DEFINE B == {m \in Nat : \A y \in S : y <= m}
<1>1. n \in B
  OBVIOUS
<1>2. PICK m \in B : \A b \in B : m <= b
  <2> HIDE DEF B
  <2>1. B \subseteq Nat
    BY DEF B
  <2> QED BY <1>1, <2>1, LeastOf
<1>3. m \in Nat /\ \A y \in S : y <= m
  BY <1>2
<1>4. m \in S
  <2> SUFFICES ASSUME m \notin S PROVE FALSE
    OBVIOUS
  <2>0. \A y \in S : y # m /\ y \in Int
    OBVIOUS
  <2>1. \A y \in S : y <= m - 1 /\ y >= 1
    BY <1>3, <2>0
  <2>2. m - 1 \in Nat
    <3>1. PICK y \in S : y <= m - 1 /\ y >= 1
      BY <2>1
    <3> QED BY <1>3, <2>0, <3>1
  <2>3. m - 1 \in B
    BY <2>1, <2>2
  <2> QED BY <1>2, <1>3, <2>3
<1> QED BY <1>3, <1>4

LEMMA Places ==
  ASSUME NEW l \in Nat, NEW U, U \subseteq 1 .. l
  PROVE  /\ IsFiniteSet(1 .. l) /\ Cardinality(1 .. l) = l
         /\ IsFiniteSet(U) /\ Cardinality(U) \in Nat
<1>1. IsFiniteSet(1 .. l) /\ Cardinality(1 .. l) = IF 1 > l THEN 0 ELSE l - 1 + 1
  <2>1. 1 \in Int /\ l \in Int
    OBVIOUS
  <2> QED BY <2>1, FS_Interval
<1>2. (IF 1 > l THEN 0 ELSE l - 1 + 1) = l
  OBVIOUS
<1>3. U \in SUBSET (1 .. l)
  OBVIOUS
<1>4. IsFiniteSet(U)
  BY <1>1, <1>3, FS_Subset
<1>5. Cardinality(U) \in Nat
  BY <1>4, FS_CardinalityType
<1> QED BY <1>1, <1>2, <1>4, <1>5

UpTo(U, m) == {j \in U : j <= m}

\* Of a set of places the n-th is there.
LEMMA NthPlace ==
  ASSUME NEW l \in Nat, NEW U, U \subseteq 1 .. l, NEW n \in 1 .. Cardinality(U)
  PROVE  \E i \in U : Cardinality(UpTo(U, i)) = n
<1> DEFINE S == {m \in Nat : Cardinality(UpTo(U, m)) >= n}
<1>1. IsFiniteSet(U) /\ Cardinality(U) \in Nat
  BY Places
<1>2. ASSUME NEW m \in Nat
      PROVE  IsFiniteSet(UpTo(U, m)) /\ Cardinality(UpTo(U, m)) \in Nat
  <2>1. UpTo(U, m) \subseteq 1 .. l
    BY DEF UpTo
  <2> QED BY <2>1, Places
<1>3. UpTo(U, l) = U
  <2>1. \A j \in U : j <= l
    OBVIOUS
  <2> QED BY <2>1 DEF UpTo
<1>4. l \in S
  BY <1>1, <1>3
<1>5. PICK m \in S : \A b \in S : m <= b
  <2> HIDE DEF S
  <2>1. S \subseteq Nat
    BY DEF S
  <2> QED BY <1>4, <2>1, LeastOf
<1>6. m \in Nat /\ Cardinality(UpTo(U, m)) >= n
  BY <1>5
<1>7. UpTo(U, 0) = {}
  <2>1. \A j \in U : ~(j <= 0)
    OBVIOUS
  <2> QED BY <2>1 DEF UpTo
<1>8. m # 0
  BY <1>6, <1>7, FS_EmptySet
<1>9. m - 1 \in Nat /\ m - 1 \notin S
  <2>1. m - 1 \in Nat /\ ~(m <= m - 1)
    BY <1>6, <1>8
  <2> HIDE DEF S
  <2> QED BY <1>5, <2>1
<1>10. Cardinality(UpTo(U, m - 1)) < n
  <2>1. ~(Cardinality(UpTo(U, m - 1)) >= n)
    BY <1>9
  <2>2. Cardinality(UpTo(U, m - 1)) \in Nat /\ n \in Nat
    BY <1>1, <1>2, <1>9
  <2> QED BY <2>1, <2>2
<1>11. CASE m \notin U
  <2>1. \A j \in U : j <= m <=> j <= m - 1
    BY <1>6, <1>11
  <2>2. UpTo(U, m) = UpTo(U, m - 1)
    BY <2>1 DEF UpTo
  <2> HIDE DEF S
  <2>3. Cardinality(UpTo(U, m)) \in Nat /\ n \in Nat
    BY <1>1, <1>2, <1>6
  <2> QED BY <1>6, <1>10, <2>2, <2>3
<1>12. CASE m \in U
  <2>0. /\ \A j \in U : j <= m <=> (j <= m - 1 \/ j = m)
        /\ ~(m <= m - 1)
    BY <1>6, <1>12
  <2>1. UpTo(U, m) = UpTo(U, m - 1) \cup {m} /\ m \notin UpTo(U, m - 1)
    <3>1. m <= m
      BY <1>6
    <3> QED BY <1>12, <2>0, <3>1 DEF UpTo
  <2> HIDE DEF S
  <2>2. Cardinality(UpTo(U, m)) = Cardinality(UpTo(U, m - 1)) + 1
    BY <1>2, <1>9, <2>1, FS_AddElement
  <2>3. Cardinality(UpTo(U, m)) = n
    BY <1>2, <1>6, <1>9, <1>10, <2>2
  <2> QED BY <1>12, <2>3 DEF UpTo
<1> QED BY <1>11, <1>12

-----------------------------------------------------------------------------
\* What is parsed has its type, and the table refuses of it only what it would
\* refuse in any case: no dates or amounts that contradict each other are left.
LEMMA BuiltIsAccepted ==
  ASSUME NEW raw \in RawRecords
  PROVE  /\ Build(raw) \in RawRecords /\ Build(raw).uid = raw.uid
         /\ Accepted(Build(raw)) <=> Build(raw).storable
<1>1. PICK v \in RawRecords : v = Build(raw)
  BY FeedAssumption DEF Build, RawRecords
<1>2. /\ v.closes = IF Reversed(raw.posted, raw.closes) THEN Missing ELSE raw.closes
      /\ v.floor = IF Reversed(raw.floor, raw.ceiling) THEN Missing ELSE raw.floor
      /\ v.ceiling = IF Reversed(raw.floor, raw.ceiling) THEN Missing ELSE raw.ceiling
      /\ v.posted = raw.posted /\ v.storable = raw.storable /\ v.uid = raw.uid
  BY <1>1 DEF Build, RawRecords
<1>3. ~Reversed(v.posted, v.closes) /\ ~Reversed(v.floor, v.ceiling)
  BY <1>2 DEF Reversed
<1> QED BY <1>1, <1>2, <1>3 DEF Accepted

LEMMA ParsedTypes ==
  ASSUME extract \in Seq(RawRecords)
  PROVE  /\ Total \in Nat /\ DOMAIN Parsed = 1 .. Total
         /\ \A i \in 1 .. Total : /\ Parsed[i] \in RawRecords /\ Parsed[i].uid \in Uids
                                  /\ Accepted(Parsed[i]) <=> Parsed[i].storable
<1>1. Len(extract) \in Nat /\ Usable \subseteq 1 .. Len(extract)
  BY DEF Usable
<1>2. Total \in Nat
  BY <1>1, Places DEF Total
<1>3. DOMAIN Parsed = 1 .. Total
  BY DEF Parsed
<1>4. ASSUME NEW n \in 1 .. Total
      PROVE  /\ Parsed[n] \in RawRecords /\ Parsed[n].uid \in Uids
             /\ Accepted(Parsed[n]) <=> Parsed[n].storable
  <2>0. n \in 1 .. Cardinality(Usable)
    BY <1>4 DEF Total
  <2>1. \E i \in Usable : Cardinality({j \in Usable : j <= i}) = n
    <3>1. \E i \in Usable : Cardinality(UpTo(Usable, i)) = n
      BY <1>1, <2>0, NthPlace
    <3> QED BY <3>1 DEF UpTo
  <2>2. Place(n) \in Usable
    BY <2>1 DEF Place
  <2>3. extract[Place(n)] \in RawRecords /\ extract[Place(n)].uid # Missing
    BY <1>1, <2>2 DEF Usable
  <2>4. extract[Place(n)].uid \in Uids
    BY <2>3 DEF RawRecords
  <2>5. Parsed[n] = Build(extract[Place(n)])
    BY <1>4 DEF Parsed
  <2> QED BY <2>3, <2>4, <2>5, BuiltIsAccepted
<1> QED BY <1>2, <1>3, <1>4

LEMMA ParsedStays ==
  ASSUME UNCHANGED extract
  PROVE  Parsed' = Parsed /\ Total' = Total
BY DEF Parsed, Total, Usable, Place

\* What has been lost is a finite set of the records gone through.
LEMMA LostTypes ==
  ASSUME FeedShapes
  PROVE  /\ Lost(next - 1) \subseteq 1 .. next - 1 /\ IsFiniteSet(Lost(next - 1))
         /\ Cardinality(Lost(next - 1)) \in Nat /\ next - 1 \in Nat
         /\ Cardinality(1 .. next - 1) = next - 1 /\ IsFiniteSet(1 .. next - 1)
<1>1. next - 1 \in Nat /\ next \in Nat
  BY ParsedTypes DEF FeedShapes
<1>2. Lost(next - 1) \subseteq 1 .. next - 1
  BY DEF Lost, FeedShapes
<1> QED BY <1>1, <1>2, Places

-----------------------------------------------------------------------------
LEMMA InitFeedInd == FeedInit => FeedIndInv
<1> SUFFICES ASSUME FeedInit PROVE FeedIndInv
  OBVIOUS
<1>1. /\ extract \in Seq(RawRecords) /\ batchSize \in Nat \ {0} /\ next = 1 /\ retryTo = 0
      /\ result = Nothing /\ loading = "running" /\ runs = 1 /\ unlucky = {} /\ before = table
      /\ table \in [Uids -> RawRecords \cup {Old, NoRow}]
  BY FeedAssumption DEF FeedInit
<1>2. Total \in Nat
  BY <1>1, ParsedTypes
<1>3. FeedShapes
  BY <1>1, <1>2, FeedAssumption DEF FeedShapes, Nothing
<1>4. next - 1 = 0 /\ 1 .. next - 1 = {} /\ Lost(next - 1) = {}
  <2>1. next - 1 = 0 /\ 1 .. 0 = {}
    BY <1>1
  <2> QED BY <1>1, <2>1 DEF Lost
<1>5. TableShows(next - 1)
  BY <1>1, <1>4 DEF TableShows
<1>6. FeedTally
  <2>1. Cardinality(Lost(next - 1)) = 0
    BY <1>4, FS_EmptySet
  <2> QED BY <1>1, <1>4, <2>1 DEF FeedTally, Nothing
<1> QED BY <1>1, <1>3, <1>5, <1>6 DEF FeedIndInv, FeedEnd

\* The records of a batch, when none of them repeats a notice and the table takes
\* all of them.
BatchOf(first, last) ==
  /\ first \in 1 .. Total /\ last \in first .. Total
  /\ \A i \in first .. last : Parsed[i].storable
  /\ \A i, j \in first .. last : i # j => Parsed[i].uid # Parsed[j].uid

\* One statement upserts each record of the batch, and no other row.
LEMMA UpsertedIs ==
  ASSUME FeedShapes, NEW first, NEW last, BatchOf(first, last)
  PROVE  /\ Upserted(RowsOf(first, last)) \in [Uids -> RawRecords \cup {Old, NoRow}]
         /\ \A i \in first .. last : Upserted(RowsOf(first, last))[Parsed[i].uid] = Parsed[i]
         /\ \A u \in Uids : (\A i \in first .. last : Parsed[i].uid # u) =>
              Upserted(RowsOf(first, last))[u] = table[u]
<1> DEFINE rows == RowsOf(first, last)
<1>1. /\ Total \in Nat /\ first .. last \subseteq 1 .. Total
      /\ \A i \in first .. last : Parsed[i] \in RawRecords /\ Parsed[i].uid \in Uids
  BY ParsedTypes DEF BatchOf, FeedShapes
<1>2. \A r : r \in rows <=> \E i \in first .. last : r = Parsed[i]
  BY DEF RowsOf
<1> HIDE DEF rows
<1>3. \A i \in first .. last, r \in rows : r.uid = Parsed[i].uid => r = Parsed[i]
  BY <1>2 DEF BatchOf
<1>4. ASSUME NEW i \in first .. last
      PROVE  Upserted(rows)[Parsed[i].uid] = Parsed[i]
  <2>1. Parsed[i] \in rows /\ Parsed[i].uid \in Uids
    BY <1>1, <1>2
  <2>2. (CHOOSE r \in rows : r.uid = Parsed[i].uid) = Parsed[i]
    BY <1>3, <2>1
  <2> QED BY <2>1, <2>2 DEF Upserted
<1>5. ASSUME NEW u \in Uids, \A i \in first .. last : Parsed[i].uid # u
      PROVE  Upserted(rows)[u] = table[u]
  BY <1>2, <1>5 DEF Upserted
<1>6. ASSUME NEW u \in Uids
      PROVE  Upserted(rows)[u] \in RawRecords \cup {Old, NoRow}
  <2>1. CASE \E i \in first .. last : Parsed[i].uid = u
    BY <1>1, <1>4, <2>1
  <2>2. CASE \A i \in first .. last : Parsed[i].uid # u
    BY <1>5, <2>2 DEF FeedShapes
  <2> QED BY <2>1, <2>2
<1>7. DOMAIN Upserted(rows) = Uids
  BY DEF Upserted
<1>8. Upserted(rows) \in [Uids -> RawRecords \cup {Old, NoRow}]
  BY <1>6, <1>7 DEF Upserted
<1> QED BY <1>4, <1>5, <1>8 DEF rows

\* The tally grows by as many as there are records in the batch.
LEMMA TalliedIs ==
  ASSUME FeedShapes, NEW first, NEW last, BatchOf(first, last)
  PROVE  /\ Tallied(RowsOf(first, last)) \in [inserted : Int, updated : Int, failed : Int]
         /\ Tallied(RowsOf(first, last)).failed = result.failed
         /\ Tallied(RowsOf(first, last)).inserted + Tallied(RowsOf(first, last)).updated
              = result.inserted + result.updated + (last - first + 1)
<1> DEFINE rows == RowsOf(first, last)
           knew == {r.uid : r \in {q \in rows : table[q.uid] = NoRow}}
           F == [i \in first .. last |-> Parsed[i]]
<1>1. /\ first \in Nat /\ last \in Nat /\ first <= last
      /\ IsFiniteSet(first .. last) /\ Cardinality(first .. last) = last - first + 1
  BY ParsedTypes, FS_Interval DEF BatchOf, FeedShapes
<1>2. F \in Bijection(first .. last, rows)
  <2>1. rows = {Parsed[i] : i \in first .. last}
    BY DEF RowsOf
  <2>2. \A i, j \in first .. last : i # j => Parsed[i] # Parsed[j]
    BY DEF BatchOf
  <2>3. F \in [first .. last -> rows]
    BY <2>1
  <2>4. F \in Injection(first .. last, rows)
    BY <2>2, <2>3 DEF Injection, IsInjective
  <2>5. F \in Surjection(first .. last, rows)
    BY <2>1, <2>3 DEF Surjection
  <2> QED BY <2>4, <2>5 DEF Bijection
<1>3. IsFiniteSet(rows) /\ Cardinality(rows) = last - first + 1
  <2> HIDE DEF F, rows
  <2>1. ExistsBijection(first .. last, rows)
    BY <1>2 DEF ExistsBijection
  <2> QED BY <1>1, <2>1, FS_Bijection
<1>4. Cardinality(knew) \in Nat
  <2> DEFINE some == {q \in rows : table[q.uid] = NoRow}
             G == [r \in some |-> r.uid]
  <2>1. IsFiniteSet(some)
    BY <1>3, FS_Subset
  <2>2. G \in Surjection(some, knew)
    BY DEF Surjection
  <2> HIDE DEF some, G, knew
  <2>3. IsFiniteSet(knew)
    BY <2>1, <2>2, FS_Surjection
  <2> QED BY <2>3, FS_CardinalityType
<1> DEFINE k == Cardinality(knew)
           m == Cardinality(rows)
<1>5. Tallied(rows) = [result EXCEPT !.inserted = @ + k, !.updated = @ + m - k]
  BY DEF Tallied
<1>6. k \in Nat /\ m \in Nat /\ m = last - first + 1
  BY <1>1, <1>3, <1>4
<1> HIDE DEF k, m, knew, rows
<1>7. PICK old \in [inserted : Int, updated : Int, failed : Int] : old = result
  BY DEF FeedShapes
<1>8. PICK t : t = Tallied(rows)
  OBVIOUS
<1>9. /\ t = [old EXCEPT !.inserted = old.inserted + k, !.updated = old.updated + m - k]
      /\ old.inserted \in Int /\ old.updated \in Int
  BY <1>5, <1>7, <1>8
<1>10. /\ t \in [inserted : Int, updated : Int, failed : Int] /\ t.failed = old.failed
       /\ t.inserted = old.inserted + k /\ t.updated = old.updated + m - k
  <2>1. PICK a \in Int, b \in Int : a = old.inserted + k /\ b = old.updated + m - k
    BY <1>6, <1>9
  <2>2. t = [old EXCEPT !.inserted = a, !.updated = b]
    BY <1>9, <2>1
  <2> QED BY <1>7, <2>1, <2>2
<1>11. t.inserted + t.updated = old.inserted + old.updated + m
  BY <1>6, <1>9, <1>10
<1> QED BY <1>6, <1>7, <1>8, <1>10, <1>11 DEF rows

-----------------------------------------------------------------------------
\* A batch is upserted, of many records or of one: it is as if its records had
\* been upserted one by one.
LEMMA UpsertFeedInd ==
  ASSUME FeedIndInv, loading = "running", NEW last, BatchOf(next, last), next' = last + 1,
         table' = Upserted(RowsOf(next, last)), result' = Tallied(RowsOf(next, last)),
         retryTo' \in 0 .. Total, retryTo' # 0 => next' <= retryTo',
         UNCHANGED <<extract, batchSize, loading, runs, before, unlucky>>
  PROVE  FeedIndInv'
<1>1. Parsed' = Parsed /\ Total' = Total /\ FeedShapes /\ Total \in Nat
  BY ParsedStays, ParsedTypes DEF FeedIndInv, FeedShapes
<1>2. next \in Nat /\ last \in Nat /\ next <= last /\ last <= Total /\ next >= 1
  BY <1>1 DEF BatchOf
<1>3. /\ table' \in [Uids -> RawRecords \cup {Old, NoRow}]
      /\ \A i \in next .. last : table'[Parsed[i].uid] = Parsed[i]
      /\ \A u \in Uids : (\A i \in next .. last : Parsed[i].uid # u) => table'[u] = table[u]
  BY <1>1, UpsertedIs
<1>4. /\ result' \in [inserted : Int, updated : Int, failed : Int]
      /\ result'.failed = result.failed
      /\ result'.inserted + result'.updated = result.inserted + result.updated + (last - next + 1)
  BY <1>1, TalliedIs
<1>5. unlucky' \subseteq 1 .. next' - 1
  BY <1>1, <1>2 DEF FeedShapes
<1>6. FeedShapes'
  BY <1>1, <1>2, <1>3, <1>4, <1>5 DEF FeedShapes
<1>7. next' - 1 = last
  BY <1>2
<1>8. TableShows(next - 1)
  BY DEF FeedIndInv
<1>9. ASSUME NEW u \in Uids
      PROVE  /\ \A i \in 1 .. last :
                  LastFor(i, u, last) /\ (\A j \in unlucky : Parsed[j].uid # u)
                    => table'[u] = Parsed[i]
             /\ (runs = 1 /\ \A i \in 1 .. last : ~Stored(i, u)) => table'[u] = before[u]
             /\ (\A i \in 1 .. Total : ~Stored(i, u)) => table'[u] = before[u]
  <2>1. CASE \E i \in next .. last : Parsed[i].uid = u
    <3>1. PICK b \in next .. last : Parsed[b].uid = u
      BY <2>1
    <3>2. Stored(b, u) /\ table'[u] = Parsed[b] /\ b \in 1 .. last /\ b \in 1 .. Total
      <4>1. Stored(b, u)
        BY <3>1 DEF Stored, BatchOf
      <4>2. table'[u] = Parsed[b]
        BY <1>3, <3>1
      <4>3. b \in 1 .. last /\ b \in 1 .. Total
        BY <1>1, <1>2
      <4> QED BY <4>1, <4>2, <4>3
    <3>3. ASSUME NEW i \in 1 .. last, LastFor(i, u, last) PROVE i = b
      <4>1. b <= i /\ i \in next .. last
        BY <1>2, <3>1, <3>2, <3>3 DEF LastFor
      <4> QED BY <3>1, <3>3, <4>1 DEF LastFor, Stored, BatchOf
    <3> QED BY <3>2, <3>3
  <2>2. CASE \A i \in next .. last : Parsed[i].uid # u
    <3>1. \A i \in 1 .. last : Stored(i, u) => i \in 1 .. next - 1
      BY <1>2, <2>2 DEF Stored
    <3>2. 1 .. next - 1 \subseteq 1 .. last
      BY <1>2
    <3>3. \A i \in 1 .. last : LastFor(i, u, last) => i \in 1 .. next - 1 /\ LastFor(i, u, next - 1)
      BY <3>1, <3>2 DEF LastFor
    <3>4. table'[u] = table[u]
      BY <1>3, <2>2
    <3> QED BY <1>8, <3>2, <3>3, <3>4 DEF TableShows
  <2> QED BY <2>1, <2>2
<1>10. TableShows(next - 1)'
  <2>1. \A i, u : (LastFor(i, u, last)' <=> LastFor(i, u, last)) /\ (Stored(i, u)' <=> Stored(i, u))
    BY <1>1 DEF LastFor, Stored
  <2>2. \A i, u : LastFor(i, u, next - 1)' <=> LastFor(i, u, last)
    BY <1>1, <1>7 DEF LastFor, Stored
  <2> QED BY <1>1, <1>7, <1>9, <2>1, <2>2 DEF TableShows
<1>11. Lost(next - 1)' = Lost(next - 1)
  <2>1. \A i \in 1 .. last : ~Parsed[i].storable => i \in 1 .. next - 1
    BY <1>2 DEF BatchOf
  <2> QED BY <1>1, <1>2, <1>7, <2>1 DEF Lost
<1>12. FeedTally'
  <2>1. result.failed \in Int /\ result.inserted \in Int /\ result.updated \in Int
    BY <1>1 DEF FeedShapes
  <2>2. result'.failed \in Int /\ result'.inserted \in Int /\ result'.updated \in Int
    BY <1>4
  <2> QED BY <1>2, <1>4, <1>7, <1>11, <2>1, <2>2 DEF FeedIndInv, FeedTally
<1>13. FeedEnd'
  BY DEF FeedEnd
<1> QED BY <1>6, <1>10, <1>12, <1>13 DEF FeedIndInv


-----------------------------------------------------------------------------
\* The end of a batch that is not empty.
LEMMA BatchEndIs ==
  ASSUME FeedShapes, next <= Total
  PROVE  BatchEnd \in next .. Total /\ BatchEnd \in Nat /\ BatchEnd # 0 /\ next \in 1 .. Total
<1>1. Total \in Nat /\ next \in Nat /\ next >= 1 /\ batchSize \in Nat /\ batchSize >= 1
  BY ParsedTypes DEF FeedShapes
<1> QED BY <1>1 DEF BatchEnd

\* A statement that raises leaves the table and the tally alone, and the batch
\* is to be repeated row by row.
LEMMA StatementRaises ==
  ASSUME FeedIndInv, loading = "running", next <= Total, retryTo' = BatchEnd,
         UNCHANGED <<next, table, result, extract, batchSize, loading, runs, before, unlucky>>
  PROVE  FeedIndInv'
<1>1. Parsed' = Parsed /\ Total' = Total /\ FeedShapes /\ Total \in Nat
  BY ParsedStays, ParsedTypes DEF FeedIndInv, FeedShapes
<1>2. BatchEnd \in next .. Total /\ BatchEnd \in Nat
  BY <1>1, BatchEndIs
<1>3. FeedShapes'
  BY <1>1, <1>2 DEF FeedShapes
<1>4. TableShows(next - 1)'
  BY <1>1 DEF FeedIndInv, TableShows, LastFor, Stored
<1>5. FeedTally'
  BY <1>1 DEF FeedIndInv, FeedTally, Lost
<1> QED BY <1>3, <1>4, <1>5 DEF FeedIndInv, FeedEnd

LEMMA LoadBatchFeedInd == ASSUME FeedIndInv, LoadBatch PROVE FeedIndInv'
<1>1. /\ Parsed' = Parsed /\ Total' = Total /\ FeedShapes /\ Total \in Nat
      /\ extract \in Seq(RawRecords)
  BY ParsedStays, ParsedTypes DEF FeedIndInv, FeedShapes, LoadBatch
<1>2. /\ BatchEnd \in next .. Total /\ BatchEnd \in Nat /\ BatchEnd # 0 /\ next \in 1 .. Total
      /\ loading = "running"
  BY <1>1, BatchEndIs DEF LoadBatch
<1>3. CASE Repeats(next, BatchEnd) \/ \E r \in RowsOf(next, BatchEnd) : ~Accepted(r)
  <2>1. /\ retryTo' = BatchEnd
        /\ UNCHANGED <<next, table, result, extract, batchSize, loading, runs, faults, before,
                       unlucky>>
    BY <1>3 DEF LoadBatch
  <2> QED BY <1>1, <1>2, <2>1, StatementRaises
<1>4. CASE ~(Repeats(next, BatchEnd) \/ \E r \in RowsOf(next, BatchEnd) : ~Accepted(r))
  <2>1. /\ table' = Upserted(RowsOf(next, BatchEnd)) /\ result' = Tallied(RowsOf(next, BatchEnd))
        /\ next' = BatchEnd + 1 /\ retryTo' = 0
        /\ UNCHANGED <<extract, batchSize, loading, runs, before, unlucky>>
    BY <1>4 DEF LoadBatch
  <2>2. \A i \in next .. BatchEnd : i \in 1 .. Total /\ Parsed[i] \in RowsOf(next, BatchEnd)
    BY <1>1, <1>2 DEF RowsOf
  <2>3. BatchOf(next, BatchEnd)
    BY <1>1, <1>2, <1>4, <2>2, ParsedTypes DEF BatchOf, Repeats
  <2>4. 0 \in 0 .. Total
    BY <1>1
  <2> QED BY <1>2, <2>1, <2>3, <2>4, UpsertFeedInd
<1> QED BY <1>3, <1>4

LEMMA BatchFailsFeedInd == ASSUME FeedIndInv, BatchFails PROVE FeedIndInv'
<1>1. FeedShapes /\ next <= Total /\ loading = "running" /\ retryTo' = BatchEnd
  BY DEF FeedIndInv, BatchFails
<1>2. UNCHANGED <<next, table, result, extract, batchSize, loading, runs, before, unlucky>>
  BY DEF BatchFails
<1> QED BY <1>1, <1>2, StatementRaises

\* A row that its own statement does not get in: the record is lost and counted.
LEMMA LosesFeedInd ==
  ASSUME FeedIndInv, loading = "running", retryTo # 0, next' = next + 1,
         retryTo' = IF next = retryTo THEN 0 ELSE retryTo,
         result' = [result EXCEPT !.failed = @ + 1],
         \/ unlucky' = unlucky /\ ~Parsed[next].storable
         \/ unlucky' = unlucky \cup {next},
         UNCHANGED <<extract, batchSize, table, loading, runs, before>>
  PROVE  FeedIndInv'
<1>1. Parsed' = Parsed /\ Total' = Total /\ FeedShapes /\ Total \in Nat
  BY ParsedStays, ParsedTypes DEF FeedIndInv, FeedShapes
<1>2. next \in Nat /\ next >= 1 /\ next <= retryTo /\ retryTo \in Nat /\ retryTo <= Total
  BY <1>1 DEF FeedShapes
<1>3. next' - 1 = next /\ next' \in 1 .. Total + 1 /\ next \in 1 .. Total
  BY <1>1, <1>2
<1>4. retryTo' \in 0 .. Total /\ (retryTo' # 0 => next' <= retryTo')
  BY <1>1, <1>2
<1>5. PICK old \in [inserted : Int, updated : Int, failed : Int] : old = result
  BY <1>1 DEF FeedShapes
<1>6. /\ result' \in [inserted : Int, updated : Int, failed : Int]
      /\ result'.failed = old.failed + 1 /\ result'.inserted = old.inserted
      /\ result'.updated = old.updated
  <2>1. result' = [old EXCEPT !.failed = old.failed + 1]
    BY <1>5
  <2> QED BY <1>5, <2>1
<1>7. unlucky' \subseteq 1 .. next /\ unlucky \subseteq unlucky' /\ unlucky \subseteq 1 .. next - 1
  <2>1. 1 .. next - 1 \subseteq 1 .. next /\ next \in 1 .. next
    BY <1>2
  <2>2. unlucky \subseteq 1 .. next - 1
    BY <1>1 DEF FeedShapes
  <2> QED BY <2>1, <2>2
<1>8. FeedShapes'
  BY <1>1, <1>3, <1>4, <1>6, <1>7 DEF FeedShapes
<1>9. ASSUME NEW u \in Uids
      PROVE  /\ \A i \in 1 .. next :
                  LastFor(i, u, next) /\ (\A j \in unlucky' : Parsed[j].uid # u)
                    => table[u] = Parsed[i]
             /\ (runs = 1 /\ \A i \in 1 .. next : ~Stored(i, u)) => table[u] = before[u]
             /\ (\A i \in 1 .. Total : ~Stored(i, u)) => table[u] = before[u]
  <2>1. TableShows(next - 1) /\ 1 .. next - 1 \subseteq 1 .. next
    BY <1>2 DEF FeedIndInv
  <2>2. ASSUME NEW i \in 1 .. next, LastFor(i, u, next), \A j \in unlucky' : Parsed[j].uid # u
        PROVE  table[u] = Parsed[i]
    <3>1. Stored(i, u) /\ i # next
      BY <2>2 DEF LastFor, Stored
    <3>2. i \in 1 .. next - 1
      BY <1>2, <3>1
    <3>3. LastFor(i, u, next - 1)
      BY <2>1, <2>2, <3>2 DEF LastFor
    <3> QED BY <1>7, <2>1, <2>2, <3>2, <3>3 DEF TableShows
  <2> QED BY <2>1, <2>2 DEF TableShows
<1>10. TableShows(next - 1)'
  <2>1. \A i, u : (LastFor(i, u, next - 1)' <=> LastFor(i, u, next)) /\ (Stored(i, u)' <=> Stored(i, u))
    BY <1>1, <1>3 DEF LastFor, Stored
  <2> QED BY <1>1, <1>3, <1>9, <2>1 DEF TableShows
<1>11. Lost(next - 1)' = Lost(next - 1) \cup {next} /\ next \notin Lost(next - 1)
  <2>1. /\ \A i : i \in 1 .. next <=> i \in 1 .. next - 1 \/ i = next
        /\ next \notin 1 .. next - 1
    BY <1>2
  <2>2. Lost(next - 1)' = {i \in 1 .. next : ~Parsed[i].storable} \cup unlucky'
    BY <1>1, <1>3 DEF Lost
  <2>3. {i \in 1 .. next : ~Parsed[i].storable} \cup unlucky'
          = {i \in 1 .. next - 1 : ~Parsed[i].storable} \cup unlucky \cup {next}
    BY <2>1
  <2> QED BY <1>7, <2>1, <2>2, <2>3 DEF Lost
<1>12. Cardinality(Lost(next - 1)') = Cardinality(Lost(next - 1)) + 1
  <2>1. IsFiniteSet(Lost(next - 1)) /\ Cardinality(Lost(next - 1)) \in Nat
    BY <1>1, LostTypes
  <2>2. PICK S, T : S = Lost(next - 1) /\ T = Lost(next - 1)'
    OBVIOUS
  <2>3. Cardinality(T) = Cardinality(S) + 1
    BY <1>11, <2>1, <2>2, FS_AddElement
  <2> QED BY <2>2, <2>3
<1>13. FeedTally'
  <2>1. /\ old.failed = Cardinality(Lost(next - 1))
        /\ old.inserted + old.updated + old.failed = next - 1
    BY <1>5 DEF FeedIndInv, FeedTally
  <2>2. old.failed \in Int /\ old.inserted \in Int /\ old.updated \in Int
    BY <1>5
  <2>3. result'.failed = Cardinality(Lost(next - 1)')
    BY <1>6, <1>12, <2>1
  <2>4. result'.inserted + result'.updated + result'.failed = next' - 1
    BY <1>2, <1>3, <1>6, <2>1, <2>2
  <2> QED BY <2>3, <2>4 DEF FeedTally
<1>14. FeedEnd'
  BY DEF FeedEnd
<1> QED BY <1>8, <1>10, <1>13, <1>14 DEF FeedIndInv

LEMMA LoadRowFeedInd == ASSUME FeedIndInv, LoadRow PROVE FeedIndInv'
<1>1. /\ FeedShapes /\ Total \in Nat /\ loading = "running" /\ retryTo # 0
      /\ next' = next + 1 /\ retryTo' = IF next = retryTo THEN 0 ELSE retryTo
      /\ UNCHANGED <<extract, batchSize, loading, runs, before, unlucky>>
  BY ParsedTypes DEF FeedIndInv, FeedShapes, LoadRow
<1>2. next \in Nat /\ next >= 1 /\ next <= retryTo /\ retryTo \in Nat /\ retryTo <= Total
  BY <1>1 DEF FeedShapes
<1>3. next \in 1 .. Total /\ Accepted(Parsed[next]) <=> Parsed[next].storable
  BY <1>1, <1>2, ParsedTypes DEF FeedShapes
<1>4. CASE Accepted(Parsed[next])
  <2>1. RowsOf(next, next) = {Parsed[next]}
    <3>1. next .. next = {next}
      BY <1>2
    <3> QED BY <3>1 DEF RowsOf
  <2>2. table' = Upserted(RowsOf(next, next)) /\ result' = Tallied(RowsOf(next, next))
    BY <1>4, <2>1 DEF LoadRow
  <2>3. BatchOf(next, next)
    <3>1. next .. next = {next} /\ next \in 1 .. Total /\ next \in next .. Total
      BY <1>1, <1>2
    <3> QED BY <1>3, <1>4, <3>1 DEF BatchOf
  <2>4. retryTo' \in 0 .. Total /\ (retryTo' # 0 => next' <= retryTo')
    BY <1>1, <1>2
  <2> QED BY <1>1, <2>2, <2>3, <2>4, UpsertFeedInd
<1>5. CASE ~Accepted(Parsed[next])
  <2>1. result' = [result EXCEPT !.failed = @ + 1] /\ UNCHANGED table
    BY <1>5 DEF LoadRow
  <2> QED BY <1>1, <1>3, <1>5, <2>1, LosesFeedInd
<1> QED BY <1>4, <1>5

LEMMA RowFailsFeedInd == ASSUME FeedIndInv, RowFails PROVE FeedIndInv'
<1>1. /\ loading = "running" /\ retryTo # 0 /\ next' = next + 1
      /\ retryTo' = IF next = retryTo THEN 0 ELSE retryTo
      /\ result' = [result EXCEPT !.failed = @ + 1] /\ unlucky' = unlucky \cup {next}
      /\ UNCHANGED <<extract, batchSize, table, loading, runs, before>>
  BY DEF RowFails
<1> QED BY <1>1, LosesFeedInd

-----------------------------------------------------------------------------
LEMMA EndLoadFeedInd == ASSUME FeedIndInv, EndLoad PROVE FeedIndInv'
<1>1. /\ Parsed' = Parsed /\ Total' = Total /\ FeedShapes /\ Total \in Nat /\ next \in 1 .. Total + 1
  BY ParsedStays, ParsedTypes DEF FeedIndInv, FeedShapes, EndLoad
<1>2. /\ retryTo' = 0 /\ next' = next /\ next > Total
      /\ loading' = IF result.inserted + result.updated = 0 THEN "failed" ELSE "done"
      /\ UNCHANGED <<extract, batchSize, retryTo, table, result, runs, before, unlucky>>
  BY DEF EndLoad
<1>3. next' = Total + 1
  BY <1>1, <1>2
<1>4. FeedShapes'
  BY <1>1, <1>2 DEF FeedShapes
<1>5. TableShows(next - 1)'
  BY <1>1, <1>2 DEF FeedIndInv, TableShows, LastFor, Stored
<1>6. FeedTally'
  BY <1>1, <1>2 DEF FeedIndInv, FeedTally, Lost
<1>7. FeedEnd'
  BY <1>1, <1>2, <1>3 DEF FeedEnd
<1> QED BY <1>4, <1>5, <1>6, <1>7 DEF FeedIndInv

\* A load that begins again finds what the one before has left: a notice without
\* a record that the table can take is still as it was.
LEMMA LoadAgainFeedInd == ASSUME FeedIndInv, LoadAgain PROVE FeedIndInv'
<1>1. Parsed' = Parsed /\ Total' = Total /\ FeedShapes /\ Total \in Nat
  BY ParsedStays, ParsedTypes DEF FeedIndInv, FeedShapes, LoadAgain
<1>2. /\ runs' = runs + 1 /\ runs < MaxRuns /\ loading' = "running" /\ next' = 1 /\ retryTo' = 0
      /\ result' = Nothing /\ unlucky' = {} /\ UNCHANGED <<extract, batchSize, table, before>>
  BY DEF LoadAgain
<1>3. runs' \in 1 .. MaxRuns /\ runs' # 1
  BY <1>1, <1>2, FeedAssumption DEF FeedShapes
<1>4. FeedShapes'
  BY <1>1, <1>2, <1>3 DEF FeedShapes, Nothing
<1>5. next' - 1 = 0 /\ 1 .. 0 = {}
  BY <1>2
<1>6. TableShows(next - 1)'
  <2>1. \A i, u : Stored(i, u)' <=> Stored(i, u)
    BY <1>1 DEF Stored
  <2>2. \A u \in Uids : (\A i \in 1 .. Total : ~Stored(i, u)) => table[u] = before[u]
    BY DEF FeedIndInv, TableShows
  <2> QED BY <1>1, <1>2, <1>3, <1>5, <2>1, <2>2 DEF TableShows
<1>7. FeedTally'
  <2>1. Lost(next - 1)' = {}
    BY <1>2, <1>5 DEF Lost
  <2>2. Cardinality(Lost(next - 1)') = 0
    BY <2>1, FS_EmptySet
  <2> QED BY <1>2, <1>5, <2>2 DEF FeedTally, Nothing
<1> QED BY <1>2, <1>4, <1>6, <1>7 DEF FeedIndInv, FeedEnd

LEMMA StutterFeedInd == ASSUME FeedIndInv, UNCHANGED feedVars PROVE FeedIndInv'
<1>1. /\ Parsed' = Parsed /\ Total' = Total
      /\ UNCHANGED <<next, retryTo, table, result, extract, batchSize, loading, runs, before, unlucky>>
  BY ParsedStays DEF feedVars
<1>2. FeedShapes'
  BY <1>1 DEF FeedIndInv, FeedShapes
<1>3. TableShows(next - 1)'
  BY <1>1 DEF FeedIndInv, TableShows, LastFor, Stored
<1> QED BY <1>1, <1>2, <1>3 DEF FeedIndInv, FeedTally, Lost, FeedEnd

-----------------------------------------------------------------------------
\* The greatest of the good records is the last one for its notice.
LEMMA TableIsSequential ==
  ASSUME FeedShapes, NEW n \in 0 .. Total, TableShows(n), runs = 1 \/ n = Total
  PROVE  Shows(n)
<1> SUFFICES ASSUME NEW u \in Uids, \A i \in unlucky : Parsed[i].uid # u
             PROVE  table[u] = Sequentially(n)[u]
  BY DEF Shows
<1> DEFINE good == {i \in 1 .. n : Parsed[i].uid = u /\ Accepted(Parsed[i])}
           top == CHOOSE i \in good : \A j \in good : j <= i
<1>1. Sequentially(n)[u] = IF good = {} THEN before[u] ELSE Parsed[top]
  BY DEF Sequentially
<1>2. n \in Nat /\ 1 .. n \subseteq 1 .. Total /\ extract \in Seq(RawRecords)
  BY ParsedTypes DEF FeedShapes
<1>3. \A i \in 1 .. n : i \in good <=> Stored(i, u)
  BY <1>2, ParsedTypes DEF Stored
<1>4. CASE good = {}
  BY <1>1, <1>3, <1>4 DEF TableShows
<1>5. CASE good # {}
  <2>1. good \subseteq 1 .. n
    OBVIOUS
  <2> HIDE DEF good
  <2>2. \E m \in good : \A j \in good : j <= m
    BY <1>2, <1>5, <2>1, GreatestOf
  <2>3. top \in good /\ \A j \in good : j <= top
    BY <2>2
  <2> HIDE DEF top
  <2>4. top \in 1 .. n /\ LastFor(top, u, n)
    BY <1>3, <2>1, <2>3 DEF LastFor
  <2> QED BY <1>1, <1>5, <2>4 DEF TableShows
<1> QED BY <1>4, <1>5

LEMMA FeedIndInvImplies == FeedIndInv => LoadIsSequential
<1> SUFFICES ASSUME FeedIndInv PROVE LoadIsSequential
  OBVIOUS
<1>1. /\ FeedShapes /\ Total \in Nat /\ DOMAIN Parsed = 1 .. Total /\ TableShows(next - 1)
      /\ next - 1 \in 0 .. Total
      /\ \A i \in 1 .. Total : Accepted(Parsed[i]) <=> Parsed[i].storable
  BY ParsedTypes DEF FeedIndInv, FeedShapes
<1>2. FeedTypeOK
  BY <1>1 DEF FeedTypeOK, FeedShapes
<1>3. runs = 1 => Shows(next - 1)
  BY <1>1, TableIsSequential
<1>4. ASSUME loading # "running", NEW lost, lost = {i \in DOMAIN Parsed : ~Parsed[i].storable} \cup unlucky
      PROVE  /\ Shows(Total)
             /\ result.failed = Cardinality(lost)
             /\ result.inserted + result.updated + result.failed = Total
             /\ loading = "failed" <=> lost = DOMAIN Parsed
  <2>1. next - 1 = Total /\ (loading = "failed" <=> result.inserted + result.updated = 0)
    BY <1>1, <1>4 DEF FeedIndInv, FeedEnd
  <2>2. Shows(Total)
    <3>1. TableShows(Total) /\ Total \in 0 .. Total
      BY <1>1, <2>1
    <3> QED BY <1>1, <3>1, TableIsSequential
  <2>3. lost = Lost(next - 1)
    BY <1>1, <1>4, <2>1 DEF Lost
  <2>4. /\ result.failed = Cardinality(lost)
        /\ result.inserted + result.updated + result.failed = Total
    BY <2>1, <2>3 DEF FeedIndInv, FeedTally
  <2>5. result.inserted \in Int /\ result.updated \in Int /\ result.failed \in Int
    BY <1>1 DEF FeedShapes
  <2>6. Cardinality(lost) = Total <=> lost = 1 .. Total
    <3>1. lost \in SUBSET (1 .. Total) /\ IsFiniteSet(1 .. Total) /\ Cardinality(1 .. Total) = Total
      BY <1>1, <2>1, <2>3, LostTypes
    <3> QED BY <3>1, FS_Subset
  <2>7. result.inserted + result.updated = 0 <=> Cardinality(lost) = Total
    BY <1>1, <2>4, <2>5
  <2> QED BY <1>1, <2>1, <2>2, <2>4, <2>6, <2>7
<1> QED BY <1>1, <1>2, <1>3, <1>4 DEF LoadIsSequential

LEMMA NextFeedInd == FeedIndInv /\ [FeedNext]_feedVars => FeedIndInv'
BY LoadBatchFeedInd, BatchFailsFeedInd, LoadRowFeedInd, RowFailsFeedInd, EndLoadFeedInd,
   LoadAgainFeedInd, StutterFeedInd DEF FeedNext

\* "One malformed record should cost that record, not the 999 loaded beside it"
\* (loader.py:159-163) for any extract, batch size, number of runs that died and
\* of faults: by then the table shows, of the records gone through, the last one
\* it can take of each notice that no fault has hit.  The constraints see no
\* dates and no amounts that _build should have dropped (grants_gov.py:140-152).
THEOREM LoadsAreSequential == FeedSpec => []LoadIsSequential
<1>1. FeedSpec => []FeedIndInv
  BY InitFeedInd, NextFeedInd, PTL DEF FeedSpec
<1> QED BY <1>1, FeedIndInvImplies, PTL
=================================================================================
