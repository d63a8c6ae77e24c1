----------------------------- MODULE AccountsProofs -----------------------------
(***************************************************************************)
(* Proofs about the codes that are mailed to an address (EmailCodes), the  *)
(* accounts of that address (Accounts), and the settings and prompts that  *)
(* the platform owner edits (RuntimeConfig, PromptRegistry).  Each has an  *)
(* inductive invariant in named parts:                                     *)
(*                                                                         *)
(* CodesIndInv: a request that is between its check and its count is       *)
(* counted already, so the limits stretch by one per overlapping request.  *)
(*                                                                         *)
(* AccountsIndInv: whoever is not the owner and gets past a claim of the   *)
(* address has a sign-up under way since before it, or logs in between a   *)
(* reset's proof of the address and its revocation; a request that has yet *)
(* to give its user a workspace is alone with that user, or it is noted.   *)
(*                                                                         *)
(* PromptIndInv, ConfigIndInv: an activation that was begun is counted; a  *)
(* value is as old as the cell, the refresh or the snapshot that holds it  *)
(* allows, and behind an edit that was handled no refresh restores what    *)
(* was there before.                                                       *)
(***************************************************************************)
EXTENDS EmailCodes, Accounts, RuntimeConfig, FiniteSetTheorems, WellFoundedInduction, TLAPS

-----------------------------------------------------------------------------
\* How the size of a set follows what one request adds to it or takes from it.
LEMMA PartIsSmaller ==
  ASSUME NEW S, NEW T, IsFiniteSet(S), T \subseteq S
  PROVE  /\ Cardinality(T) <= Cardinality(S) /\ Cardinality(T) \in Nat /\ Cardinality(S) \in Nat
         /\ IsFiniteSet(T)
  BY FS_Subset, FS_CardinalityType

LEMMA OneFewer ==
  ASSUME NEW S, NEW T, NEW c \in S, IsFiniteSet(S), T \subseteq S \ {c}
  PROVE  /\ Cardinality(T) + 1 <= Cardinality(S)
         /\ Cardinality(T) \in Nat /\ Cardinality(S) \in Nat
  <1>1. IsFiniteSet(S \ {c}) /\ Cardinality(S \ {c}) = Cardinality(S) - 1
    BY FS_RemoveElement
  <1>2. Cardinality(T) <= Cardinality(S \ {c}) /\ Cardinality(T) \in Nat
    BY <1>1, FS_Subset, FS_CardinalityType
  <1> QED
    BY <1>1, <1>2, FS_CardinalityType

LEMMA OneMoreAtMost ==
  ASSUME NEW S, NEW T, NEW c, IsFiniteSet(S), T \subseteq S \cup {c}
  PROVE  /\ Cardinality(T) <= Cardinality(S) + 1
         /\ Cardinality(T) \in Nat /\ Cardinality(S) \in Nat
  <1>1. /\ IsFiniteSet(S \cup {c}) /\ Cardinality(S) \in Nat
        /\ Cardinality(S \cup {c}) = Cardinality(S) \/ Cardinality(S \cup {c}) = Cardinality(S) + 1
    BY FS_AddElement, FS_CardinalityType
  <1>2. Cardinality(T) <= Cardinality(S \cup {c}) /\ Cardinality(T) \in Nat
    BY <1>1, FS_Subset, FS_CardinalityType
  <1> QED
    BY <1>1, <1>2

-----------------------------------------------------------------------------
\* The requests that are about to count an attempt at a row, to compare with
\* it, to send a code, and to count an attempt at whatever row they find.
Trying(k) == {c \in Clients : doing[c] = "attempt" /\ row[c] = k}
Comparing(k) == {c \in Clients : doing[c] = "compare" /\ row[c] = k}
Sending == {c \in Clients : doing[c] \in {"supersede", "insert"}}
Checking == {c \in Clients : doing[c] \in {"read", "attempt"}}

RowsAreTold ==
  /\ expired \subseteq Rows
  /\ \A c \in Clients : doing[c] \in {"mail", "attempt", "compare", "consume"} => row[c] \in Rows

Budgets ==
  /\ \A k \in Codes :
       /\ compared[k] + Cardinality(Comparing(k)) <= attempts[k]
       /\ attempts[k] + Cardinality(Trying(k)) <= MaxAttempts + Cardinality(Clients) - 1
       /\ attempts[k] + Cardinality(Checking) + begun <= GuessMax
  /\ Cardinality(Recent) + Cardinality(Sending) <= MaxSends + Cardinality(Clients) - 1

Spent ==
  /\ \A k \in accepted : state[k] = "consumed"
  /\ verified \/ (\E c \in Clients : doing[c] = "verify") => accepted # {}

\* The inductive invariant of EmailCodes: behind the bounds of CodeInv, every
\* request that is between its check and its count is counted already.
CodesIndInv ==
  /\ CodesTypeOK /\ RowsAreTold /\ Budgets /\ Spent /\ OnlyOverlappingCodesLive

LEMMA CodeInvFollows == CodesIndInv => CodeInv
  <1> SUFFICES ASSUME CodesIndInv PROVE CodeInv
    OBVIOUS
  <1>1. /\ Cardinality(Sending) \in Nat /\ Cardinality(Clients) \in Nat
        /\ \A k \in Codes : Cardinality(Trying(k)) \in Nat /\ Cardinality(Comparing(k)) \in Nat
    BY PartIsSmaller, EmailCodeAssumption DEF Sending, Trying, Comparing
  <1>2. Cardinality(Recent) \in Nat
    BY PartIsSmaller, EmailCodeAssumption DEF Recent, Rows
  <1>3. GuessesAreCounted
    <2> SUFFICES ASSUME NEW k \in Codes
                 PROVE  /\ compared[k] <= attempts[k]
                        /\ attempts[k] <= MaxAttempts + Cardinality(Clients) - 1
      BY DEF GuessesAreCounted
    <2>1. compared[k] \in Nat /\ attempts[k] \in Nat
      BY EmailCodeAssumption DEF CodesIndInv, CodesTypeOK
    <2> QED
      BY <1>1, <2>1, EmailCodeAssumption DEF CodesIndInv, Budgets
  <1>4. SendsAreBounded
    BY <1>1, <1>2, EmailCodeAssumption DEF CodesIndInv, Budgets, SendsAreBounded
  <1>5. AcceptedIsSpent
    BY DEF CodesIndInv, Spent, AcceptedIsSpent
  <1> QED
    BY <1>3, <1>4, <1>5 DEF CodesIndInv, CodeInv

LEMMA CodesInitially == CodesInit => CodesIndInv
  <1> SUFFICES ASSUME CodesInit PROVE CodesIndInv
    OBVIOUS
  <1>1. Rows = {} /\ Recent = {} /\ LiveCodes = {} /\ Issuing = {} /\ Sending = {} /\ Checking = {}
    BY DEF CodesInit, Rows, Recent, LiveCodes, Issuing, Sending, Checking
  <1>2. \A k \in Codes : Trying(k) = {} /\ Comparing(k) = {}
    BY DEF CodesInit, Trying, Comparing
  <1>3. Cardinality({}) = 0 /\ Cardinality(Clients) \in Nat /\ Cardinality(Codes) \in Nat
    BY FS_EmptySet, FS_CardinalityType, EmailCodeAssumption
  <1>4. CodesTypeOK
    <2>1. 0 \in 0 .. GuessMax /\ GuessMax \in 0 .. GuessMax /\ 0 \in 0 .. Cardinality(Codes)
      BY <1>3, EmailCodeAssumption
    <2> QED
      BY <2>1 DEF CodesInit, CodesTypeOK
  <1>5. RowsAreTold /\ Spent
    BY DEF CodesInit, RowsAreTold, Spent
  <1>6. Budgets
    <2>1. \A k \in Codes : compared[k] = 0 /\ attempts[k] = 0
      BY DEF CodesInit
    <2>2. begun = GuessMax
      BY DEF CodesInit
    <2>3. \A k \in Codes : Cardinality(Trying(k)) = 0 /\ Cardinality(Comparing(k)) = 0
      BY <1>2, <1>3
    <2>4. Cardinality(Recent) = 0 /\ Cardinality(Sending) = 0 /\ Cardinality(Checking) = 0
      BY <1>1, <1>3
    <2> QED
      BY <1>3, <2>1, <2>2, <2>3, <2>4, EmailCodeAssumption DEF Budgets
  <1>7. OnlyOverlappingCodesLive
    BY <1>1, <1>3 DEF OnlyOverlappingCodesLive
  <1> QED
    BY <1>4, <1>5, <1>6, <1>7 DEF CodesIndInv

\* get_live_email_verification orders the rows by created_at: when a code is
\* live, one of them is the latest.
LEMMA LatestIsLive ==
  ASSUME CodesTypeOK, LiveCodes # {}
  PROVE  Latest \in LiveCodes
  <1> DEFINE n == Cardinality(Codes)
             T == {n - rank[k] : k \in LiveCodes}
             R == OpToRel(<, Nat)
  <1>1. n \in Nat /\ \A k \in LiveCodes : rank[k] \in 0 .. n
    BY FS_CardinalityType, EmailCodeAssumption DEF CodesTypeOK, LiveCodes
  <1>2. T \subseteq Nat /\ T # {}
    BY <1>1
  <1>3. \E x \in T : \A y \in T : ~ (<<y, x>> \in R)
    <2> HIDE DEF T, R
    <2>1. IsWellFoundedOn(R, Nat)
      BY NatLessThanWellFounded DEF R
    <2> QED
      BY <2>1, <1>2, WFMin
  <1>4. PICK x \in T : \A y \in T : ~ (y < x)
    BY <1>2, <1>3 DEF OpToRel
  <1>5. PICK k \in LiveCodes : x = n - rank[k]
    BY <1>4
  <1>6. \A l \in LiveCodes : rank[l] <= rank[k]
    <2> SUFFICES ASSUME NEW l \in LiveCodes PROVE rank[l] <= rank[k]
      OBVIOUS
    <2>1. n - rank[l] \in T
      OBVIOUS
    <2>2. ~ (n - rank[l] < n - rank[k])
      BY <2>1, <1>4, <1>5
    <2> HIDE DEF n, T
    <2> QED
      BY <1>1, <2>2
  <1> QED
    BY <1>5, <1>6 DEF Latest

-----------------------------------------------------------------------------
\* What a request does leaves the others where they are: each of the counted
\* sets loses or gains that request at most.
Steps(c) ==
  \/ Issue(c)
  \/ Supersede(c)
  \/ \E k \in Codes : Insert(c, k)
  \/ Mail(c)
  \/ \E g \in Codes \cup {None} : Try(c, g)
  \/ Read(c)
  \/ Attempt(c)
  \/ Compare(c)
  \/ Consume(c)
  \/ Verify(c)
  \/ Die(c)

LEMMA CodesCases ==
  CodesNext <=> (\E c \in Clients : Steps(c)) \/ (\E k \in Codes : Expire(k) \/ Age(k))
  BY DEF CodesNext, Steps

LEMMA OthersStay ==
  ASSUME CodesTypeOK, NEW c \in Clients, Steps(c)
  PROVE  /\ doing' \in [Clients -> {"nothing", "supersede", "insert", "mail", "read", "attempt",
                                    "compare", "consume", "verify"}]
         /\ \A d \in Clients \ {c} : doing'[d] = doing[d] /\ row'[d] = row[d]
  BY DEF Steps, CodesTypeOK, Goes, Ends, Issue, Supersede, Insert, Mail, Try, Read, Attempt,
         Compare, Consume, Verify, Die, requestVars

LEMMA SetsMove ==
  ASSUME CodesTypeOK, NEW c \in Clients, Steps(c)
  PROVE  /\ \A k \in Codes :
              /\ Trying(k)' \subseteq Trying(k) \cup {c}
              /\ ~(doing'[c] = "attempt" /\ row'[c] = k) => Trying(k)' \subseteq Trying(k) \ {c}
              /\ Comparing(k)' \subseteq Comparing(k) \cup {c}
              /\ ~(doing'[c] = "compare" /\ row'[c] = k) => Comparing(k)' \subseteq Comparing(k) \ {c}
         /\ Sending' \subseteq Sending \cup {c}
         /\ doing'[c] \notin {"supersede", "insert"} => Sending' \subseteq Sending \ {c}
         /\ Checking' \subseteq Checking \cup {c}
         /\ doing'[c] \notin {"read", "attempt"} => Checking' \subseteq Checking \ {c}
         /\ Issuing' \subseteq Issuing \cup {c}
         /\ doing'[c] # "insert" => Issuing' \subseteq Issuing \ {c}
  BY OthersStay DEF Trying, Comparing, Sending, Checking, Issuing

\* The sizes the bounds are about are sizes.
LEMMA SizesAreNumbers ==
  /\ \A k \in Codes :
       /\ IsFiniteSet(Trying(k)) /\ Cardinality(Trying(k)) \in Nat
       /\ IsFiniteSet(Comparing(k)) /\ Cardinality(Comparing(k)) \in Nat
       /\ IsFiniteSet(Trying(k)') /\ Cardinality(Trying(k)') \in Nat
       /\ IsFiniteSet(Comparing(k)') /\ Cardinality(Comparing(k)') \in Nat
       /\ Cardinality(Trying(k)') <= Cardinality(Clients)
       /\ Cardinality(Comparing(k)') <= Cardinality(Clients)
  /\ IsFiniteSet(Sending) /\ Cardinality(Sending) \in Nat
  /\ IsFiniteSet(Checking) /\ Cardinality(Checking) \in Nat
  /\ IsFiniteSet(Issuing) /\ Cardinality(Issuing) \in Nat
  /\ IsFiniteSet(Recent) /\ Cardinality(Recent) \in Nat
  /\ IsFiniteSet(LiveCodes) /\ Cardinality(LiveCodes) \in Nat
  /\ Cardinality(Sending') \in Nat /\ Cardinality(Checking') \in Nat
  /\ Cardinality(Issuing') \in Nat /\ Cardinality(Recent') \in Nat
  /\ Cardinality(LiveCodes') \in Nat
  /\ Cardinality(Sending') <= Cardinality(Clients) /\ Cardinality(Issuing') <= Cardinality(Clients)
  /\ Cardinality(Clients) \in Nat
  <1>1. \A k \in Codes : /\ Trying(k) \subseteq Clients /\ Comparing(k) \subseteq Clients
                         /\ Trying(k)' \subseteq Clients /\ Comparing(k)' \subseteq Clients
    BY DEF Trying, Comparing
  <1>2. /\ Sending \subseteq Clients /\ Checking \subseteq Clients /\ Issuing \subseteq Clients
        /\ Sending' \subseteq Clients /\ Checking' \subseteq Clients /\ Issuing' \subseteq Clients
    BY DEF Sending, Checking, Issuing
  <1>3. /\ Recent \subseteq Codes /\ Recent' \subseteq Codes
        /\ LiveCodes \subseteq Codes /\ LiveCodes' \subseteq Codes
    BY DEF Recent, Rows, LiveCodes
  <1>4. IsFiniteSet(Clients) /\ IsFiniteSet(Codes)
    BY EmailCodeAssumption
  <1>5. \A k \in Codes :
       /\ IsFiniteSet(Trying(k)) /\ Cardinality(Trying(k)) \in Nat
       /\ IsFiniteSet(Comparing(k)) /\ Cardinality(Comparing(k)) \in Nat
       /\ IsFiniteSet(Trying(k)') /\ Cardinality(Trying(k)') \in Nat
       /\ IsFiniteSet(Comparing(k)') /\ Cardinality(Comparing(k)') \in Nat
       /\ Cardinality(Trying(k)') <= Cardinality(Clients)
       /\ Cardinality(Comparing(k)') <= Cardinality(Clients)
    BY <1>1, <1>4, PartIsSmaller
  <1>6. /\ IsFiniteSet(Sending) /\ Cardinality(Sending) \in Nat
        /\ IsFiniteSet(Checking) /\ Cardinality(Checking) \in Nat
        /\ IsFiniteSet(Issuing) /\ Cardinality(Issuing) \in Nat
        /\ Cardinality(Sending') \in Nat /\ Cardinality(Checking') \in Nat
        /\ Cardinality(Issuing') \in Nat
        /\ Cardinality(Sending') <= Cardinality(Clients)
        /\ Cardinality(Issuing') <= Cardinality(Clients)
        /\ Cardinality(Clients) \in Nat
    BY <1>2, <1>4, PartIsSmaller
  <1>7. /\ IsFiniteSet(Recent) /\ Cardinality(Recent) \in Nat
        /\ IsFiniteSet(LiveCodes) /\ Cardinality(LiveCodes) \in Nat
        /\ Cardinality(Recent') \in Nat /\ Cardinality(LiveCodes') \in Nat
    BY <1>3, <1>4, PartIsSmaller
  <1> QED
    BY <1>5, <1>6, <1>7

-----------------------------------------------------------------------------
LEMMA RowsTold ==
  ASSUME CodesIndInv, CodesNext
  PROVE  RowsAreTold' /\ Spent'
  <1> USE DEF CodesIndInv, CodesTypeOK, RowsAreTold, Spent, Rows
  <1>1. ASSUME NEW c \in Clients, Steps(c)
        PROVE  RowsAreTold' /\ Spent'
    <2>1. CASE Issue(c)
      BY <2>1 DEF Issue, Goes, rowVars
    <2>2. CASE Supersede(c)
      BY <2>2 DEF Supersede, Goes
    <2>3. CASE \E k \in Codes : Insert(c, k)
      BY <2>3 DEF Insert, Goes
    <2>4. CASE Mail(c)
      BY <2>4 DEF Mail, Goes, Ends, rowVars
    <2>5. CASE \E g \in Codes \cup {None} : Try(c, g)
      BY <2>5 DEF Try, Goes, rowVars
    <2>6. CASE Read(c)
      <3>1. LiveCodes # {} => Latest \in Codes /\ state[Latest] = "live"
        BY LatestIsLive DEF LiveCodes
      <3> QED
        BY <2>6, <3>1 DEF Read, Goes, Ends, rowVars
    <2>7. CASE Attempt(c)
      BY <2>7 DEF Attempt, Goes
    <2>8. CASE Compare(c)
      BY <2>8 DEF Compare, Goes, Ends, rowVars
    <2>9. CASE Consume(c)
      BY <2>9 DEF Consume, Goes
    <2>10. CASE Verify(c)
      BY <2>10 DEF Verify, Goes, Ends, rowVars
    <2>11. CASE Die(c)
      BY <2>11 DEF Die, Goes, Ends, rowVars
    <2> QED
      BY <1>1, <2>1, <2>2, <2>3, <2>4, <2>5, <2>6, <2>7, <2>8, <2>9, <2>10, <2>11 DEF Steps
  <1>2. ASSUME NEW k \in Codes, Expire(k) \/ Age(k)
        PROVE  RowsAreTold' /\ Spent'
    BY <1>2 DEF Expire, Age, requestVars
  <1> QED
    BY <1>1, <1>2, CodesCases

\* A code is live after a send, and only then: the send that superseded the
\* others counts as one of them until its own is inserted.
LEMMA LiveOverlap ==
  ASSUME CodesIndInv, CodesNext
  PROVE  OnlyOverlappingCodesLive'
  <1> USE DEF CodesIndInv, OnlyOverlappingCodesLive
  <1>1. CodesTypeOK /\ Cardinality(LiveCodes) + Cardinality(Issuing) <= Cardinality(Clients)
    OBVIOUS
  <1>2. ASSUME LiveCodes' \subseteq LiveCodes, Issuing' \subseteq Issuing
        PROVE  OnlyOverlappingCodesLive'
    <2>1. /\ Cardinality(LiveCodes') <= Cardinality(LiveCodes)
          /\ Cardinality(Issuing') <= Cardinality(Issuing)
      BY <1>2, SizesAreNumbers, PartIsSmaller
    <2> QED
      BY <1>1, <2>1, SizesAreNumbers
  <1>3. ASSUME NEW c \in Clients, Steps(c), ~ Supersede(c), ~ \E k \in Codes : Insert(c, k)
        PROVE  LiveCodes' \subseteq LiveCodes /\ doing'[c] # "insert"
    BY <1>3, <1>1 DEF Steps, CodesTypeOK, LiveCodes, Goes, Ends, Issue, Mail, Try, Read, Attempt,
                      Compare, Consume, Verify, Die, rowVars
  <1>4. ASSUME NEW c \in Clients, Supersede(c)
        PROVE  OnlyOverlappingCodesLive'
    <2>1. LiveCodes' = {}
      BY <1>4 DEF Supersede, LiveCodes, Rows
    <2> QED
      BY <2>1, FS_EmptySet, SizesAreNumbers
  <1>5. ASSUME NEW c \in Clients, NEW k \in Codes, Insert(c, k)
        PROVE  OnlyOverlappingCodesLive'
    <2>1. c \in Issuing /\ Issuing' \subseteq Issuing \ {c}
      BY <1>5, <1>1, SetsMove DEF Steps, Insert, Issuing, Goes, CodesTypeOK
    <2>2. LiveCodes' \subseteq LiveCodes \cup {k}
      BY <1>5, <1>1 DEF Insert, LiveCodes, CodesTypeOK
    <2>3. Cardinality(Issuing') + 1 <= Cardinality(Issuing)
      BY <2>1, OneFewer, SizesAreNumbers
    <2>4. Cardinality(LiveCodes') <= Cardinality(LiveCodes) + 1
      BY <2>2, OneMoreAtMost, SizesAreNumbers
    <2> QED
      BY <1>1, <2>3, <2>4, SizesAreNumbers
  <1>6. ASSUME NEW k \in Codes, Expire(k) \/ Age(k)
        PROVE  LiveCodes' \subseteq LiveCodes /\ Issuing' \subseteq Issuing
    BY <1>6 DEF Expire, Age, requestVars, LiveCodes, Issuing
  <1>7. ASSUME NEW c \in Clients, Steps(c), ~ Supersede(c), ~ \E k \in Codes : Insert(c, k)
        PROVE  OnlyOverlappingCodesLive'
    BY <1>1, <1>2, <1>3, <1>7, SetsMove
  <1> QED
    BY <1>2, <1>4, <1>5, <1>6, <1>7, CodesCases

-----------------------------------------------------------------------------
\* Of each row's budgets.
RowBudget(k) ==
  /\ compared[k] + Cardinality(Comparing(k)) <= attempts[k]
  /\ attempts[k] + Cardinality(Trying(k)) <= MaxAttempts + Cardinality(Clients) - 1
  /\ attempts[k] + Cardinality(Checking) + begun <= GuessMax

SendBudget == Cardinality(Recent) + Cardinality(Sending) <= MaxSends + Cardinality(Clients) - 1

\* An attempt is taken from the request that is about to make it, and given to
\* the comparison that it allows.
LEMMA RowBudgets ==
  ASSUME CodesIndInv, CodesNext, NEW k \in Codes
  PROVE  RowBudget(k)'
  <1>1. CodesTypeOK /\ RowBudget(k)
    BY DEF CodesIndInv, Budgets, RowBudget
  <1>2. /\ compared[k] \in Nat /\ attempts[k] \in Nat /\ begun \in Nat
        /\ MaxAttempts \in Nat /\ GuessMax \in Nat
    BY <1>1, EmailCodeAssumption DEF CodesTypeOK
  <1>3. ASSUME Trying(k)' \subseteq Trying(k), Comparing(k)' \subseteq Comparing(k),
               Checking' \subseteq Checking,
               compared'[k] = compared[k], attempts'[k] = attempts[k], begun' = begun
        PROVE  RowBudget(k)'
    <2>1. /\ Cardinality(Trying(k)') <= Cardinality(Trying(k))
          /\ Cardinality(Comparing(k)') <= Cardinality(Comparing(k))
          /\ Cardinality(Checking') <= Cardinality(Checking)
      BY <1>3, PartIsSmaller, SizesAreNumbers
    <2> QED
      BY <1>1, <1>2, <1>3, <2>1, SizesAreNumbers DEF RowBudget
  <1>4. ASSUME NEW c \in Clients, Steps(c)
        PROVE  RowBudget(k)'
    <2> USE DEF CodesTypeOK
    <2>1. CASE \/ Issue(c) \/ Supersede(c) \/ (\E l \in Codes : Insert(c, l)) \/ Mail(c)
               \/ Consume(c) \/ Verify(c) \/ Die(c)
      <3>1. /\ doing'[c] \notin {"read", "attempt", "compare"}
            /\ compared' = compared /\ attempts' = attempts /\ begun' = begun
        BY <2>1, <1>1 DEF Issue, Supersede, Insert, Mail, Consume, Verify, Die, Goes, Ends, rowVars
      <3> QED
        BY <1>1, <1>3, <1>4, <3>1, SetsMove
    <2>2. CASE \E g \in Codes \cup {None} : Try(c, g)
      <3>1. /\ doing'[c] = "read" /\ compared' = compared /\ attempts' = attempts
            /\ begun' + 1 = begun /\ begun' \in Nat
            /\ compared'[k] = compared[k] /\ attempts'[k] = attempts[k]
        BY <2>2, <1>1, <1>2 DEF Try, Goes, rowVars
      <3>2. /\ Trying(k)' \subseteq Trying(k) /\ Comparing(k)' \subseteq Comparing(k)
            /\ Checking' \subseteq Checking \cup {c}
        BY <1>1, <1>4, <3>1, SetsMove
      <3>3. /\ Cardinality(Trying(k)') <= Cardinality(Trying(k))
            /\ Cardinality(Comparing(k)') <= Cardinality(Comparing(k))
        BY <3>2, PartIsSmaller, SizesAreNumbers
      <3>4. Cardinality(Checking') <= Cardinality(Checking) + 1
        BY <3>2, OneMoreAtMost, SizesAreNumbers
      <3>5. attempts'[k] + Cardinality(Checking') + begun' <= GuessMax
        <4>1. /\ attempts[k] + Cardinality(Checking) + begun <= GuessMax
              /\ attempts'[k] = attempts[k] /\ begun = begun' + 1 /\ begun' \in Nat
          BY <1>1, <3>1 DEF RowBudget
        <4>2. /\ Cardinality(Checking') <= Cardinality(Checking) + 1
              /\ Cardinality(Checking') \in Nat /\ Cardinality(Checking) \in Nat
          BY <3>4, SizesAreNumbers
        <4> QED
          BY <4>1, <4>2, <1>2
      <3>6. /\ compared'[k] + Cardinality(Comparing(k)') <= attempts'[k]
            /\ attempts'[k] + Cardinality(Trying(k)') <= MaxAttempts + Cardinality(Clients) - 1
        BY <1>1, <1>2, <3>1, <3>3, SizesAreNumbers DEF RowBudget
      <3> QED
        BY <3>5, <3>6 DEF RowBudget
    <2>3. CASE Read(c)
      <3>1. /\ compared' = compared /\ attempts' = attempts /\ begun' = begun
            /\ c \in Checking
            /\ doing'[c] = "nothing" \/ doing'[c] = "attempt"
        BY <2>3, <1>1 DEF Read, Goes, Ends, rowVars, Checking
      <3>2. doing'[c] = "attempt" => row'[c] = Latest /\ attempts[Latest] < MaxAttempts
        BY <2>3, <1>1 DEF Read, Goes, Ends
      <3>3. Comparing(k)' \subseteq Comparing(k) /\ Checking' \subseteq Checking
        BY <1>1, <1>4, <3>1, SetsMove
      <3>4. /\ Cardinality(Comparing(k)') <= Cardinality(Comparing(k))
            /\ Cardinality(Checking') <= Cardinality(Checking)
        BY <3>3, PartIsSmaller, SizesAreNumbers
      <3>5. attempts[k] + Cardinality(Trying(k)') <= MaxAttempts + Cardinality(Clients) - 1
        <4>1. CASE doing'[c] = "attempt" /\ row'[c] = k
          <5>1. attempts[k] < MaxAttempts
            BY <4>1, <3>2
          <5> QED
            BY <1>2, <5>1, SizesAreNumbers
        <4>2. CASE ~ (doing'[c] = "attempt" /\ row'[c] = k)
          <5>1. Trying(k)' \subseteq Trying(k)
            BY <1>1, <1>4, <4>2, SetsMove
          <5>2. Cardinality(Trying(k)') <= Cardinality(Trying(k))
            BY <5>1, PartIsSmaller, SizesAreNumbers
          <5> QED
            BY <1>1, <1>2, <5>2, SizesAreNumbers DEF RowBudget
        <4> QED
          BY <4>1, <4>2
      <3> QED
        BY <1>1, <1>2, <3>1, <3>4, <3>5, SizesAreNumbers DEF RowBudget
    <2>4. CASE Attempt(c)
      <3>1. /\ compared' = compared /\ begun' = begun /\ doing'[c] = "compare"
            /\ row'[c] = row[c] /\ doing[c] = "attempt" /\ c \in Checking
        BY <2>4, <1>1 DEF Attempt, Goes, Checking
      <3>2. /\ row[c] = k => attempts'[k] = attempts[k] + 1
            /\ row[c] # k => attempts'[k] = attempts[k]
        BY <2>4, <1>1 DEF Attempt
      <3>3. Trying(k)' \subseteq Trying(k) \ {c} /\ Checking' \subseteq Checking \ {c}
        BY <1>1, <1>4, <3>1, SetsMove
      <3>4. Cardinality(Checking') + 1 <= Cardinality(Checking)
        BY <3>1, <3>3, OneFewer, SizesAreNumbers
      <3>5. CASE row[c] = k
        <4>1. c \in Trying(k)
          BY <3>1, <3>5 DEF Trying
        <4>2. Cardinality(Trying(k)') + 1 <= Cardinality(Trying(k))
          BY <4>1, <3>3, OneFewer, SizesAreNumbers
        <4>3. Cardinality(Comparing(k)') <= Cardinality(Comparing(k)) + 1
          BY <1>1, <1>4, SetsMove, OneMoreAtMost, SizesAreNumbers
        <4> QED
          BY <1>1, <1>2, <3>1, <3>2, <3>4, <3>5, <4>2, <4>3, SizesAreNumbers DEF RowBudget
      <3>6. CASE row[c] # k
        <4>1. Trying(k)' \subseteq Trying(k) /\ Comparing(k)' \subseteq Comparing(k)
          BY <1>1, <1>4, <3>1, <3>6, SetsMove
        <4>2. Checking' \subseteq Checking
          BY <3>3
        <4> QED
          BY <1>3, <3>1, <3>2, <3>6, <4>1, <4>2
      <3> QED
        BY <3>5, <3>6
    <2>5. CASE Compare(c)
      <3>1. /\ attempts' = attempts /\ begun' = begun /\ doing[c] = "compare"
            /\ doing'[c] \notin {"read", "attempt", "compare"}
        BY <2>5, <1>1 DEF Compare, Goes, Ends, rowVars
      <3>2. /\ row[c] = k => compared'[k] = compared[k] + 1
            /\ row[c] # k => compared'[k] = compared[k]
        BY <2>5, <1>1 DEF Compare
      <3>3. /\ Trying(k)' \subseteq Trying(k) /\ Checking' \subseteq Checking
            /\ Comparing(k)' \subseteq Comparing(k) \ {c}
        BY <1>1, <1>4, <3>1, SetsMove
      <3>4. CASE row[c] = k
        <4>1. c \in Comparing(k)
          BY <3>1, <3>4 DEF Comparing
        <4>2. Cardinality(Comparing(k)') + 1 <= Cardinality(Comparing(k))
          BY <4>1, <3>3, OneFewer, SizesAreNumbers
        <4>3. /\ Cardinality(Trying(k)') <= Cardinality(Trying(k))
              /\ Cardinality(Checking') <= Cardinality(Checking)
          BY <3>3, PartIsSmaller, SizesAreNumbers
        <4> QED
          BY <1>1, <1>2, <3>1, <3>2, <3>4, <4>2, <4>3, SizesAreNumbers DEF RowBudget
      <3>5. CASE row[c] # k
        BY <1>3, <3>1, <3>2, <3>3, <3>5
      <3> QED
        BY <3>4, <3>5
    <2> QED
      BY <1>4, <2>1, <2>2, <2>3, <2>4, <2>5 DEF Steps
  <1>5. ASSUME NEW l \in Codes, Expire(l) \/ Age(l)
        PROVE  RowBudget(k)'
    <2>1. doing' = doing /\ row' = row /\ compared' = compared /\ attempts' = attempts /\ begun' = begun
      BY <1>5 DEF Expire, Age, requestVars
    <2>2. Trying(k)' = Trying(k) /\ Comparing(k)' = Comparing(k) /\ Checking' = Checking
      BY <2>1 DEF Trying, Comparing, Checking
    <2> QED
      BY <1>3, <2>1, <2>2
  <1> QED
    BY <1>4, <1>5, CodesCases

\* A row of the last hour was announced by the request that inserted it.
LEMMA SendBudgets ==
  ASSUME CodesIndInv, CodesNext
  PROVE  SendBudget'
  <1>1. CodesTypeOK /\ SendBudget /\ RowsAreTold
    BY DEF CodesIndInv, Budgets, SendBudget
  <1>2. MaxSends \in Nat
    BY EmailCodeAssumption
  <1>3. ASSUME Recent' \subseteq Recent, Sending' \subseteq Sending
        PROVE  SendBudget'
    <2>1. Cardinality(Recent') <= Cardinality(Recent) /\ Cardinality(Sending') <= Cardinality(Sending)
      BY <1>3, PartIsSmaller, SizesAreNumbers
    <2> QED
      BY <1>1, <1>2, <2>1, SizesAreNumbers DEF SendBudget
  <1>4. ASSUME NEW c \in Clients, Steps(c)
        PROVE  SendBudget'
    <2> USE DEF CodesTypeOK
    <2>1. CASE Issue(c)
      <3>1. Recent' = Recent /\ Cardinality(Recent) < MaxSends
        BY <2>1 DEF Issue, rowVars, Recent, Rows
      <3> QED
        BY <3>1, <1>2, SizesAreNumbers DEF SendBudget
    <2>2. CASE Supersede(c)
      <3>1. Recent' = Recent /\ doing[c] = "supersede"
        BY <2>2, <1>1 DEF Supersede, Recent, Rows
      <3>2. Sending' \subseteq Sending
        BY <3>1, <1>1, <1>4, SetsMove DEF Sending
      <3> QED
        BY <1>3, <3>1, <3>2
    <2>3. CASE \E k \in Codes : Insert(c, k)
      <3> PICK k \in Codes : Insert(c, k)
        BY <2>3
      <3>1. doing[c] = "insert" /\ doing'[c] = "mail"
        BY <1>1 DEF Insert, Goes
      <3>2. Recent' \subseteq Recent \cup {k}
        BY <1>1 DEF Insert, Recent, Rows
      <3>3. c \in Sending /\ Sending' \subseteq Sending \ {c}
        BY <3>1, <1>1, <1>4, SetsMove DEF Sending
      <3>4. Cardinality(Recent') <= Cardinality(Recent) + 1
        BY <3>2, OneMoreAtMost, SizesAreNumbers
      <3>5. Cardinality(Sending') + 1 <= Cardinality(Sending)
        BY <3>3, OneFewer, SizesAreNumbers
      <3> QED
        BY <1>1, <1>2, <3>4, <3>5, SizesAreNumbers DEF SendBudget
    <2>4. CASE \/ Mail(c) \/ (\E g \in Codes \cup {None} : Try(c, g)) \/ Read(c) \/ Attempt(c)
               \/ Compare(c) \/ Consume(c) \/ Verify(c) \/ Die(c)
      <3>1. doing'[c] \notin {"supersede", "insert"}
        BY <2>4, <1>1 DEF Mail, Try, Read, Attempt, Compare, Consume, Verify, Die, Goes, Ends
      <3>2. Recent' \subseteq Recent
        <4>1. old' = old /\ \A k \in Codes : state'[k] # "none" => state[k] # "none"
          <5>1. CASE Consume(c)
            <6>1. row[c] \in Rows
              BY <5>1, <1>1 DEF Consume, RowsAreTold
            <6> QED
              BY <5>1, <6>1, <1>1 DEF Consume, Rows
          <5>2. CASE ~ Consume(c)
            BY <2>4, <5>2 DEF Mail, Try, Read, Attempt, Compare, Verify, Die, rowVars
          <5> QED
            BY <5>1, <5>2
        <4> QED
          BY <4>1 DEF Recent, Rows
      <3> QED
        BY <1>1, <1>3, <1>4, <3>1, <3>2, SetsMove
    <2> QED
      BY <1>4, <2>1, <2>2, <2>3, <2>4 DEF Steps
  <1>5. ASSUME NEW l \in Codes, Expire(l) \/ Age(l)
        PROVE  SendBudget'
    <2>1. Recent' \subseteq Recent /\ Sending' = Sending
      BY <1>5 DEF Expire, Age, requestVars, Recent, Rows, Sending
    <2> QED
      BY <1>3, <2>1
  <1> QED
    BY <1>4, <1>5, CodesCases

-----------------------------------------------------------------------------
LEMMA CodesTypeCorrect ==
  ASSUME CodesIndInv, CodesNext
  PROVE  CodesTypeOK'
  <1>1. CodesTypeOK /\ RowsAreTold
    BY DEF CodesIndInv
  <1>2. ASSUME NEW k \in Codes, compared'[k] \in Nat, attempts'[k] \in Nat, begun' \in Nat
        PROVE  compared'[k] \in 0 .. GuessMax /\ attempts'[k] \in 0 .. GuessMax
    <2>1. RowBudget(k)'
      BY RowBudgets
    <2> QED
      BY <1>2, <2>1, SizesAreNumbers, EmailCodeAssumption DEF RowBudget
  <1> DEFINE Counts(n) == /\ compared \in [Codes -> 0 .. n]
                          /\ attempts \in [Codes -> 0 .. n]
                          /\ begun \in 0 .. n
             Nats == /\ compared \in [Codes -> Nat] /\ attempts \in [Codes -> Nat]
                     /\ begun \in 0 .. GuessMax
             Rest == /\ state \in [Codes -> {"none", "live", "consumed"}]
                     /\ rank \in [Codes -> 0 .. Cardinality(Codes)]
                     /\ expired \subseteq Codes /\ old \subseteq expired /\ mailed \subseteq Codes
                     /\ doing \in [Clients -> {"nothing", "supersede", "insert", "mail", "read",
                                                "attempt", "compare", "consume", "verify"}]
                     /\ row \in [Clients -> Codes \cup {None}]
                     /\ guess \in [Clients -> Codes \cup {None}]
                     /\ verified \in BOOLEAN
                     /\ accepted \subseteq Codes
  <1>3. Nats /\ Rest
    BY <1>1, EmailCodeAssumption DEF CodesTypeOK
  <1>4. ASSUME Nats', Rest'
        PROVE  CodesTypeOK'
    BY <1>2, <1>4, EmailCodeAssumption DEF CodesTypeOK
  <1>5. ASSUME NEW c \in Clients, Steps(c)
        PROVE  Nats' /\ Rest'
    <2>0. doing[c] \in {"mail", "attempt", "compare", "consume"} => row[c] \in Codes
      BY <1>1 DEF RowsAreTold, Rows
    <2>1. CASE Issue(c)
      BY <1>3, <2>1 DEF Issue, Goes, rowVars
    <2>2. CASE Supersede(c)
      BY <1>3, <2>2 DEF Supersede, Goes
    <2>3. CASE \E k \in Codes : Insert(c, k)
      <3> PICK k \in Codes : Insert(c, k)
        BY <2>3
      <3>1. Rows \subseteq Codes \ {k}
        BY DEF Insert, Rows
      <3>2. IsFiniteSet(Codes \ {k}) /\ Cardinality(Codes \ {k}) = Cardinality(Codes) - 1
        BY FS_RemoveElement, EmailCodeAssumption
      <3>3. Cardinality(Rows) <= Cardinality(Codes \ {k}) /\ Cardinality(Rows) \in Nat
        BY <3>1, <3>2, PartIsSmaller
      <3>4. Cardinality(Rows) + 1 \in 0 .. Cardinality(Codes)
        BY <3>2, <3>3, FS_CardinalityType, EmailCodeAssumption
      <3> QED
        BY <1>3, <3>4 DEF Insert, Goes
    <2>4. CASE Mail(c)
      BY <1>3, <2>0, <2>4 DEF Mail, Goes, Ends, rowVars
    <2>5. CASE \E g \in Codes \cup {None} : Try(c, g)
      <3>1. begun' \in 0 .. GuessMax
        BY <1>3, <2>5, EmailCodeAssumption DEF Try
      <3> QED
        BY <1>3, <2>5, <3>1 DEF Try, Goes, rowVars
    <2>6. CASE Read(c)
      <3>1. LiveCodes # {} => Latest \in Codes
        BY <1>1, LatestIsLive DEF LiveCodes
      <3> QED
        BY <1>3, <2>6, <3>1 DEF Read, Goes, Ends, rowVars
    <2>7. CASE Attempt(c)
      <3>1. attempts' \in [Codes -> Nat]
        BY <1>3, <2>0, <2>7 DEF Attempt
      <3> QED
        BY <1>3, <2>7, <3>1 DEF Attempt, Goes
    <2>8. CASE Compare(c)
      <3>1. compared' \in [Codes -> Nat]
        BY <1>3, <2>0, <2>8 DEF Compare
      <3> QED
        BY <1>3, <2>8, <3>1 DEF Compare, Goes, Ends, rowVars
    <2>9. CASE Consume(c)
      BY <1>3, <2>0, <2>9 DEF Consume, Goes
    <2>10. CASE Verify(c)
      BY <1>3, <2>10 DEF Verify, Goes, Ends, rowVars
    <2>11. CASE Die(c)
      BY <1>3, <2>11 DEF Die, Goes, Ends, rowVars
    <2> QED
      BY <1>5, <2>1, <2>2, <2>3, <2>4, <2>5, <2>6, <2>7, <2>8, <2>9, <2>10, <2>11 DEF Steps
  <1>6. ASSUME NEW k \in Codes, Expire(k) \/ Age(k)
        PROVE  Nats' /\ Rest'
    BY <1>3, <1>6 DEF Expire, Age, requestVars, Rows
  <1> QED
    BY <1>4, <1>5, <1>6, CodesCases

LEMMA CodesInductive == CodesIndInv /\ [CodesNext]_codesVars => CodesIndInv'
  <1>1. ASSUME CodesIndInv, CodesNext PROVE CodesIndInv'
    <2>1. \A k \in Codes : RowBudget(k)'
      BY <1>1, RowBudgets
    <2>2. SendBudget'
      BY <1>1, SendBudgets
    <2>3. Budgets'
      BY <2>1, <2>2 DEF Budgets, RowBudget, SendBudget
    <2> QED
      BY <1>1, <2>3, CodesTypeCorrect, RowsTold, LiveOverlap DEF CodesIndInv
  <1>2. ASSUME CodesIndInv, UNCHANGED codesVars PROVE CodesIndInv'
    BY <1>2 DEF CodesIndInv, CodesTypeOK, RowsAreTold, Budgets, Spent, OnlyOverlappingCodesLive,
                Rows, Recent, LiveCodes, Issuing, Sending, Checking, Trying, Comparing,
                codesVars, rowVars, requestVars
  <1> QED
    BY <1>1, <1>2

\* "count the attempt before comparing, so a crash mid-verify cannot be used to
\* get a free guess" (email_verification_service.py:146): for any number of
\* rows, requests and attempts, however checks and sends interleave and die,
\* every comparison was counted, the checks of a code and the codes of an hour
\* exceed their limits by less than the requests there are at once, an accepted
\* code is never live again, and only overlapping sends leave two codes live.
THEOREM GuessesAreBounded == CodesSpec => []CodeInv
  <1> QED
    BY CodesInitially, CodesInductive, CodeInvFollows, PTL DEF CodesSpec

-----------------------------------------------------------------------------
\* What a request does next; who is signed up, looked up or signed in by it.
Stages == {"nothing", "insert", "password", "provision", "found", "own", "trials", "burn",
           "redeem", "identity", "address", "clear", "upsert", "claim", "attach", "new", "mark",
           "link", "enter", "compare", "verify", "reset", "revoke", "ensure", "list", "blank"}

\* A request of these has yet to find or to create its user.
Unnamed == {"nothing", "insert", "burn", "redeem", "identity", "address", "new"}

\* These are steps of the Google callback alone, and these of a reset.
OfGoogle == {"burn", "redeem", "identity", "address", "clear", "upsert", "claim", "attach",
             "new", "mark", "link"}
OfReset == {"verify", "reset", "revoke"}

\* A request of these has yet to give its user a workspace.
Early == {"password", "mark", "link", "provision", "blank", "found", "own"}

Calls == [does : Stages, by : People \cup {Nobody}, user : Users \cup {Nobody},
          google : BOOLEAN, left : Seq(Trials)]

Listed(s) == {s[j] : j \in DOMAIN s}

\* Types of Accounts.
Shapes ==
  /\ email \in [Users -> {"none", "address", "blank"}]
  /\ confirmed \subseteq Users /\ password \in [Users -> People \cup {Nobody}]
  /\ linked \in Users \cup {Nobody}
  /\ founded \in [Users -> Nat] /\ owned \in [Users -> Nat]
  /\ trials \in [Users -> SUBSET Trials]
  /\ signedIn \subseteq People \X Users
  /\ call \in [Callers -> Calls]

\* Who a request is of: a callback is the owner's, and so is a reset.
OfWhom ==
  \A c \in Callers :
    /\ call[c].does \notin Unnamed => call[c].user \in Users
    /\ call[c].does \in Unnamed => call[c].user = Nobody
    /\ call[c].does # "nothing" => call[c].by \in People
    /\ call[c].does \in OfGoogle => call[c].google
    /\ call[c].google \/ call[c].does \in OfReset => call[c].by = Owner

\* Nothing refers to a user without a row.
NoRowNoTrace ==
  /\ \A u \in Users : email[u] = "none" =>
       /\ password[u] = Nobody /\ owned[u] = 0 /\ linked # u
       /\ \A p \in People : <<p, u>> \notin signedIn
  /\ \A c \in Callers : call[c].user \in Users => email[call[c].user] # "none"

\* Excused: the other person may have the account of u.
Taken(u) == u \in late \cup exposed

\* The impostor's password: gone from an account that Google claims or has
\* claimed, never set on one that Google created, and replaced by a reset
\* that is about to revoke.
ImpostorLocked ==
  /\ \A u \in Users : Claimed(u) /\ password[u] = Other => Taken(u)
  /\ \A c, d \in Callers : At(c, "mark") =>
       /\ password[call[c].user] # Other
       /\ ~ (At(d, "password") /\ call[d].user = call[c].user)
  /\ \A c \in Callers :
       /\ call[c].does \in {"reset", "revoke", "compare"} => call[c].user \in confirmed
       /\ At(c, "revoke") => password[call[c].user] # Other \/ call[c].user \in late

ImpostorOut ==
  /\ \A u \in Users : <<Other, u>> \in signedIn => Taken(u)
  /\ \A c \in Callers : At(c, "enter") /\ call[c].by = Other => Taken(call[c].user)

\* The requests that created a user and have not given it everything; a
\* provisioning that starts no trials is none, unless there are none left.
Creators(u) ==
  {c \in Callers : call[c].user = u
     /\ \/ call[c].does \in {"password", "mark", "link", "provision"}
        \/ /\ call[c].does \in {"found", "own", "trials"}
           /\ Trials \subseteq trials[u] \cup Listed(call[c].left)}

\* What an account has once it was created.
WorkspaceGiven ==
  /\ \A u \in Users : email[u] # "none" =>
       (owned[u] > 0 /\ trials[u] = Trials) \/ u \in broken \/ Creators(u) # {}
  /\ \A c \in Callers : At(c, "trials") => owned[call[c].user] > 0

\* A creator that has yet to provision finds a workspace, or another creator,
\* only if it was not alone.
OneWorkspace ==
  /\ \A u \in Users : owned[u] > 1 => u \in crowded
  /\ \A c \in Callers :
       call[c].does \in Early /\ owned[call[c].user] > 0 => call[c].user \in crowded
  /\ \A c, d \in Callers :
       c # d /\ call[c].does \in Early /\ call[d].does \in Early /\ call[c].user = call[d].user =>
         call[c].user \in crowded

\* The requests whose workspace has no owner yet.
Owning(u) == {c \in Callers : At(c, "own") /\ call[c].user = u}

FoundersOwn ==
  \A u \in Users : u \notin broken => founded[u] = owned[u] + Cardinality(Owning(u))

\* The inductive invariant behind OwnersAccount.
AccountsIndInv ==
  /\ Shapes /\ OfWhom /\ NoRowNoTrace
  /\ ImpostorLocked /\ ImpostorOut
  /\ WorkspaceGiven /\ OneWorkspace /\ FoundersOwn

\* What is taken from the front of a list is its head; the rest is its tail.
LEMMA FirstAndRest ==
  ASSUME NEW S, NEW s \in Seq(S), s # <<>>
  PROVE  /\ Tail(s) \in Seq(S) /\ Head(s) \in Listed(s)
         /\ Listed(s) \subseteq {Head(s)} \cup Listed(Tail(s))
  <1>1. /\ Tail(s) \in Seq(S) /\ DOMAIN Tail(s) = 1 .. Len(s) - 1
        /\ Len(s) \in Nat /\ Len(s) > 0 /\ DOMAIN s = 1 .. Len(s) /\ Head(s) = s[1]
    OBVIOUS
  <1>2. \A j \in 1 .. Len(s) - 1 : Tail(s)[j] = s[j + 1]
    OBVIOUS
  <1>3. ASSUME NEW j \in DOMAIN s PROVE s[j] \in {Head(s)} \cup Listed(Tail(s))
    <2>1. CASE j = 1
      BY <2>1, <1>1
    <2>2. CASE j # 1
      <3>1. j - 1 \in DOMAIN Tail(s) /\ Tail(s)[j - 1] = s[j]
        BY <2>2, <1>1, <1>2
      <3> QED
        BY <3>1 DEF Listed
    <2> QED
      BY <2>1, <2>2
  <1> QED
    BY <1>1, <1>3 DEF Listed

LEMMA TrialsAreListed == Listed(TrialPlans) = Trials /\ TrialPlans \in Seq(Trials) /\ Listed(<<>>) = {}
  <1>1. TrialPlans \in Seq(STRING) /\ \A j \in DOMAIN TrialPlans : TrialPlans[j] \in Trials
    BY AccountsAssumption DEF Trials
  <1>2. TrialPlans \in Seq(Trials)
    BY <1>1
  <1> QED
    BY <1>2 DEF Listed, Trials

LEMMA OwnersAccountFollows == AccountsIndInv => OwnersAccount
  <1> SUFFICES ASSUME AccountsIndInv PROVE OwnersAccount
    OBVIOUS
  <1>1. AccountsTypeOK
    BY DEF AccountsIndInv, Shapes, AccountsTypeOK, Calls
  <1>2. ASSUME NEW u \in Users
        PROVE  /\ u \in confirmed /\ password[u] = Other => u \in late \cup exposed
               /\ <<Other, u>> \in signedIn => u \in late \cup exposed
               /\ owned[u] > 1 => u \in crowded
    BY DEF AccountsIndInv, ImpostorLocked, ImpostorOut, OneWorkspace, Claimed, Taken
  <1>3. ASSUME NEW u \in Users, NEW p \in People, <<p, u>> \in signedIn
        PROVE  (owned[u] > 0 /\ trials[u] = Trials) \/ u \in broken \/ Creating(u) # {}
    <2>1. email[u] # "none"
      BY <1>3 DEF AccountsIndInv, NoRowNoTrace
    <2>2. Creators(u) \subseteq Creating(u)
      BY DEF Creators, Creating
    <2> QED
      BY <2>1, <2>2 DEF AccountsIndInv, WorkspaceGiven
  <1>4. ASSUME NEW u \in Users, founded[u] # owned[u], u \notin broken
        PROVE  Creating(u) # {}
    <2>1. founded[u] = owned[u] + Cardinality(Owning(u)) /\ owned[u] \in Nat
      BY <1>4 DEF AccountsIndInv, FoundersOwn, Shapes
    <2>2. Owning(u) # {}
      BY <1>4, <2>1, FS_EmptySet
    <2>3. Owning(u) \subseteq Creating(u)
      BY DEF Owning, Creating, At
    <2> QED
      BY <2>2, <2>3
  <1> QED
    BY <1>1, <1>2, <1>3, <1>4 DEF OwnersAccount

LEMMA AccountsInitially == AccountsInit => AccountsIndInv
  <1> SUFFICES ASSUME AccountsInit PROVE AccountsIndInv
    OBVIOUS
  <1>1. \A c \in Callers : call[c] = NoCall
    BY DEF AccountsInit
  <1>2. NoCall \in Calls
    BY DEF NoCall, Calls, Stages
  <1>3. Shapes
    BY <1>2, AccountsAssumption DEF AccountsInit, Shapes
  <1>4. OfWhom /\ NoRowNoTrace
    BY <1>1, AccountsAssumption
       DEF AccountsInit, OfWhom, NoRowNoTrace, NoCall, Unnamed, OfGoogle, OfReset
  <1>5. ImpostorLocked /\ ImpostorOut
    BY <1>1, AccountsAssumption
       DEF AccountsInit, ImpostorLocked, ImpostorOut, Claimed, At, NoCall, People
  <1>6. WorkspaceGiven /\ OneWorkspace
    BY <1>1, AccountsAssumption
       DEF AccountsInit, WorkspaceGiven, OneWorkspace, At, NoCall, Early
  <1>7. FoundersOwn
    <2>1. \A u \in Users : Owning(u) = {}
      BY <1>1 DEF Owning, At, NoCall
    <2> QED
      BY <2>1, FS_EmptySet DEF AccountsInit, FoundersOwn
  <1> QED
    BY <1>3, <1>4, <1>5, <1>6, <1>7 DEF AccountsIndInv

-----------------------------------------------------------------------------
\* How a step moves its request.
LEMMA Moving ==
  ASSUME Shapes, NEW c \in Callers, NEW what \in Stages
  PROVE  /\ GoesOn(c, what) =>
              /\ call' \in [Callers -> Calls]
              /\ \A d \in Callers \ {c} : call'[d] = call[d]
              /\ call'[c].does = what /\ call'[c].by = call[c].by
              /\ call'[c].user = call[c].user /\ call'[c].google = call[c].google
              /\ call'[c].left = call[c].left
         /\ Leaves(c) =>
              /\ call' \in [Callers -> Calls]
              /\ \A d \in Callers \ {c} : call'[d] = call[d]
              /\ call'[c].does = "nothing" /\ call'[c].user = Nobody /\ call'[c].google = FALSE
  <1>1. call[c] \in Calls
    BY DEF Shapes
  <1>2. ASSUME GoesOn(c, what)
        PROVE  call' = [call EXCEPT ![c] = [call[c] EXCEPT !.does = what]]
    BY <1>2 DEF GoesOn, Shapes
  <1>3. [call[c] EXCEPT !.does = what] \in Calls
    BY <1>1 DEF Calls
  <1>4. NoCall \in Calls
    BY DEF NoCall, Calls, Stages
  <1> DEFINE r == [call[c] EXCEPT !.does = what]
  <1>5. /\ r.does = what /\ r.by = call[c].by /\ r.user = call[c].user
        /\ r.google = call[c].google /\ r.left = call[c].left
    BY <1>1 DEF Calls
  <1>6. ASSUME GoesOn(c, what)
        PROVE  /\ call' \in [Callers -> Calls] /\ call'[c] = r
               /\ \A d \in Callers \ {c} : call'[d] = call[d]
    <2> HIDE DEF r
    <2> QED
      BY <1>2, <1>3, <1>6 DEF Shapes, r
  <1>7. ASSUME Leaves(c)
        PROVE  /\ call' \in [Callers -> Calls] /\ call'[c] = NoCall
               /\ \A d \in Callers \ {c} : call'[d] = call[d]
    BY <1>4, <1>7 DEF Leaves, Shapes
  <1>8. NoCall.does = "nothing" /\ NoCall.user = Nobody /\ NoCall.google = FALSE
    BY DEF NoCall
  <1> HIDE DEF r
  <1> QED
    BY <1>5, <1>6, <1>7, <1>8

LEMMA MovingFor ==
  ASSUME Shapes, NEW c \in Callers, NEW what \in Stages, NEW u \in Users, GoesFor(c, what, u)
  PROVE  /\ call' \in [Callers -> Calls]
         /\ \A d \in Callers \ {c} : call'[d] = call[d]
         /\ call'[c].does = what /\ call'[c].by = call[c].by
         /\ call'[c].user = u /\ call'[c].google = call[c].google
  <1>1. call[c] \in Calls
    BY DEF Shapes
  <1> DEFINE r == [call[c] EXCEPT !.does = what, !.user = u]
  <1>2. call' = [call EXCEPT ![c] = r]
    BY DEF GoesFor, Shapes
  <1>3. r \in Calls /\ r.does = what /\ r.user = u /\ r.by = call[c].by /\ r.google = call[c].google
    BY <1>1 DEF Calls
  <1> HIDE DEF r
  <1> QED
    BY <1>2, <1>3 DEF Shapes

LEMMA Beginning ==
  ASSUME Shapes, NEW c \in Callers, NEW what \in Stages, NEW p \in People,
         NEW u \in Users \cup {Nobody}, Begins(c, what, p, u)
  PROVE  /\ call' \in [Callers -> Calls]
         /\ \A d \in Callers \ {c} : call'[d] = call[d]
         /\ call[c].does = "nothing"
         /\ call'[c].does = what /\ call'[c].by = p
         /\ call'[c].user = u /\ call'[c].google = (what = "burn")
  <1> DEFINE g == (what = "burn")
             r == [NoCall EXCEPT !.does = what, !.by = p, !.user = u, !.google = g]
  <1>0. g \in BOOLEAN
    OBVIOUS
  <1>1. call' = [call EXCEPT ![c] = r] /\ call[c] = NoCall
    BY DEF Begins
  <1> HIDE DEF g
  <1>2. NoCall \in Calls
    BY DEF NoCall, Calls, Stages
  <1>3. r \in Calls /\ r.does = what /\ r.user = u /\ r.by = p /\ r.google = g
    BY <1>0, <1>2 DEF Calls
  <1> HIDE DEF r
  <1> QED
    BY <1>1, <1>3 DEF Shapes, NoCall, g

-----------------------------------------------------------------------------
\* The same, as relations between what a request was and is.
Alone(c) == call' \in [Callers -> Calls] /\ \A d \in Callers \ {c} : call'[d] = call[d]

Carries(c, from, what, s) ==
  /\ Alone(c) /\ call[c].does = from /\ call'[c].does = what
  /\ call'[c].by = call[c].by /\ call'[c].user = call[c].user
  /\ call'[c].google = call[c].google /\ call'[c].left = s

Proceeds(c, from, what) == Carries(c, from, what, call[c].left)

Finds(c, from, what, u) ==
  /\ Alone(c) /\ call[c].does = from /\ call'[c].does = what
  /\ call'[c].by = call[c].by /\ call'[c].user = u /\ call'[c].google = call[c].google

Concludes(c) ==
  Alone(c) /\ call'[c].does = "nothing" /\ call'[c].user = Nobody /\ call'[c].google = FALSE

Starts(c, what, p, u) ==
  /\ Alone(c) /\ call[c].does = "nothing" /\ call'[c].does = what /\ call'[c].by = p
  /\ call'[c].user = u /\ call'[c].google = (what = "burn")

\* The user a request found or was given.
LEMMA WhomItFinds ==
  ASSUME AccountsIndInv
  PROVE  /\ Known # {} => The(Known) \in Users /\ email[The(Known)] = "address"
         /\ \A p \in People, u \in Users : <<p, u>> \in signedIn => email[u] # "none"
         /\ linked # Nobody => linked \in Users /\ email[linked] # "none"
         /\ \A c \in Callers :
              /\ call[c] \in Calls
              /\ call[c].does \notin Unnamed => call[c].user \in Users /\ email[call[c].user] # "none"
              /\ call[c].does # "nothing" => call[c].by \in People
  <1>1. Known # {} => The(Known) \in Known
    BY DEF The
  <1> QED
    BY <1>1 DEF AccountsIndInv, Shapes, OfWhom, NoRowNoTrace, Known

LEMMA CallMoves ==
  ASSUME AccountsIndInv, NEW c \in Callers
  PROVE  /\ \A p \in People : BeginSignup(c, p) =>
              Starts(c, "insert", p, Nobody)
         /\ \A p \in People : Login(c, p) =>
              Starts(c, "compare", p, The(Known))
         /\ \A p \in People, u \in Users : Ensure(c, p, u) =>
              Starts(c, "ensure", p, u)
         /\ \A u \in Users : InsertUser(c, u) =>
              IF Known = {} THEN Finds(c, "insert", "password", u) ELSE Concludes(c)
         /\ \A u \in Users : InsertNew(c, u) =>
              IF Known = {} THEN Finds(c, "new", "mark", u) ELSE Concludes(c)
         /\ SetPassword(c) =>
              Proceeds(c, "password", "provision") \/ Proceeds(c, "reset", "revoke")
         /\ Provision(c) =>
              Carries(c, "provision", "found", TrialPlans)
         /\ Found(c) =>
              Proceeds(c, "found", "own")
         /\ Own(c) =>
              Proceeds(c, "own", "trials")
         /\ StartTrial(c) =>
              Carries(c, "trials", "trials", Tail(call[c].left)) /\ call[c].left # <<>>
         /\ EndCreation(c) =>
              Concludes(c)
         /\ Callback(c) =>
              Starts(c, "burn", Owner, Nobody)
         /\ Burn(c) =>
              Proceeds(c, "burn", "redeem")
         /\ Redeem(c) =>
              Proceeds(c, "redeem", "identity") \/ Concludes(c)
         /\ ByIdentity(c) =>
              IF linked # Nobody THEN Finds(c, "identity", "enter", linked)
              ELSE Proceeds(c, "identity", "address")
         /\ ByAddress(c) =>
              IF Known = {} THEN Proceeds(c, "address", "new")
              ELSE IF The(Known) \in confirmed THEN Finds(c, "address", "upsert", The(Known))
              ELSE Finds(c, "address", "clear", The(Known))
         /\ ClearPassword(c) =>
              Proceeds(c, "clear", "upsert")
         /\ Upsert(c) =>
              IF Known \subseteq {call[c].user} THEN Proceeds(c, "upsert", "claim") ELSE Concludes(c)
         /\ MarkVerified(c) =>
              \/ Proceeds(c, "claim", "attach") \/ Proceeds(c, "mark", "link")
              \/ Proceeds(c, "verify", "reset")
         /\ Link(c) =>
              Proceeds(c, "attach", "enter") \/ Proceeds(c, "link", "provision")
         /\ Enter(c) =>
              Concludes(c)
         /\ ComparePassword(c) =>
              IF password[call[c].user] = call[c].by THEN Proceeds(c, "compare", "enter")
              ELSE Concludes(c)
         /\ Reset(c) =>
              Starts(c, "verify", Owner, The(Known))
         /\ RevokeAll(c) =>
              Concludes(c)
         /\ Blank(c) =>
              Proceeds(c, "ensure", "list") \/ Proceeds(c, "blank", "found")
         /\ List(c) =>
              Concludes(c) \/ Proceeds(c, "list", "blank")
         /\ RequestDies(c) =>
              Concludes(c)
  <1> USE DEF At, Alone, Stages
  <1>0. Shapes /\ Owner \in People
    BY DEF AccountsIndInv, People
  <1>1. \A p \in People : BeginSignup(c, p) =>
         Starts(c, "insert", p, Nobody)
    BY <1>0, WhomItFinds, Beginning DEF BeginSignup, Starts
  <1>2. \A p \in People : Login(c, p) =>
         Starts(c, "compare", p, The(Known))
    BY <1>0, WhomItFinds, Beginning DEF Login, Starts
  <1>3. \A p \in People, u \in Users : Ensure(c, p, u) =>
         Starts(c, "ensure", p, u)
    BY <1>0, WhomItFinds, Beginning DEF Ensure, Starts
  <1>4. ASSUME NEW u \in Users, InsertUser(c, u)
        PROVE  IF Known = {} THEN Finds(c, "insert", "password", u) ELSE Concludes(c)
    <2>1. CASE Known = {}
      BY <1>0, <1>4, <2>1, MovingFor DEF InsertUser, Finds
    <2>2. CASE Known # {}
      BY <1>0, <1>4, <2>2, Moving DEF InsertUser, Concludes
    <2> QED
      BY <2>1, <2>2
  <1>5. ASSUME NEW u \in Users, InsertNew(c, u)
        PROVE  IF Known = {} THEN Finds(c, "new", "mark", u) ELSE Concludes(c)
    <2>1. CASE Known = {}
      BY <1>0, <1>5, <2>1, MovingFor DEF InsertNew, Finds
    <2>2. CASE Known # {}
      BY <1>0, <1>5, <2>2, Moving DEF InsertNew, Concludes
    <2> QED
      BY <2>1, <2>2
  <1>6. SetPassword(c) =>
         Proceeds(c, "password", "provision") \/ Proceeds(c, "reset", "revoke")
    BY <1>0, WhomItFinds, Moving DEF SetPassword, Proceeds, Carries
  <1>7. ASSUME Provision(c)
        PROVE  Carries(c, "provision", "found", TrialPlans)
    <2> DEFINE r == [call[c] EXCEPT !.does = "found", !.left = TrialPlans]
    <2>1. call[c] \in Calls
      BY <1>0 DEF Shapes
    <2>2. r \in Calls
      <3>0. call[c].left \in Seq(Trials)
        BY <2>1 DEF Calls
      <3>1. TrialPlans \in Seq(Trials)
        BY <3>0, <1>7, FirstAndRest, TrialsAreListed DEF Provision
      <3> QED
        BY <2>1, <3>1 DEF Calls
    <2>3. /\ r.does = "found" /\ r.by = call[c].by /\ r.user = call[c].user
          /\ r.google = call[c].google /\ r.left = TrialPlans
      BY <2>1, <1>7 DEF Provision, Calls
    <2>4. call' = [call EXCEPT ![c] = r]
      BY <1>0, <1>7 DEF Provision, Shapes
    <2> HIDE DEF r
    <2> QED
      BY <1>0, <1>7, <2>2, <2>3, <2>4 DEF Provision, Shapes, Carries
  <1>8. Found(c) =>
         Proceeds(c, "found", "own")
    BY <1>0, WhomItFinds, Moving DEF Found, Proceeds, Carries
  <1>9. Own(c) =>
         Proceeds(c, "own", "trials")
    BY <1>0, WhomItFinds, Moving DEF Own, Proceeds, Carries
  <1>10. ASSUME StartTrial(c)
        PROVE  Carries(c, "trials", "trials", Tail(call[c].left)) /\ call[c].left # <<>>
    <2> DEFINE r == [call[c] EXCEPT !.left = Tail(call[c].left)]
    <2>1. call[c] \in Calls
      BY <1>0 DEF Shapes
    <2>2. r \in Calls
      <3>0. call[c].left \in Seq(Trials)
        BY <2>1 DEF Calls
      <3>1. Tail(call[c].left) \in Seq(Trials)
        BY <3>0, <1>10, FirstAndRest, TrialsAreListed DEF StartTrial
      <3> QED
        BY <2>1, <3>1 DEF Calls
    <2>3. /\ r.does = "trials" /\ r.by = call[c].by /\ r.user = call[c].user
          /\ r.google = call[c].google /\ r.left = Tail(call[c].left)
      BY <2>1, <1>10 DEF StartTrial, Calls
    <2>4. call' = [call EXCEPT ![c] = r]
      BY <1>0, <1>10 DEF StartTrial, Shapes
    <2> HIDE DEF r
    <2> QED
      BY <1>0, <1>10, <2>2, <2>3, <2>4 DEF StartTrial, Shapes, Carries
  <1>11. EndCreation(c) =>
         Concludes(c)
    BY <1>0, WhomItFinds, Moving DEF EndCreation, Concludes
  <1>12. Callback(c) =>
         Starts(c, "burn", Owner, Nobody)
    BY <1>0, WhomItFinds, Beginning DEF Callback, Starts
  <1>13. Burn(c) =>
         Proceeds(c, "burn", "redeem")
    BY <1>0, WhomItFinds, Moving DEF Burn, Proceeds, Carries
  <1>14. Redeem(c) =>
         Proceeds(c, "redeem", "identity") \/ Concludes(c)
    BY <1>0, WhomItFinds, Moving DEF Redeem, Proceeds, Concludes, Carries
  <1>15. ASSUME ByIdentity(c)
        PROVE  IF linked # Nobody THEN Finds(c, "identity", "enter", linked)
               ELSE Proceeds(c, "identity", "address")
    <2>1. CASE linked # Nobody
      BY <1>0, <1>15, <2>1, WhomItFinds, MovingFor DEF ByIdentity, Finds
    <2>2. CASE linked = Nobody
      BY <1>0, <1>15, <2>2, Moving DEF ByIdentity, Proceeds, Carries
    <2> QED
      BY <2>1, <2>2
  <1>16. ASSUME ByAddress(c)
        PROVE  IF Known = {} THEN Proceeds(c, "address", "new")
               ELSE IF The(Known) \in confirmed THEN Finds(c, "address", "upsert", The(Known))
               ELSE Finds(c, "address", "clear", The(Known))
    <2>1. CASE Known = {}
      BY <1>0, <1>16, <2>1, Moving DEF ByAddress, Proceeds, Carries
    <2>2. CASE Known # {} /\ The(Known) \in confirmed
      BY <1>0, <1>16, <2>2, WhomItFinds, MovingFor DEF ByAddress, Finds
    <2>3. CASE Known # {} /\ The(Known) \notin confirmed
      BY <1>0, <1>16, <2>3, WhomItFinds, MovingFor DEF ByAddress, Finds
    <2> QED
      BY <2>1, <2>2, <2>3
  <1>17. ClearPassword(c) =>
         Proceeds(c, "clear", "upsert")
    BY <1>0, WhomItFinds, Moving DEF ClearPassword, Proceeds, Carries
  <1>18. Upsert(c) =>
         IF Known \subseteq {call[c].user} THEN Proceeds(c, "upsert", "claim") ELSE Concludes(c)
    BY <1>0, WhomItFinds, Moving DEF Upsert, Proceeds, Concludes, Carries
  <1>19. MarkVerified(c) =>
         \/ Proceeds(c, "claim", "attach") \/ Proceeds(c, "mark", "link")
         \/ Proceeds(c, "verify", "reset")
    BY <1>0, WhomItFinds, Moving DEF MarkVerified, Proceeds, Carries
  <1>20. Link(c) =>
         Proceeds(c, "attach", "enter") \/ Proceeds(c, "link", "provision")
    BY <1>0, WhomItFinds, Moving DEF Link, Proceeds, Carries
  <1>21. Enter(c) =>
         Concludes(c)
    BY <1>0, WhomItFinds, Moving DEF Enter, Concludes
  <1>22. ComparePassword(c) =>
         IF password[call[c].user] = call[c].by THEN Proceeds(c, "compare", "enter")
         ELSE Concludes(c)
    BY <1>0, WhomItFinds, Moving DEF ComparePassword, Proceeds, Concludes, Carries
  <1>23. Reset(c) =>
         Starts(c, "verify", Owner, The(Known))
    BY <1>0, WhomItFinds, Beginning DEF Reset, Starts
  <1>24. RevokeAll(c) =>
         Concludes(c)
    BY <1>0, WhomItFinds, Moving DEF RevokeAll, Concludes
  <1>25. Blank(c) =>
         Proceeds(c, "ensure", "list") \/ Proceeds(c, "blank", "found")
    BY <1>0, WhomItFinds, Moving DEF Blank, Proceeds, Carries
  <1>26. List(c) =>
         Concludes(c) \/ Proceeds(c, "list", "blank")
    BY <1>0, WhomItFinds, Moving DEF List, Proceeds, Concludes, Carries
  <1>27. RequestDies(c) =>
         Concludes(c)
    BY <1>0, WhomItFinds, Moving DEF RequestDies, Concludes
  <1> QED
    BY <1>1, <1>2, <1>3, <1>4, <1>5, <1>6, <1>7, <1>8, <1>9, <1>10, <1>11, <1>12, <1>13, <1>14,
       <1>15, <1>16, <1>17, <1>18, <1>19, <1>20, <1>21, <1>22, <1>23, <1>24, <1>25, <1>26, <1>27

-----------------------------------------------------------------------------
\* The steps, one by one.
RequestSteps(c) ==
  \/ \E p \in People : BeginSignup(c, p)
  \/ \E p \in People : Login(c, p)
  \/ \E p \in People, u \in Users : Ensure(c, p, u)
  \/ \E u \in Users : InsertUser(c, u)
  \/ \E u \in Users : InsertNew(c, u)
  \/ SetPassword(c)
  \/ Provision(c)
  \/ Found(c)
  \/ Own(c)
  \/ StartTrial(c)
  \/ EndCreation(c)
  \/ Callback(c)
  \/ Burn(c)
  \/ Redeem(c)
  \/ ByIdentity(c)
  \/ ByAddress(c)
  \/ ClearPassword(c)
  \/ Upsert(c)
  \/ MarkVerified(c)
  \/ Link(c)
  \/ Enter(c)
  \/ ComparePassword(c)
  \/ Reset(c)
  \/ RevokeAll(c)
  \/ Blank(c)
  \/ List(c)
  \/ RequestDies(c)

LEMMA AccountCases ==
  AccountsNext =>
    \/ BeginFlow
    \/ \E c \in Callers : RequestSteps(c)
    \/ \E u \in Users : Confirm(u)
    \/ \E u \in Users : Backfill(u)
  BY DEF AccountsNext, RequestSteps

\* Those that write nothing but the request.
Quiet(c) ==
  \/ \E p \in People : BeginSignup(c, p)
  \/ \E p \in People : Login(c, p)
  \/ \E p \in People, u \in Users : Ensure(c, p, u)
  \/ Callback(c) \/ Burn(c) \/ Redeem(c) \/ ByIdentity(c) \/ ByAddress(c)
  \/ ComparePassword(c) \/ Reset(c)

\* It creates nothing, claims only what was confirmed, and comes to a session
\* only with a password that was right.
QuietMove(c) ==
  /\ Alone(c) /\ UNCHANGED <<userVars, pastVars>>
  /\ call[c].does \notin Early \cup {"trials"}
  /\ call'[c].does \notin Early \cup {"trials", "claim", "reset", "revoke"}
  /\ call'[c].does \in {"upsert", "compare"} => call'[c].user \in confirmed
  /\ call'[c].does = "enter" /\ call'[c].by = Other => Taken(call'[c].user)
  /\ call'[c].user \in Users => email[call'[c].user] # "none"

LEMMA QuietMoves ==
  ASSUME AccountsIndInv, NEW c \in Callers, Quiet(c)
  PROVE  QuietMove(c)
  <1>1. ASSUME NEW p \in People, BeginSignup(c, p) PROVE QuietMove(c)
    <2>1. Starts(c, "insert", p, Nobody)
      BY <1>1, CallMoves
    <2> QED
      BY <2>1, <1>1, WhomItFinds, AccountsAssumption DEF BeginSignup, Starts, At, QuietMove, Early,
         AccountsIndInv, OfWhom, OfGoogle, NoRowNoTrace, ImpostorLocked, Claimed, Taken, Unnamed
  <1>2. ASSUME NEW p \in People, Login(c, p) PROVE QuietMove(c)
    <2>1. Starts(c, "compare", p, The(Known))
      BY <1>2, CallMoves
    <2> QED
      BY <2>1, <1>2, WhomItFinds, AccountsAssumption DEF Login, Starts, At, QuietMove, Early,
         AccountsIndInv, OfWhom, OfGoogle, NoRowNoTrace, ImpostorLocked, Claimed, Taken, Unnamed
  <1>3. ASSUME NEW p \in People, NEW u \in Users, Ensure(c, p, u) PROVE QuietMove(c)
    <2>1. Starts(c, "ensure", p, u)
      BY <1>3, CallMoves
    <2> QED
      BY <2>1, <1>3, WhomItFinds, AccountsAssumption DEF Ensure, Starts, At, QuietMove, Early,
         AccountsIndInv, OfWhom, OfGoogle, NoRowNoTrace, ImpostorLocked, Claimed, Taken, Unnamed
  <1>4. ASSUME Callback(c) PROVE QuietMove(c)
    <2>1. Starts(c, "burn", Owner, Nobody)
      BY <1>4, CallMoves
    <2> QED
      BY <2>1, <1>4, WhomItFinds, AccountsAssumption DEF Callback, Starts, At, QuietMove, Early,
         AccountsIndInv, OfWhom, OfGoogle, NoRowNoTrace, ImpostorLocked, Claimed, Taken, Unnamed
  <1>5. ASSUME Burn(c) PROVE QuietMove(c)
    <2>1. Proceeds(c, "burn", "redeem")
      BY <1>5, CallMoves
    <2> QED
      BY <2>1, <1>5, WhomItFinds, AccountsAssumption DEF Burn, Proceeds, Carries, At, QuietMove,
         Early, AccountsIndInv, OfWhom, OfGoogle, NoRowNoTrace, ImpostorLocked, Claimed, Taken,
         Unnamed
  <1>6. ASSUME Redeem(c) PROVE QuietMove(c)
    <2>1. Proceeds(c, "redeem", "identity") \/ Concludes(c)
      BY <1>6, CallMoves
    <2> QED
      BY <2>1, <1>6, WhomItFinds, AccountsAssumption DEF Redeem, Proceeds, Concludes, Carries, At,
         QuietMove, Early, AccountsIndInv, OfWhom, OfGoogle, NoRowNoTrace, ImpostorLocked, Claimed,
         Taken, Unnamed
  <1>7. ASSUME ByIdentity(c) PROVE QuietMove(c)
    <2>1. IF linked # Nobody THEN Finds(c, "identity", "enter", linked)
          ELSE Proceeds(c, "identity", "address")
      BY <1>7, CallMoves
    <2> QED
      BY <2>1, <1>7, WhomItFinds, AccountsAssumption DEF ByIdentity, Proceeds, Finds, Carries, At,
         QuietMove, Early, AccountsIndInv, OfWhom, OfGoogle, NoRowNoTrace, ImpostorLocked, Claimed,
         Taken, Unnamed
  <1>8. ASSUME ByAddress(c) PROVE QuietMove(c)
    <2>1. IF Known = {} THEN Proceeds(c, "address", "new")
          ELSE IF The(Known) \in confirmed THEN Finds(c, "address", "upsert", The(Known))
          ELSE Finds(c, "address", "clear", The(Known))
      BY <1>8, CallMoves
    <2> QED
      BY <2>1, <1>8, WhomItFinds, AccountsAssumption DEF ByAddress, Proceeds, Finds, Carries, At,
         QuietMove, Early, AccountsIndInv, OfWhom, OfGoogle, NoRowNoTrace, ImpostorLocked, Claimed,
         Taken, Unnamed
  <1>9. ASSUME ComparePassword(c) PROVE QuietMove(c)
    <2>1. IF password[call[c].user] = call[c].by THEN Proceeds(c, "compare", "enter")
          ELSE Concludes(c)
      BY <1>9, CallMoves
    <2> QED
      BY <2>1, <1>9, WhomItFinds, AccountsAssumption DEF ComparePassword, Proceeds, Concludes,
         Carries, At, QuietMove, Early, AccountsIndInv, OfWhom, OfGoogle, NoRowNoTrace,
         ImpostorLocked, Claimed, Taken, Unnamed
  <1>10. ASSUME Reset(c) PROVE QuietMove(c)
    <2>1. Starts(c, "verify", Owner, The(Known))
      BY <1>10, CallMoves
    <2> QED
      BY <2>1, <1>10, WhomItFinds, AccountsAssumption DEF Reset, Starts, At, QuietMove, Early,
         AccountsIndInv, OfWhom, OfGoogle, NoRowNoTrace, ImpostorLocked, Claimed, Taken, Unnamed
  <1> QED
    BY Quiet(c), <1>1, <1>2, <1>3, <1>4, <1>5, <1>6, <1>7, <1>8, <1>9, <1>10 DEF Quiet

LEMMA ShapesKept ==
  ASSUME AccountsIndInv, AccountsNext
  PROVE  Shapes'
  <1>0. Shapes
    BY DEF AccountsIndInv
  <1>1. ASSUME NEW c \in Callers, NEW u \in Users, InsertUser(c, u)
        PROVE  Shapes'
    <2>1. IF Known = {} THEN Finds(c, "insert", "password", u) ELSE Concludes(c)
      BY <1>1, CallMoves
    <2> QED
      BY <1>0, <2>1, <1>1, WhomItFinds, AccountsAssumption DEF InsertUser, Alone, Finds, Concludes,
         Shapes, userVars, workspaceVars, At, Unnamed
  <1>2. ASSUME NEW c \in Callers, NEW u \in Users, InsertNew(c, u)
        PROVE  Shapes'
    <2>1. IF Known = {} THEN Finds(c, "new", "mark", u) ELSE Concludes(c)
      BY <1>2, CallMoves
    <2> QED
      BY <1>0, <2>1, <1>2, WhomItFinds, AccountsAssumption DEF InsertNew, Alone, Finds, Concludes,
         Shapes, userVars, workspaceVars, At, Unnamed
  <1>3. ASSUME NEW c \in Callers, SetPassword(c)
        PROVE  Shapes'
    <2>1. Proceeds(c, "password", "provision") \/ Proceeds(c, "reset", "revoke")
      BY <1>3, CallMoves
    <2> QED
      BY <1>0, <2>1, <1>3, WhomItFinds, AccountsAssumption DEF SetPassword, Alone, Proceeds,
         Carries, Shapes, userVars, workspaceVars, At, Unnamed
  <1>4. ASSUME NEW c \in Callers, Provision(c)
        PROVE  Shapes'
    <2>1. Carries(c, "provision", "found", TrialPlans)
      BY <1>4, CallMoves
    <2> QED
      BY <1>0, <2>1, <1>4, WhomItFinds, AccountsAssumption DEF Provision, Alone, Carries, Shapes,
         userVars, workspaceVars, At, Unnamed
  <1>5. ASSUME NEW c \in Callers, Found(c)
        PROVE  Shapes'
    <2>1. Proceeds(c, "found", "own")
      BY <1>5, CallMoves
    <2>2. call[c].user \in Users
      BY <1>5, WhomItFinds DEF Found, At, Unnamed
    <2> QED
      BY <1>0, <2>1, <2>2, <1>5 DEF Found, Alone, Proceeds, Carries, Shapes
  <1>6. ASSUME NEW c \in Callers, Own(c)
        PROVE  Shapes'
    <2>1. Proceeds(c, "own", "trials")
      BY <1>6, CallMoves
    <2>2. call[c].user \in Users
      BY <1>6, WhomItFinds DEF Own, At, Unnamed
    <2> QED
      BY <1>0, <2>1, <2>2, <1>6 DEF Own, Alone, Proceeds, Carries, Shapes
  <1>7. ASSUME NEW c \in Callers, StartTrial(c)
        PROVE  Shapes'
    <2>1. Carries(c, "trials", "trials", Tail(call[c].left)) /\ call[c].left # <<>>
      BY <1>7, CallMoves
    <2>2. call[c].user \in Users /\ call[c].left \in Seq(Trials) /\ call[c].left # <<>>
      BY <1>7, WhomItFinds DEF StartTrial, At, Unnamed, Calls
    <2>3. Head(call[c].left) \in Trials
      BY <2>2
    <2> QED
      BY <1>0, <2>1, <2>2, <2>3, <1>7 DEF StartTrial, Alone, Carries, Shapes, workspaceVars
  <1>8. ASSUME NEW c \in Callers, EndCreation(c)
        PROVE  Shapes'
    <2>1. Concludes(c)
      BY <1>8, CallMoves
    <2>2. call[c].user \in Users /\ call[c].by \in People
      BY <1>8, WhomItFinds DEF EndCreation, At, Unnamed
    <2> QED
      BY <1>0, <2>1, <2>2, <1>8 DEF EndCreation, Alone, Concludes, Shapes, Enters, workspaceVars
  <1>9. ASSUME NEW c \in Callers, ClearPassword(c)
        PROVE  Shapes'
    <2>1. Proceeds(c, "clear", "upsert")
      BY <1>9, CallMoves
    <2> QED
      BY <1>0, <2>1, <1>9, WhomItFinds, AccountsAssumption DEF ClearPassword, Alone, Proceeds,
         Carries, Shapes, userVars, workspaceVars, At, Unnamed
  <1>10. ASSUME NEW c \in Callers, Upsert(c)
        PROVE  Shapes'
    <2>1. IF Known \subseteq {call[c].user} THEN Proceeds(c, "upsert", "claim") ELSE Concludes(c)
      BY <1>10, CallMoves
    <2> QED
      BY <1>0, <2>1, <1>10, WhomItFinds, AccountsAssumption DEF Upsert, Alone, Proceeds, Concludes,
         Carries, Shapes, userVars, workspaceVars, At, Unnamed
  <1>11. ASSUME NEW c \in Callers, MarkVerified(c)
        PROVE  Shapes'
    <2>1. \/ Proceeds(c, "claim", "attach") \/ Proceeds(c, "mark", "link")
          \/ Proceeds(c, "verify", "reset")
      BY <1>11, CallMoves
    <2> QED
      BY <1>0, <2>1, <1>11, WhomItFinds, AccountsAssumption DEF MarkVerified, Alone, Proceeds,
         Carries, Shapes, userVars, workspaceVars, At, Unnamed
  <1>12. ASSUME NEW c \in Callers, Link(c)
        PROVE  Shapes'
    <2>1. Proceeds(c, "attach", "enter") \/ Proceeds(c, "link", "provision")
      BY <1>12, CallMoves
    <2> QED
      BY <1>0, <2>1, <1>12, WhomItFinds, AccountsAssumption DEF Link, Alone, Proceeds, Carries,
         Shapes, userVars, workspaceVars, At, Unnamed
  <1>13. ASSUME NEW c \in Callers, Enter(c)
        PROVE  Shapes'
    <2>1. Concludes(c)
      BY <1>13, CallMoves
    <2>2. call[c].user \in Users /\ call[c].by \in People
      BY <1>13, WhomItFinds DEF Enter, At, Unnamed
    <2> QED
      BY <1>0, <2>1, <2>2, <1>13 DEF Enter, Alone, Concludes, Shapes, Enters, workspaceVars
  <1>14. ASSUME NEW c \in Callers, RevokeAll(c)
        PROVE  Shapes'
    <2>1. Concludes(c)
      BY <1>14, CallMoves
    <2> QED
      BY <1>0, <2>1, <1>14, WhomItFinds, AccountsAssumption DEF RevokeAll, Alone, Concludes, Shapes,
         userVars, workspaceVars, At, Unnamed
  <1>15. ASSUME NEW c \in Callers, Blank(c)
        PROVE  Shapes'
    <2>1. Proceeds(c, "ensure", "list") \/ Proceeds(c, "blank", "found")
      BY <1>15, CallMoves
    <2> QED
      BY <1>0, <2>1, <1>15, WhomItFinds, AccountsAssumption DEF Blank, Alone, Proceeds, Carries,
         Shapes, userVars, workspaceVars, At, Unnamed
  <1>16. ASSUME NEW c \in Callers, List(c)
        PROVE  Shapes'
    <2>1. Concludes(c) \/ Proceeds(c, "list", "blank")
      BY <1>16, CallMoves
    <2> QED
      BY <1>0, <2>1, <1>16, WhomItFinds, AccountsAssumption DEF List, Alone, Proceeds, Concludes,
         Carries, Shapes, userVars, workspaceVars, At, Unnamed
  <1>17. ASSUME NEW c \in Callers, RequestDies(c)
        PROVE  Shapes'
    <2>1. Concludes(c)
      BY <1>17, CallMoves
    <2> QED
      BY <1>0, <2>1, <1>17, WhomItFinds, AccountsAssumption DEF RequestDies, Alone, Concludes,
         Shapes, userVars, workspaceVars, At, Unnamed
  <1>18. ASSUME NEW c \in Callers, Quiet(c)
        PROVE  Shapes'
    BY <1>0, <1>18, QuietMoves DEF QuietMove, Shapes, Alone, userVars, workspaceVars
  <1>19. ASSUME NEW u \in Users, Confirm(u) \/ Backfill(u)
        PROVE  Shapes'
    BY <1>0, <1>19 DEF Confirm, Backfill, People, Shapes, workspaceVars
  <1>20. BeginFlow => Shapes'
    BY <1>0 DEF BeginFlow, Shapes, userVars, workspaceVars
  <1> QED
    BY <1>1, <1>2, <1>3, <1>4, <1>5, <1>6, <1>7, <1>8, <1>9, <1>10, <1>11, <1>12, <1>13, <1>14,
       <1>15, <1>16, <1>17, <1>18, <1>19, <1>20, AccountCases DEF RequestSteps, Quiet

LEMMA OfWhomKept ==
  ASSUME AccountsIndInv, AccountsNext
  PROVE  OfWhom'
  <1>0. OfWhom
    BY DEF AccountsIndInv
  <1>1. ASSUME NEW c \in Callers, NEW p \in People, BeginSignup(c, p)
        PROVE  OfWhom'
    <2>1. Starts(c, "insert", p, Nobody)
      BY <1>1, CallMoves
    <2> QED
      BY <1>0, <2>1, <1>1 DEF BeginSignup, Alone, Starts, OfWhom, OfGoogle, OfReset, Unnamed
  <1>2. ASSUME NEW c \in Callers, NEW p \in People, Login(c, p)
        PROVE  OfWhom'
    <2>1. Starts(c, "compare", p, The(Known))
      BY <1>2, CallMoves
    <2>2. The(Known) \in Users
      BY <1>2, WhomItFinds DEF Login
    <2> QED
      BY <1>0, <2>1, <2>2, AccountsAssumption DEF Alone, Starts, OfWhom, OfGoogle, OfReset, Unnamed, People
  <1>3. ASSUME NEW c \in Callers, NEW p \in People, NEW u \in Users, Ensure(c, p, u)
        PROVE  OfWhom'
    <2>1. Starts(c, "ensure", p, u)
      BY <1>3, CallMoves
    <2> QED
      BY <1>0, <2>1, <1>3, WhomItFinds, AccountsAssumption DEF Ensure, Alone, Starts, OfWhom,
         OfGoogle, OfReset, Unnamed, People
  <1>4. ASSUME NEW c \in Callers, NEW u \in Users, InsertUser(c, u)
        PROVE  OfWhom'
    <2>1. IF Known = {} THEN Finds(c, "insert", "password", u) ELSE Concludes(c)
      BY <1>4, CallMoves
    <2> QED
      BY <1>0, <2>1, <1>4, WhomItFinds, AccountsAssumption DEF InsertUser, Alone, Finds, Concludes,
         OfWhom, OfGoogle, OfReset, Unnamed, People
  <1>5. ASSUME NEW c \in Callers, NEW u \in Users, InsertNew(c, u)
        PROVE  OfWhom'
    <2>1. IF Known = {} THEN Finds(c, "new", "mark", u) ELSE Concludes(c)
      BY <1>5, CallMoves
    <2> QED
      BY <1>0, <2>1, <1>5, WhomItFinds, AccountsAssumption DEF InsertNew, Alone, Finds, Concludes,
         OfWhom, OfGoogle, OfReset, Unnamed, People
  <1>6. ASSUME NEW c \in Callers, SetPassword(c)
        PROVE  OfWhom'
    <2>1. Proceeds(c, "password", "provision") \/ Proceeds(c, "reset", "revoke")
      BY <1>6, CallMoves
    <2> QED
      BY <1>0, <2>1, <1>6, WhomItFinds, AccountsAssumption DEF SetPassword, Alone, Proceeds,
         Carries, OfWhom, OfGoogle, OfReset, Unnamed, People
  <1>7. ASSUME NEW c \in Callers, Provision(c)
        PROVE  OfWhom'
    <2>1. Carries(c, "provision", "found", TrialPlans)
      BY <1>7, CallMoves
    <2> QED
      BY <1>0, <2>1, <1>7, WhomItFinds, AccountsAssumption DEF Provision, Alone, Carries, OfWhom,
         OfGoogle, OfReset, Unnamed, People
  <1>8. ASSUME NEW c \in Callers, Found(c)
        PROVE  OfWhom'
    <2>1. Proceeds(c, "found", "own")
      BY <1>8, CallMoves
    <2> QED
      BY <1>0, <2>1, <1>8, WhomItFinds, AccountsAssumption DEF Found, Alone, Proceeds, Carries,
         OfWhom, OfGoogle, OfReset, Unnamed, People
  <1>9. ASSUME NEW c \in Callers, Own(c)
        PROVE  OfWhom'
    <2>1. Proceeds(c, "own", "trials")
      BY <1>9, CallMoves
    <2> QED
      BY <1>0, <2>1, <1>9, WhomItFinds, AccountsAssumption DEF Own, Alone, Proceeds, Carries,
         OfWhom, OfGoogle, OfReset, Unnamed, People
  <1>10. ASSUME NEW c \in Callers, StartTrial(c)
        PROVE  OfWhom'
    <2>1. Carries(c, "trials", "trials", Tail(call[c].left)) /\ call[c].left # <<>>
      BY <1>10, CallMoves
    <2> QED
      BY <1>0, <2>1, <1>10, WhomItFinds, AccountsAssumption DEF StartTrial, Alone, Carries, OfWhom,
         OfGoogle, OfReset, Unnamed, People
  <1>11. ASSUME NEW c \in Callers, EndCreation(c)
        PROVE  OfWhom'
    <2>1. Concludes(c)
      BY <1>11, CallMoves
    <2> QED
      BY <1>0, <2>1, <1>11, WhomItFinds, AccountsAssumption DEF EndCreation, Alone, Concludes,
         OfWhom, OfGoogle, OfReset, Unnamed, People
  <1>12. ASSUME NEW c \in Callers, Callback(c)
        PROVE  OfWhom'
    <2>1. Starts(c, "burn", Owner, Nobody)
      BY <1>12, CallMoves
    <2>2. /\ call'[c].google /\ call'[c].by = Owner /\ call'[c].user = Nobody
          /\ call'[c].does = "burn"
      BY <2>1 DEF Starts
    <2> QED
      BY <1>0, <2>1, <2>2, AccountsAssumption
         DEF Alone, Starts, OfWhom, OfGoogle, OfReset, Unnamed, People
  <1>13. ASSUME NEW c \in Callers, Burn(c)
        PROVE  OfWhom'
    <2>1. Proceeds(c, "burn", "redeem")
      BY <1>13, CallMoves
    <2> QED
      BY <1>0, <2>1, <1>13, WhomItFinds, AccountsAssumption DEF Burn, Alone, Proceeds, Carries,
         OfWhom, OfGoogle, OfReset, Unnamed, People
  <1>14. ASSUME NEW c \in Callers, Redeem(c)
        PROVE  OfWhom'
    <2>1. Proceeds(c, "redeem", "identity") \/ Concludes(c)
      BY <1>14, CallMoves
    <2> QED
      BY <1>0, <2>1, <1>14, WhomItFinds, AccountsAssumption DEF Redeem, Alone, Proceeds, Concludes,
         Carries, OfWhom, OfGoogle, OfReset, Unnamed, People
  <1>15. ASSUME NEW c \in Callers, ByIdentity(c)
        PROVE  OfWhom'
    <2>1. IF linked # Nobody THEN Finds(c, "identity", "enter", linked)
          ELSE Proceeds(c, "identity", "address")
      BY <1>15, CallMoves
    <2> QED
      BY <1>0, <2>1, <1>15, WhomItFinds, AccountsAssumption DEF ByIdentity, Alone, Proceeds, Finds,
         Carries, OfWhom, OfGoogle, OfReset, Unnamed, People
  <1>16. ASSUME NEW c \in Callers, ByAddress(c)
        PROVE  OfWhom'
    <2>1. IF Known = {} THEN Proceeds(c, "address", "new")
          ELSE IF The(Known) \in confirmed THEN Finds(c, "address", "upsert", The(Known))
          ELSE Finds(c, "address", "clear", The(Known))
      BY <1>16, CallMoves
    <2> QED
      BY <1>0, <2>1, <1>16, WhomItFinds, AccountsAssumption DEF ByAddress, Alone, Proceeds, Finds,
         Carries, OfWhom, OfGoogle, OfReset, Unnamed, People
  <1>17. ASSUME NEW c \in Callers, ClearPassword(c)
        PROVE  OfWhom'
    <2>1. Proceeds(c, "clear", "upsert")
      BY <1>17, CallMoves
    <2> QED
      BY <1>0, <2>1, <1>17, WhomItFinds, AccountsAssumption DEF ClearPassword, Alone, Proceeds,
         Carries, OfWhom, OfGoogle, OfReset, Unnamed, People
  <1>18. ASSUME NEW c \in Callers, Upsert(c)
        PROVE  OfWhom'
    <2>1. IF Known \subseteq {call[c].user} THEN Proceeds(c, "upsert", "claim") ELSE Concludes(c)
      BY <1>18, CallMoves
    <2> QED
      BY <1>0, <2>1, <1>18, WhomItFinds, AccountsAssumption DEF Upsert, Alone, Proceeds, Concludes,
         Carries, OfWhom, OfGoogle, OfReset, Unnamed, People
  <1>19. ASSUME NEW c \in Callers, MarkVerified(c)
        PROVE  OfWhom'
    <2>1. \/ Proceeds(c, "claim", "attach") \/ Proceeds(c, "mark", "link")
          \/ Proceeds(c, "verify", "reset")
      BY <1>19, CallMoves
    <2> QED
      BY <1>0, <2>1, <1>19, WhomItFinds, AccountsAssumption DEF MarkVerified, Alone, Proceeds,
         Carries, OfWhom, OfGoogle, OfReset, Unnamed, People
  <1>20. ASSUME NEW c \in Callers, Link(c)
        PROVE  OfWhom'
    <2>1. Proceeds(c, "attach", "enter") \/ Proceeds(c, "link", "provision")
      BY <1>20, CallMoves
    <2> QED
      BY <1>0, <2>1, <1>20, WhomItFinds, AccountsAssumption DEF Link, Alone, Proceeds, Carries,
         OfWhom, OfGoogle, OfReset, Unnamed, People
  <1>21. ASSUME NEW c \in Callers, Enter(c)
        PROVE  OfWhom'
    <2>1. Concludes(c)
      BY <1>21, CallMoves
    <2> QED
      BY <1>0, <2>1, <1>21, WhomItFinds, AccountsAssumption DEF Enter, Alone, Concludes, OfWhom,
         OfGoogle, OfReset, Unnamed, People
  <1>22. ASSUME NEW c \in Callers, ComparePassword(c)
        PROVE  OfWhom'
    <2>1. IF password[call[c].user] = call[c].by THEN Proceeds(c, "compare", "enter")
          ELSE Concludes(c)
      BY <1>22, CallMoves
    <2> QED
      BY <1>0, <2>1, <1>22, WhomItFinds, AccountsAssumption DEF ComparePassword, Alone, Proceeds,
         Concludes, Carries, OfWhom, OfGoogle, OfReset, Unnamed, People
  <1>23. ASSUME NEW c \in Callers, Reset(c)
        PROVE  OfWhom'
    <2>1. Starts(c, "verify", Owner, The(Known))
      BY <1>23, CallMoves
    <2>2. The(Known) \in Users
      BY <1>23, WhomItFinds DEF Reset
    <2> QED
      BY <1>0, <2>1, <2>2, AccountsAssumption DEF Alone, Starts, OfWhom, OfGoogle, OfReset, Unnamed, People
  <1>24. ASSUME NEW c \in Callers, RevokeAll(c)
        PROVE  OfWhom'
    <2>1. Concludes(c)
      BY <1>24, CallMoves
    <2> QED
      BY <1>0, <2>1, <1>24, WhomItFinds, AccountsAssumption DEF RevokeAll, Alone, Concludes, OfWhom,
         OfGoogle, OfReset, Unnamed, People
  <1>25. ASSUME NEW c \in Callers, Blank(c)
        PROVE  OfWhom'
    <2>1. Proceeds(c, "ensure", "list") \/ Proceeds(c, "blank", "found")
      BY <1>25, CallMoves
    <2> QED
      BY <1>0, <2>1, <1>25, WhomItFinds, AccountsAssumption DEF Blank, Alone, Proceeds, Carries,
         OfWhom, OfGoogle, OfReset, Unnamed, People
  <1>26. ASSUME NEW c \in Callers, List(c)
        PROVE  OfWhom'
    <2>1. Concludes(c) \/ Proceeds(c, "list", "blank")
      BY <1>26, CallMoves
    <2> QED
      BY <1>0, <2>1, <1>26, WhomItFinds, AccountsAssumption DEF List, Alone, Proceeds, Concludes,
         Carries, OfWhom, OfGoogle, OfReset, Unnamed, People
  <1>27. ASSUME NEW c \in Callers, RequestDies(c)
        PROVE  OfWhom'
    <2>1. Concludes(c)
      BY <1>27, CallMoves
    <2> QED
      BY <1>0, <2>1, <1>27, WhomItFinds, AccountsAssumption DEF RequestDies, Alone, Concludes,
         OfWhom, OfGoogle, OfReset, Unnamed, People
  <1>28. ASSUME NEW u \in Users, Confirm(u) \/ Backfill(u)
        PROVE  OfWhom'
    BY <1>0, <1>28 DEF Confirm, Backfill, OfWhom
  <1>29. BeginFlow => OfWhom'
    BY <1>0 DEF BeginFlow, OfWhom
  <1> QED
    BY <1>1, <1>2, <1>3, <1>4, <1>5, <1>6, <1>7, <1>8, <1>9, <1>10, <1>11, <1>12, <1>13, <1>14,
       <1>15, <1>16, <1>17, <1>18, <1>19, <1>20, <1>21, <1>22, <1>23, <1>24, <1>25, <1>26, <1>27,
       <1>28, <1>29, AccountCases DEF RequestSteps

\* A row, once there, stays; a request takes only users that have one.
LEMMA TracesStay ==
  ASSUME NoRowNoTrace, NEW c \in Callers, Alone(c),
         \A u \in Users : email[u] # "none" => email'[u] # "none",
         call'[c].user \in Users => email'[call'[c].user] # "none",
         \A u \in Users : email'[u] = "none" =>
           /\ password'[u] = password[u] /\ owned'[u] = owned[u]
           /\ linked' = u => linked = u
           /\ \A p \in People : <<p, u>> \in signedIn' => <<p, u>> \in signedIn
  PROVE  NoRowNoTrace'
  <1>1. \A d \in Callers \ {c} : call'[d] = call[d]
    BY DEF Alone
  <1>2. ASSUME NEW u \in Users, email'[u] = "none"
        PROVE  /\ password'[u] = Nobody /\ owned'[u] = 0 /\ linked' # u
               /\ \A p \in People : <<p, u>> \notin signedIn'
    BY <1>2 DEF NoRowNoTrace
  <1>3. ASSUME NEW d \in Callers, call'[d].user \in Users
        PROVE  email'[call'[d].user] # "none"
    BY <1>1, <1>3 DEF NoRowNoTrace
  <1> QED
    BY <1>2, <1>3 DEF NoRowNoTrace

LEMMA NoRowNoTraceKept ==
  ASSUME AccountsIndInv, AccountsNext
  PROVE  NoRowNoTrace'
  <1>0. Shapes /\ NoRowNoTrace
    BY DEF AccountsIndInv
  <1>1. ASSUME NEW c \in Callers, NEW u \in Users, InsertUser(c, u)
        PROVE  NoRowNoTrace'
    <2>1. IF Known = {} THEN Finds(c, "insert", "password", u) ELSE Concludes(c)
      BY <1>1, CallMoves
    <2> QED
      BY <1>0, <2>1, <1>1, WhomItFinds, TracesStay, AccountsAssumption DEF InsertUser, Alone, Finds,
         Concludes, userVars, workspaceVars, At, Unnamed, Shapes
  <1>2. ASSUME NEW c \in Callers, NEW u \in Users, InsertNew(c, u)
        PROVE  NoRowNoTrace'
    <2>1. IF Known = {} THEN Finds(c, "new", "mark", u) ELSE Concludes(c)
      BY <1>2, CallMoves
    <2> QED
      BY <1>0, <2>1, <1>2, WhomItFinds, TracesStay, AccountsAssumption DEF InsertNew, Alone, Finds,
         Concludes, userVars, workspaceVars, At, Unnamed, Shapes
  <1>3. ASSUME NEW c \in Callers, SetPassword(c)
        PROVE  NoRowNoTrace'
    <2>1. Proceeds(c, "password", "provision") \/ Proceeds(c, "reset", "revoke")
      BY <1>3, CallMoves
    <2> QED
      BY <1>0, <2>1, <1>3, WhomItFinds, TracesStay, AccountsAssumption DEF SetPassword, Alone,
         Proceeds, Carries, userVars, workspaceVars, At, Unnamed, Shapes
  <1>4. ASSUME NEW c \in Callers, Provision(c)
        PROVE  NoRowNoTrace'
    <2>1. Carries(c, "provision", "found", TrialPlans)
      BY <1>4, CallMoves
    <2> QED
      BY <1>0, <2>1, <1>4, WhomItFinds, TracesStay, AccountsAssumption DEF Provision, Alone,
         Carries, userVars, workspaceVars, At, Unnamed, Shapes
  <1>5. ASSUME NEW c \in Callers, Found(c)
        PROVE  NoRowNoTrace'
    <2>1. Proceeds(c, "found", "own")
      BY <1>5, CallMoves
    <2> QED
      BY <1>0, <2>1, <1>5, WhomItFinds, TracesStay, AccountsAssumption DEF Found, Alone, Proceeds,
         Carries, userVars, workspaceVars, At, Unnamed, Shapes
  <1>6. ASSUME NEW c \in Callers, Own(c)
        PROVE  NoRowNoTrace'
    <2>1. Proceeds(c, "own", "trials")
      BY <1>6, CallMoves
    <2> QED
      BY <1>0, <2>1, <1>6, WhomItFinds, TracesStay, AccountsAssumption DEF Own, Alone, Proceeds,
         Carries, userVars, workspaceVars, At, Unnamed, Shapes
  <1>7. ASSUME NEW c \in Callers, StartTrial(c)
        PROVE  NoRowNoTrace'
    <2>1. Carries(c, "trials", "trials", Tail(call[c].left)) /\ call[c].left # <<>>
      BY <1>7, CallMoves
    <2> QED
      BY <1>0, <2>1, <1>7, WhomItFinds, TracesStay, AccountsAssumption DEF StartTrial, Alone,
         Carries, userVars, workspaceVars, At, Unnamed, Shapes
  <1>8. ASSUME NEW c \in Callers, EndCreation(c)
        PROVE  NoRowNoTrace'
    <2>1. Concludes(c)
      BY <1>8, CallMoves
    <2> QED
      BY <1>0, <2>1, <1>8, WhomItFinds, TracesStay, AccountsAssumption DEF EndCreation, Alone,
         Concludes, userVars, workspaceVars, At, Unnamed, Shapes, Enters
  <1>9. ASSUME NEW c \in Callers, ClearPassword(c)
        PROVE  NoRowNoTrace'
    <2>1. Proceeds(c, "clear", "upsert")
      BY <1>9, CallMoves
    <2> QED
      BY <1>0, <2>1, <1>9, WhomItFinds, TracesStay, AccountsAssumption DEF ClearPassword, Alone,
         Proceeds, Carries, userVars, workspaceVars, At, Unnamed, Shapes
  <1>10. ASSUME NEW c \in Callers, Upsert(c)
        PROVE  NoRowNoTrace'
    <2>1. IF Known \subseteq {call[c].user} THEN Proceeds(c, "upsert", "claim") ELSE Concludes(c)
      BY <1>10, CallMoves
    <2> QED
      BY <1>0, <2>1, <1>10, WhomItFinds, TracesStay, AccountsAssumption DEF Upsert, Alone, Proceeds,
         Concludes, Carries, userVars, workspaceVars, At, Unnamed, Shapes
  <1>11. ASSUME NEW c \in Callers, MarkVerified(c)
        PROVE  NoRowNoTrace'
    <2>1. \/ Proceeds(c, "claim", "attach") \/ Proceeds(c, "mark", "link")
          \/ Proceeds(c, "verify", "reset")
      BY <1>11, CallMoves
    <2> QED
      BY <1>0, <2>1, <1>11, WhomItFinds, TracesStay, AccountsAssumption DEF MarkVerified, Alone,
         Proceeds, Carries, userVars, workspaceVars, At, Unnamed, Shapes
  <1>12. ASSUME NEW c \in Callers, Link(c)
        PROVE  NoRowNoTrace'
    <2>1. Proceeds(c, "attach", "enter") \/ Proceeds(c, "link", "provision")
      BY <1>12, CallMoves
    <2> QED
      BY <1>0, <2>1, <1>12, WhomItFinds, TracesStay, AccountsAssumption DEF Link, Alone, Proceeds,
         Carries, userVars, workspaceVars, At, Unnamed, Shapes
  <1>13. ASSUME NEW c \in Callers, Enter(c)
        PROVE  NoRowNoTrace'
    <2>1. Concludes(c)
      BY <1>13, CallMoves
    <2> QED
      BY <1>0, <2>1, <1>13, WhomItFinds, TracesStay, AccountsAssumption DEF Enter, Alone, Concludes,
         userVars, workspaceVars, At, Unnamed, Shapes, Enters
  <1>14. ASSUME NEW c \in Callers, RevokeAll(c)
        PROVE  NoRowNoTrace'
    <2>1. Concludes(c)
      BY <1>14, CallMoves
    <2> QED
      BY <1>0, <2>1, <1>14, WhomItFinds, TracesStay, AccountsAssumption DEF RevokeAll, Alone,
         Concludes, userVars, workspaceVars, At, Unnamed, Shapes
  <1>15. ASSUME NEW c \in Callers, Blank(c)
        PROVE  NoRowNoTrace'
    <2>1. Proceeds(c, "ensure", "list") \/ Proceeds(c, "blank", "found")
      BY <1>15, CallMoves
    <2> QED
      BY <1>0, <2>1, <1>15, WhomItFinds, TracesStay, AccountsAssumption DEF Blank, Alone, Proceeds,
         Carries, userVars, workspaceVars, At, Unnamed, Shapes
  <1>16. ASSUME NEW c \in Callers, List(c)
        PROVE  NoRowNoTrace'
    <2>1. Concludes(c) \/ Proceeds(c, "list", "blank")
      BY <1>16, CallMoves
    <2> QED
      BY <1>0, <2>1, <1>16, WhomItFinds, TracesStay, AccountsAssumption DEF List, Alone, Proceeds,
         Concludes, Carries, userVars, workspaceVars, At, Unnamed, Shapes
  <1>17. ASSUME NEW c \in Callers, RequestDies(c)
        PROVE  NoRowNoTrace'
    <2>1. Concludes(c)
      BY <1>17, CallMoves
    <2> QED
      BY <1>0, <2>1, <1>17, WhomItFinds, TracesStay, AccountsAssumption DEF RequestDies, Alone,
         Concludes, userVars, workspaceVars, At, Unnamed, Shapes
  <1>18. ASSUME NEW c \in Callers, Quiet(c)
        PROVE  NoRowNoTrace'
    BY <1>0, <1>18, QuietMoves, TracesStay DEF QuietMove, userVars, workspaceVars
  <1>19. ASSUME NEW u \in Users, Confirm(u) \/ Backfill(u)
        PROVE  NoRowNoTrace'
    BY <1>0, <1>19 DEF Confirm, Backfill, NoRowNoTrace, Shapes, workspaceVars
  <1>20. BeginFlow => NoRowNoTrace'
    BY <1>0 DEF BeginFlow, NoRowNoTrace, userVars, workspaceVars
  <1> QED
    BY <1>1, <1>2, <1>3, <1>4, <1>5, <1>6, <1>7, <1>8, <1>9, <1>10, <1>11, <1>12, <1>13, <1>14,
       <1>15, <1>16, <1>17, <1>18, <1>19, <1>20, AccountCases DEF RequestSteps, Quiet

\* Of the steps that leave the passwords, the addresses' proofs and the excuses
\* alone: none comes to the stages the invariant speaks of without its reason.
Harmless(c) ==
  /\ Alone(c) /\ UNCHANGED <<password, confirmed, late, exposed>>
  /\ call'[c].does \notin {"password", "mark", "reset", "revoke"}
  /\ call'[c].does \in {"upsert", "claim"} /\ call'[c].user \in Users => Claimed(call'[c].user)
  /\ call'[c].does = "compare" => call'[c].user \in confirmed
  /\ call'[c].does = "enter" /\ call'[c].by = Other => Taken(call'[c].user)
  /\ \A u \in Users : <<Other, u>> \in signedIn' => <<Other, u>> \in signedIn \/ Taken(u)

LEMMA HarmlessMoves ==
  ASSUME AccountsIndInv, NEW c \in Callers,
         \/ Quiet(c) \/ Provision(c) \/ Found(c) \/ Own(c) \/ StartTrial(c) \/ EndCreation(c)
         \/ Upsert(c) \/ Link(c) \/ Enter(c) \/ Blank(c) \/ List(c) \/ RequestDies(c)
  PROVE  Harmless(c)
  <1>0. OfWhom /\ ImpostorLocked /\ ImpostorOut
    BY DEF AccountsIndInv
  <1>1. ASSUME Quiet(c) PROVE Harmless(c)
    <2>1. QuietMove(c)
      BY <1>1, QuietMoves
    <2>2. Alone(c) /\ UNCHANGED <<password, confirmed, late, exposed, signedIn>>
      BY <2>1 DEF QuietMove, userVars, pastVars
    <2>3. /\ call'[c].does \notin {"password", "mark", "reset", "revoke", "claim"}
          /\ call'[c].does \in {"upsert", "compare"} => call'[c].user \in confirmed
          /\ call'[c].does = "enter" /\ call'[c].by = Other => Taken(call'[c].user)
      BY <2>1 DEF QuietMove, Early
    <2> QED
      BY <2>2, <2>3 DEF Harmless, Claimed
  <1>2. ASSUME Provision(c) PROVE Harmless(c)
    <2>1. Carries(c, "provision", "found", TrialPlans)
      BY <1>2, CallMoves
    <2> QED
      BY <1>0, <2>1, <1>2, WhomItFinds, AccountsAssumption DEF Provision, Harmless, Carries,
         Claimed, OfWhom, OfGoogle, At, Unnamed, userVars, pastVars
  <1>3. ASSUME Found(c) PROVE Harmless(c)
    <2>1. Proceeds(c, "found", "own")
      BY <1>3, CallMoves
    <2> QED
      BY <1>0, <2>1, <1>3, WhomItFinds, AccountsAssumption DEF Found, Harmless, Proceeds, Carries,
         Claimed, OfWhom, OfGoogle, At, Unnamed, userVars, pastVars
  <1>4. ASSUME Own(c) PROVE Harmless(c)
    <2>1. Proceeds(c, "own", "trials")
      BY <1>4, CallMoves
    <2> QED
      BY <1>0, <2>1, <1>4, WhomItFinds, AccountsAssumption DEF Own, Harmless, Proceeds, Carries,
         Claimed, OfWhom, OfGoogle, At, Unnamed, userVars, pastVars
  <1>5. ASSUME StartTrial(c) PROVE Harmless(c)
    <2>1. Carries(c, "trials", "trials", Tail(call[c].left)) /\ call[c].left # <<>>
      BY <1>5, CallMoves
    <2> QED
      BY <1>0, <2>1, <1>5, WhomItFinds, AccountsAssumption DEF StartTrial, Harmless, Carries,
         Claimed, OfWhom, OfGoogle, At, Unnamed, userVars, pastVars
  <1>6. ASSUME EndCreation(c) PROVE Harmless(c)
    <2>1. Concludes(c)
      BY <1>6, CallMoves
    <2>2. /\ call[c].user \in Users /\ call[c].by \in People
          /\ call[c].google => call[c].by = Owner
      BY <1>0, <1>6, WhomItFinds DEF EndCreation, At, Unnamed, OfWhom, ImpostorOut
    <2>3. \A u \in Users : <<Other, u>> \in signedIn' => <<Other, u>> \in signedIn \/ Taken(u)
      BY <2>2, <1>6, AccountsAssumption DEF EndCreation, Enters
    <2> QED
      BY <2>1, <2>3, <1>6 DEF EndCreation, Concludes, Harmless, pastVars
  <1>7. ASSUME Upsert(c) PROVE Harmless(c)
    <2>1. IF Known \subseteq {call[c].user} THEN Proceeds(c, "upsert", "claim") ELSE Concludes(c)
      BY <1>7, CallMoves
    <2> QED
      BY <1>0, <2>1, <1>7, WhomItFinds, AccountsAssumption DEF Upsert, Harmless, Proceeds,
         Concludes, Carries, Claimed, OfWhom, OfGoogle, At, Unnamed, userVars, pastVars
  <1>8. ASSUME Link(c) PROVE Harmless(c)
    <2>1. Proceeds(c, "attach", "enter") \/ Proceeds(c, "link", "provision")
      BY <1>8, CallMoves
    <2> QED
      BY <1>0, <2>1, <1>8, WhomItFinds, AccountsAssumption DEF Link, Harmless, Proceeds, Carries,
         Claimed, OfWhom, OfGoogle, At, Unnamed, userVars, pastVars
  <1>9. ASSUME Enter(c) PROVE Harmless(c)
    <2>1. Concludes(c)
      BY <1>9, CallMoves
    <2>2. /\ call[c].user \in Users /\ call[c].by \in People
          /\ call[c].by = Other => Taken(call[c].user)
      BY <1>0, <1>9, WhomItFinds DEF Enter, At, Unnamed, OfWhom, ImpostorOut
    <2>3. \A u \in Users : <<Other, u>> \in signedIn' => <<Other, u>> \in signedIn \/ Taken(u)
      BY <2>2, <1>9, AccountsAssumption DEF Enter, Enters
    <2> QED
      BY <2>1, <2>3, <1>9 DEF Enter, Concludes, Harmless, pastVars
  <1>10. ASSUME Blank(c) PROVE Harmless(c)
    <2>1. Proceeds(c, "ensure", "list") \/ Proceeds(c, "blank", "found")
      BY <1>10, CallMoves
    <2> QED
      BY <1>0, <2>1, <1>10, WhomItFinds, AccountsAssumption DEF Blank, Harmless, Proceeds, Carries,
         Claimed, OfWhom, OfGoogle, At, Unnamed, userVars, pastVars
  <1>11. ASSUME List(c) PROVE Harmless(c)
    <2>1. Concludes(c) \/ Proceeds(c, "list", "blank")
      BY <1>11, CallMoves
    <2> QED
      BY <1>0, <2>1, <1>11, WhomItFinds, AccountsAssumption DEF List, Harmless, Proceeds, Concludes,
         Carries, Claimed, OfWhom, OfGoogle, At, Unnamed, userVars, pastVars
  <1>12. ASSUME RequestDies(c) PROVE Harmless(c)
    <2>1. Concludes(c)
      BY <1>12, CallMoves
    <2> QED
      BY <1>0, <2>1, <1>12, WhomItFinds, AccountsAssumption DEF RequestDies, Harmless, Concludes,
         Claimed, OfWhom, OfGoogle, At, Unnamed, userVars, pastVars
  <1> QED
    BY <1>1, <1>2, <1>3, <1>4, <1>5, <1>6, <1>7, <1>8, <1>9, <1>10, <1>11, <1>12

\* What a request that moves alone can add to the claims, and to the requests
\* at a stage.
LEMMA ClaimsMove ==
  ASSUME NEW c \in Callers, Alone(c)
  PROVE  /\ \A u \in Users : Claimed(u)' =>
              \/ Claimed(u) \/ u \in confirmed' \ confirmed
              \/ call'[c].user = u /\ call'[c].does \in {"upsert", "claim"}
         /\ \A d \in Callers \ {c} : call'[d] = call[d] /\ \A w \in Stages : At(d, w)' <=> At(d, w)
  BY DEF Claimed, Alone, At

\* The stages the invariant speaks of, for a step that does not come to them.
LEMMA ImpostorStaysLocked ==
  ASSUME ImpostorLocked, NEW c \in Callers, Harmless(c)
  PROVE  ImpostorLocked'
  <1>0. Alone(c) /\ \A d \in Callers \ {c} : call'[d] = call[d]
    BY DEF Harmless, Alone
  <1>1. \A u \in Users : Claimed(u)' => Claimed(u)
    BY <1>0, ClaimsMove DEF Harmless
  <1>2. \A u \in Users : Claimed(u)' /\ password'[u] = Other => Taken(u)'
    BY <1>1 DEF ImpostorLocked, Harmless, Taken
  <1>3. ASSUME NEW d \in Callers, NEW e \in Callers, At(d, "mark")'
        PROVE  /\ password'[call'[d].user] # Other
               /\ ~ (At(e, "password")' /\ call'[e].user = call'[d].user)
    <2>1. d # c /\ At(d, "mark") /\ call'[d] = call[d]
      BY <1>0, <1>3 DEF At, Harmless
    <2>2. At(e, "password")' => e # c /\ At(e, "password") /\ call'[e] = call[e]
      BY <1>0 DEF At, Harmless
    <2> QED
      BY <2>1, <2>2 DEF ImpostorLocked, Harmless
  <1>4. ASSUME NEW d \in Callers
        PROVE  /\ call'[d].does \in {"reset", "revoke", "compare"} => call'[d].user \in confirmed'
               /\ At(d, "revoke")' => password'[call'[d].user] # Other \/ call'[d].user \in late'
    BY <1>0 DEF ImpostorLocked, Harmless, At
  <1> QED
    BY <1>2, <1>3, <1>4 DEF ImpostorLocked

LEMMA ImpostorLockedKept ==
  ASSUME AccountsIndInv, AccountsNext
  PROVE  ImpostorLocked'
  <1>0. Shapes /\ OfWhom /\ NoRowNoTrace /\ ImpostorLocked
    BY DEF AccountsIndInv
  <1>1. ASSUME NEW c \in Callers, Harmless(c)
        PROVE  ImpostorLocked'
    BY <1>0, <1>1, ImpostorStaysLocked
  <1>2. ASSUME NEW c \in Callers, NEW u \in Users, InsertUser(c, u)
        PROVE  ImpostorLocked'
    <2>1. IF Known = {} THEN Finds(c, "insert", "password", u) ELSE Concludes(c)
      BY <1>2, CallMoves
    <2>2. CASE Known # {}
      <3>1. Harmless(c)
        BY <2>1, <2>2, <1>2 DEF InsertUser, Concludes, Harmless, pastVars
      <3> QED
        BY <1>0, <3>1, ImpostorStaysLocked
    <2>3. CASE Known = {}
      <3>1. /\ Alone(c) /\ call'[c].does = "password" /\ call'[c].user = u /\ email[u] = "none"
            /\ UNCHANGED <<password, confirmed, late, exposed>>
        BY <2>1, <2>3, <1>2 DEF Finds, InsertUser, pastVars
      <3>2. \A v \in Users : Claimed(v)' /\ password'[v] = Other => Taken(v)'
        BY <1>0, <3>1, ClaimsMove DEF ImpostorLocked, Taken
      <3>3. ASSUME NEW d \in Callers, NEW e \in Callers, At(d, "mark")'
            PROVE  /\ password'[call'[d].user] # Other
                   /\ ~ (At(e, "password")' /\ call'[e].user = call'[d].user)
        <4>1. d # c /\ At(d, "mark") /\ call'[d] = call[d]
          BY <3>1, <3>3, ClaimsMove DEF At, Stages
        <4>2. call[d].user # u
          BY <3>1, <4>1, WhomItFinds DEF At, Unnamed
        <4>3. e # c => (At(e, "password")' => At(e, "password")) /\ call'[e] = call[e]
          BY <3>1, ClaimsMove DEF Stages
        <4> QED
          BY <1>0, <3>1, <4>1, <4>2, <4>3 DEF ImpostorLocked
      <3>4. ASSUME NEW d \in Callers
            PROVE  /\ call'[d].does \in {"reset", "revoke", "compare"} => call'[d].user \in confirmed'
                   /\ At(d, "revoke")' => password'[call'[d].user] # Other \/ call'[d].user \in late'
        BY <1>0, <3>1, ClaimsMove DEF ImpostorLocked, At
      <3> QED
        BY <3>2, <3>3, <3>4 DEF ImpostorLocked
    <2> QED
      BY <2>2, <2>3
  <1>3. ASSUME NEW c \in Callers, NEW u \in Users, InsertNew(c, u)
        PROVE  ImpostorLocked'
    <2>1. IF Known = {} THEN Finds(c, "new", "mark", u) ELSE Concludes(c)
      BY <1>3, CallMoves
    <2>2. CASE Known # {}
      <3>1. Harmless(c)
        BY <2>1, <2>2, <1>3 DEF InsertNew, Concludes, Harmless, pastVars
      <3> QED
        BY <1>0, <3>1, ImpostorStaysLocked
    <2>3. CASE Known = {}
      <3>1. /\ Alone(c) /\ call'[c].does = "mark" /\ call'[c].user = u /\ email[u] = "none"
            /\ UNCHANGED <<password, confirmed, late, exposed>>
        BY <2>1, <2>3, <1>3 DEF Finds, InsertNew, pastVars
      <3>2. \A v \in Users : Claimed(v)' /\ password'[v] = Other => Taken(v)'
        BY <1>0, <3>1, ClaimsMove DEF ImpostorLocked, Taken
      <3>3. password[u] # Other
        BY <1>0, <3>1, AccountsAssumption DEF NoRowNoTrace
      <3>4. ASSUME NEW d \in Callers, NEW e \in Callers, At(d, "mark")'
            PROVE  /\ password'[call'[d].user] # Other
                   /\ ~ (At(e, "password")' /\ call'[e].user = call'[d].user)
        <4>1. At(e, "password")' => e # c /\ At(e, "password") /\ call'[e] = call[e]
          BY <3>1, ClaimsMove DEF At, Stages
        <4>2. At(e, "password") => call[e].user # u
          BY <3>1, WhomItFinds DEF At, Unnamed
        <4>3. CASE d = c
          BY <3>1, <3>3, <4>1, <4>2, <4>3
        <4>4. CASE d # c
          <5>1. At(d, "mark") /\ call'[d] = call[d]
            BY <3>1, <3>4, <4>4, ClaimsMove DEF Stages
          <5> QED
            BY <1>0, <3>1, <4>1, <5>1 DEF ImpostorLocked
        <4> QED
          BY <4>3, <4>4
      <3>5. ASSUME NEW d \in Callers
            PROVE  /\ call'[d].does \in {"reset", "revoke", "compare"} => call'[d].user \in confirmed'
                   /\ At(d, "revoke")' => password'[call'[d].user] # Other \/ call'[d].user \in late'
        BY <1>0, <3>1, ClaimsMove DEF ImpostorLocked, At
      <3> QED
        BY <3>2, <3>4, <3>5 DEF ImpostorLocked
    <2> QED
      BY <2>2, <2>3
  <1>4. ASSUME NEW c \in Callers, SetPassword(c)
        PROVE  ImpostorLocked'
    <2>1. Proceeds(c, "password", "provision") \/ Proceeds(c, "reset", "revoke")
      BY <1>4, CallMoves
    <2>2. PICK u \in Users : u = call[c].user
      BY <1>4, WhomItFinds DEF SetPassword, Unnamed
    <2>3. /\ Alone(c) /\ call'[c].does \in {"provision", "revoke"} /\ call'[c].user = u
          /\ call'[c].does = "revoke" => call[c].does = "reset"
          /\ confirmed' = confirmed /\ exposed' = exposed
          /\ late \subseteq late' /\ password' = [password EXCEPT ![u] = call[c].by]
      BY <2>1, <2>2, <1>4 DEF Proceeds, Carries, SetPassword
    <2>4. \A v \in Users : Claimed(v)' => Claimed(v)
      BY <2>3, ClaimsMove
    <2>5. /\ \/ call[c].by # Other
             \/ At(c, "password") /\ (Claimed(u) => u \in late')
          /\ call[c].does = "reset" => call[c].by # Other /\ u \in confirmed
      BY <1>0, <2>2, <1>4, AccountsAssumption DEF SetPassword, OfWhom, At, OfReset, ImpostorLocked
    <2>6. \A v \in Users : Claimed(v)' /\ password'[v] = Other => Taken(v)'
      BY <1>0, <2>3, <2>4, <2>5 DEF ImpostorLocked, Shapes, Taken
    <2>7. ASSUME NEW d \in Callers, NEW e \in Callers, At(d, "mark")'
          PROVE  /\ password'[call'[d].user] # Other
                 /\ ~ (At(e, "password")' /\ call'[e].user = call'[d].user)
      <3>1. d # c /\ At(d, "mark") /\ call'[d] = call[d]
        BY <2>3, <2>7, ClaimsMove DEF At, Stages
      <3>2. At(e, "password")' => e # c /\ At(e, "password") /\ call'[e] = call[e]
        BY <2>3, ClaimsMove DEF At, Stages
      <3>3. call[d].user \in Users
        BY <3>1, WhomItFinds DEF At, Unnamed
      <3>4. password'[call[d].user] # Other
        BY <1>0, <2>2, <2>3, <2>5, <3>1, <3>3 DEF ImpostorLocked, Shapes
      <3> QED
        BY <1>0, <3>1, <3>2, <3>4 DEF ImpostorLocked
    <2>8. ASSUME NEW d \in Callers
          PROVE  /\ call'[d].does \in {"reset", "revoke", "compare"} => call'[d].user \in confirmed'
                 /\ At(d, "revoke")' => password'[call'[d].user] # Other \/ call'[d].user \in late'
      <3>1. CASE d = c
        BY <1>0, <2>3, <2>5, <3>1 DEF Shapes, At
      <3>2. CASE d # c
        <4>1. call'[d] = call[d]
          BY <2>3, <3>2, ClaimsMove
        <4>2. ASSUME At(d, "revoke")
              PROVE  password'[call[d].user] # Other \/ call[d].user \in late'
          <5>1. call[d].user \in confirmed /\ (password[call[d].user] # Other \/ call[d].user \in late)
            BY <1>0, <4>2 DEF ImpostorLocked, At
          <5>2. CASE call[d].user = u
            BY <1>0, <2>3, <2>5, <5>1, <5>2 DEF Claimed, Shapes
          <5>3. CASE call[d].user # u
            BY <1>0, <2>3, <5>1, <5>3 DEF Shapes
          <5> QED
            BY <5>2, <5>3
        <4> QED
          BY <1>0, <2>3, <4>1, <4>2 DEF ImpostorLocked, At
      <3> QED
        BY <3>1, <3>2
    <2> QED
      BY <2>6, <2>7, <2>8 DEF ImpostorLocked
  <1>5. ASSUME NEW c \in Callers, ClearPassword(c)
        PROVE  ImpostorLocked'
    <2>1. Proceeds(c, "clear", "upsert")
      BY <1>5, CallMoves
    <2>2. PICK u \in Users : u = call[c].user
      BY <1>5, WhomItFinds DEF ClearPassword, At, Unnamed
    <2>3. /\ Alone(c) /\ call'[c].does = "upsert" /\ call'[c].user = u
          /\ UNCHANGED <<confirmed, late, exposed>> /\ password' = [password EXCEPT ![u] = Nobody]
      BY <2>1, <2>2, <1>5 DEF Proceeds, Carries, ClearPassword, pastVars
    <2>4. \A v \in Users \ {u} : Claimed(v)' => Claimed(v)
      BY <2>3, ClaimsMove
    <2>5. \A v \in Users : Claimed(v)' /\ password'[v] = Other => Taken(v)'
      BY <1>0, <2>3, <2>4, AccountsAssumption DEF ImpostorLocked, Shapes, Taken
    <2>6. ASSUME NEW d \in Callers, NEW e \in Callers, At(d, "mark")'
          PROVE  /\ password'[call'[d].user] # Other
                 /\ ~ (At(e, "password")' /\ call'[e].user = call'[d].user)
      <3>1. d # c /\ At(d, "mark") /\ call'[d] = call[d]
        BY <2>3, <2>6, ClaimsMove DEF At, Stages
      <3>2. At(e, "password")' => e # c /\ At(e, "password") /\ call'[e] = call[e]
        BY <2>3, ClaimsMove DEF At, Stages
      <3>3. call[d].user \in Users
        BY <3>1, WhomItFinds DEF At, Unnamed
      <3>4. password'[call[d].user] # Other
        BY <1>0, <2>3, <3>1, <3>3, AccountsAssumption DEF ImpostorLocked, Shapes
      <3> QED
        BY <1>0, <3>1, <3>2, <3>4 DEF ImpostorLocked
    <2>7. ASSUME NEW d \in Callers
          PROVE  /\ call'[d].does \in {"reset", "revoke", "compare"} => call'[d].user \in confirmed'
                 /\ At(d, "revoke")' => password'[call'[d].user] # Other \/ call'[d].user \in late'
      <3>1. d # c \/ ~ (call'[d].does \in {"reset", "revoke", "compare"})
        BY <2>3
      <3>2. CASE d # c
        <4>1. call'[d] = call[d]
          BY <2>3, <3>2, ClaimsMove
        <4>2. At(d, "revoke") =>
                call[d].user \in Users /\ (password[call[d].user] # Other \/ call[d].user \in late)
          BY <1>0, WhomItFinds DEF ImpostorLocked, At, Unnamed
        <4>3. At(d, "revoke") => password'[call[d].user] # Other \/ call[d].user \in late'
          BY <1>0, <2>3, <4>2, AccountsAssumption DEF Shapes
        <4> QED
          BY <1>0, <2>3, <4>1, <4>3 DEF ImpostorLocked, At
      <3> QED
        BY <3>1, <3>2 DEF At
    <2> QED
      BY <2>5, <2>6, <2>7 DEF ImpostorLocked
  <1>6. ASSUME NEW c \in Callers, MarkVerified(c)
        PROVE  ImpostorLocked'
    <2>1. \/ Proceeds(c, "claim", "attach") \/ Proceeds(c, "mark", "link")
          \/ Proceeds(c, "verify", "reset")
      BY <1>6, CallMoves
    <2>2. PICK u \in Users : u = call[c].user
      BY <1>6, WhomItFinds DEF MarkVerified, Unnamed
    <2>3. /\ Alone(c) /\ call'[c].does \in {"attach", "link", "reset"} /\ call'[c].user = u
          /\ confirmed' = confirmed \cup {u} /\ late' = late /\ password' = password
      BY <2>1, <2>2, <1>6 DEF Proceeds, Carries, MarkVerified
    <2>4. exposed \subseteq exposed' /\ (call[c].does = "verify" /\ password[u] = Other => u \in exposed')
      BY <2>2, <1>6 DEF MarkVerified, At
    <2>5. \A v \in Users : Claimed(v)' => Claimed(v) \/ v = u
      BY <2>3, ClaimsMove
    <2>6. Claimed(u) \/ password[u] # Other \/ u \in exposed'
      <3>1. CASE call[c].does = "claim"
        BY <2>2, <3>1 DEF Claimed
      <3>2. CASE call[c].does = "mark"
        BY <1>0, <2>2, <3>2 DEF ImpostorLocked, At
      <3>3. CASE call[c].does = "verify"
        BY <2>4, <3>3
      <3> QED
        BY <1>6, <3>1, <3>2, <3>3 DEF MarkVerified
    <2>7. \A v \in Users : Claimed(v)' /\ password'[v] = Other => Taken(v)'
      BY <1>0, <2>3, <2>4, <2>5, <2>6 DEF ImpostorLocked, Taken
    <2>8. ASSUME NEW d \in Callers, NEW e \in Callers, At(d, "mark")'
          PROVE  /\ password'[call'[d].user] # Other
                 /\ ~ (At(e, "password")' /\ call'[e].user = call'[d].user)
      <3>1. d # c /\ At(d, "mark") /\ call'[d] = call[d]
        BY <2>3, <2>8, ClaimsMove DEF At, Stages
      <3>2. At(e, "password")' => e # c /\ At(e, "password") /\ call'[e] = call[e]
        BY <2>3, ClaimsMove DEF At, Stages
      <3> QED
        BY <1>0, <2>3, <3>1, <3>2 DEF ImpostorLocked
    <2>9. ASSUME NEW d \in Callers
          PROVE  /\ call'[d].does \in {"reset", "revoke", "compare"} => call'[d].user \in confirmed'
                 /\ At(d, "revoke")' => password'[call'[d].user] # Other \/ call'[d].user \in late'
      BY <1>0, <2>3, ClaimsMove DEF ImpostorLocked, At
    <2> QED
      BY <2>7, <2>8, <2>9 DEF ImpostorLocked
  <1>7. ASSUME NEW c \in Callers, RevokeAll(c)
        PROVE  ImpostorLocked'
    <2>1. Concludes(c)
      BY <1>7, CallMoves
    <2>2. PICK u \in Users : u = call[c].user
      BY <1>7, WhomItFinds DEF RevokeAll, At, Unnamed
    <2>3. /\ Alone(c) /\ call'[c].does = "nothing" /\ UNCHANGED <<confirmed, late, password>>
          /\ exposed \ {u} \subseteq exposed' /\ At(c, "revoke")
      BY <2>1, <2>2, <1>7 DEF Concludes, RevokeAll
    <2>4. password[u] # Other \/ u \in late
      BY <1>0, <2>2, <2>3 DEF ImpostorLocked
    <2>5. \A v \in Users : Claimed(v)' => Claimed(v)
      BY <2>3, ClaimsMove
    <2>6. \A v \in Users : Claimed(v)' /\ password'[v] = Other => Taken(v)'
      BY <1>0, <2>3, <2>4, <2>5 DEF ImpostorLocked, Taken
    <2>7. ASSUME NEW d \in Callers, NEW e \in Callers, At(d, "mark")'
          PROVE  /\ password'[call'[d].user] # Other
                 /\ ~ (At(e, "password")' /\ call'[e].user = call'[d].user)
      <3>1. d # c /\ At(d, "mark") /\ call'[d] = call[d]
        BY <2>3, <2>7, ClaimsMove DEF At, Stages
      <3>2. At(e, "password")' => e # c /\ At(e, "password") /\ call'[e] = call[e]
        BY <2>3, ClaimsMove DEF At, Stages
      <3> QED
        BY <1>0, <2>3, <3>1, <3>2 DEF ImpostorLocked
    <2>8. ASSUME NEW d \in Callers
          PROVE  /\ call'[d].does \in {"reset", "revoke", "compare"} => call'[d].user \in confirmed'
                 /\ At(d, "revoke")' => password'[call'[d].user] # Other \/ call'[d].user \in late'
      BY <1>0, <2>3, ClaimsMove DEF ImpostorLocked, At
    <2> QED
      BY <2>6, <2>7, <2>8 DEF ImpostorLocked
  <1>8. ASSUME NEW u \in Users, Confirm(u) \/ Backfill(u)
        PROVE  ImpostorLocked'
    <2>1. /\ call' = call /\ UNCHANGED <<late, exposed, password>>
          /\ \/ confirmed' = confirmed
             \/ password[u] = Owner /\ confirmed' = confirmed \cup {u}
      BY <1>8 DEF Confirm, Backfill, pastVars
    <2>2. \A v \in Users : Claimed(v)' => Claimed(v) \/ password[v] = Owner
      BY <2>1 DEF Claimed
    <2>3. \A v \in Users : Claimed(v)' /\ password'[v] = Other => Taken(v)'
      BY <1>0, <2>1, <2>2, AccountsAssumption DEF ImpostorLocked, Taken
    <2> QED
      BY <1>0, <2>1, <2>3 DEF ImpostorLocked, At
  <1>9. BeginFlow => ImpostorLocked'
    BY <1>0 DEF BeginFlow, ImpostorLocked, Claimed, Taken, At, userVars, pastVars
  <1> QED
    BY <1>1, <1>2, <1>3, <1>4, <1>5, <1>6, <1>7, <1>8, <1>9, AccountCases, HarmlessMoves DEF
       RequestSteps, Quiet

\* Nobody gets closer to a session but by what is excused.
LEMMA ImpostorStaysOut ==
  ASSUME ImpostorOut, NEW c \in Callers, Alone(c),
         late \cup exposed \subseteq late' \cup exposed',
         \A u \in Users : <<Other, u>> \in signedIn' => <<Other, u>> \in signedIn \/ Taken(u),
         call'[c].does = "enter" /\ call'[c].by = Other => Taken(call'[c].user)
  PROVE  ImpostorOut'
  <1>1. \A d \in Callers \ {c} : call'[d] = call[d]
    BY DEF Alone
  <1>2. \A u \in Users : <<Other, u>> \in signedIn' => Taken(u)'
    BY DEF ImpostorOut, Taken
  <1>3. ASSUME NEW d \in Callers
        PROVE  call'[d].does = "enter" /\ call'[d].by = Other => call'[d].user \in late' \cup exposed'
    BY <1>1 DEF ImpostorOut, At, Taken
  <1> QED
    BY <1>2, <1>3 DEF ImpostorOut, At, Taken

LEMMA ImpostorOutKept ==
  ASSUME AccountsIndInv, AccountsNext
  PROVE  ImpostorOut'
  <1>0. Shapes /\ ImpostorOut
    BY DEF AccountsIndInv
  <1>1. ASSUME NEW c \in Callers, Harmless(c)
        PROVE  ImpostorOut'
    BY <1>0, <1>1, ImpostorStaysOut DEF Harmless
  <1>2. ASSUME NEW c \in Callers, NEW u \in Users, InsertUser(c, u)
        PROVE  ImpostorOut'
    <2>1. IF Known = {} THEN Finds(c, "insert", "password", u) ELSE Concludes(c)
      BY <1>2, CallMoves
    <2>2. /\ Alone(c) /\ late \cup exposed \subseteq late' \cup exposed' /\ signedIn' = signedIn
          /\ call'[c].does # "enter"
      BY <2>1, <1>2 DEF Finds, Concludes, InsertUser, pastVars
    <2> QED
      BY <1>0, <2>2, ImpostorStaysOut
  <1>3. ASSUME NEW c \in Callers, NEW u \in Users, InsertNew(c, u)
        PROVE  ImpostorOut'
    <2>1. IF Known = {} THEN Finds(c, "new", "mark", u) ELSE Concludes(c)
      BY <1>3, CallMoves
    <2>2. /\ Alone(c) /\ late \cup exposed \subseteq late' \cup exposed' /\ signedIn' = signedIn
          /\ call'[c].does # "enter"
      BY <2>1, <1>3 DEF Finds, Concludes, InsertNew, pastVars
    <2> QED
      BY <1>0, <2>2, ImpostorStaysOut
  <1>4. ASSUME NEW c \in Callers, SetPassword(c)
        PROVE  ImpostorOut'
    <2>1. Proceeds(c, "password", "provision") \/ Proceeds(c, "reset", "revoke")
      BY <1>4, CallMoves
    <2>2. /\ Alone(c) /\ late \cup exposed \subseteq late' \cup exposed' /\ signedIn' = signedIn
          /\ call'[c].does # "enter"
      BY <2>1, <1>4 DEF Proceeds, Carries, SetPassword, pastVars
    <2> QED
      BY <1>0, <2>2, ImpostorStaysOut
  <1>5. ASSUME NEW c \in Callers, ClearPassword(c)
        PROVE  ImpostorOut'
    <2>1. Proceeds(c, "clear", "upsert")
      BY <1>5, CallMoves
    <2>2. /\ Alone(c) /\ late \cup exposed \subseteq late' \cup exposed' /\ signedIn' = signedIn
          /\ call'[c].does # "enter"
      BY <2>1, <1>5 DEF Proceeds, Carries, ClearPassword, pastVars
    <2> QED
      BY <1>0, <2>2, ImpostorStaysOut
  <1>6. ASSUME NEW c \in Callers, MarkVerified(c)
        PROVE  ImpostorOut'
    <2>1. \/ Proceeds(c, "claim", "attach") \/ Proceeds(c, "mark", "link")
          \/ Proceeds(c, "verify", "reset")
      BY <1>6, CallMoves
    <2>2. /\ Alone(c) /\ late \cup exposed \subseteq late' \cup exposed' /\ signedIn' = signedIn
          /\ call'[c].does # "enter"
      BY <2>1, <1>6 DEF Proceeds, Carries, MarkVerified, pastVars
    <2> QED
      BY <1>0, <2>2, ImpostorStaysOut
  <1>7. ASSUME NEW c \in Callers, RevokeAll(c)
        PROVE  ImpostorOut'
    <2>1. Concludes(c)
      BY <1>7, CallMoves
    <2>2. PICK u \in Users : u = call[c].user
      BY <1>7, WhomItFinds DEF RevokeAll, At, Unnamed
    <2>3. /\ Alone(c) /\ call'[c].does = "nothing" /\ late' = late
          /\ signedIn' = {s \in signedIn : s[2] # u}
          /\ exposed' = IF LoggingIn(u) THEN exposed ELSE exposed \ {u}
      BY <2>1, <2>2, <1>7 DEF Concludes, RevokeAll
    <2>4. \A v \in Users : v # u /\ Taken(v) => v \in late' \cup exposed'
      BY <2>3 DEF Taken
    <2>5. \A v \in Users : <<Other, v>> \in signedIn' => v # u /\ <<Other, v>> \in signedIn
      BY <2>3
    <2>6. ASSUME NEW d \in Callers, At(d, "enter")', call'[d].by = Other
          PROVE  call'[d].user \in late' \cup exposed'
      <3>1. d # c /\ call'[d] = call[d] /\ At(d, "enter") /\ call[d].by = Other
        BY <2>3, <2>6 DEF Alone, At
      <3>2. Taken(call[d].user) /\ call[d].user \in Users
        BY <1>0, <3>1, WhomItFinds DEF ImpostorOut, At, Unnamed
      <3>3. CASE call[d].user = u
        <4>1. LoggingIn(u)
          BY <3>1, <3>3 DEF LoggingIn
        <4> QED
          BY <2>3, <3>1, <3>2, <4>1 DEF Taken
      <3>4. CASE call[d].user # u
        BY <2>4, <3>1, <3>2, <3>4
      <3> QED
        BY <3>3, <3>4
    <2> QED
      BY <1>0, <2>4, <2>5, <2>6 DEF ImpostorOut, Taken, At
  <1>8. ASSUME NEW u \in Users, Confirm(u) \/ Backfill(u)
        PROVE  ImpostorOut'
    BY <1>0, <1>8, AccountsAssumption DEF Confirm, Backfill, ImpostorOut, At, Taken, pastVars
  <1>9. BeginFlow => ImpostorOut'
    BY <1>0 DEF BeginFlow, ImpostorOut, At, Taken, userVars, pastVars
  <1> QED
    BY <1>1, <1>2, <1>3, <1>4, <1>5, <1>6, <1>7, <1>8, <1>9, AccountCases, HarmlessMoves DEF
       RequestSteps, Quiet

\* Of the steps that leave the workspaces alone: a request that creates goes on
\* creating, and none comes to creating.
Routine(c) ==
  /\ Alone(c) /\ UNCHANGED <<workspaceVars, broken, crowded>>
  /\ \A u \in Users : email'[u] # "none" => email[u] # "none"
  /\ \/ call[c].does \notin Early \cup {"trials"} /\ call'[c].does \notin Early \cup {"trials"}
     \/ /\ call[c].does \in Early \ {"own"} /\ call'[c].user = call[c].user
        /\ \/ call'[c].does \in {"link", "provision"}
           \/ call'[c].does = "found" /\ call'[c].left = TrialPlans
           \/ call'[c].does = "found" /\ call[c].does = "blank"

LEMMA RoutineMoves ==
  ASSUME AccountsIndInv, NEW c \in Callers,
         \/ Quiet(c) \/ SetPassword(c) \/ Provision(c) \/ ClearPassword(c) \/ Upsert(c)
         \/ MarkVerified(c) \/ Link(c) \/ Enter(c) \/ RevokeAll(c) \/ Blank(c)
  PROVE  Routine(c)
  <1>0. Shapes
    BY DEF AccountsIndInv
  <1>1. ASSUME Quiet(c) PROVE Routine(c)
    BY <1>1, QuietMoves DEF QuietMove, Routine, userVars, workspaceVars, pastVars
  <1>2. ASSUME SetPassword(c) PROVE Routine(c)
    <2>1. Proceeds(c, "password", "provision") \/ Proceeds(c, "reset", "revoke")
      BY <1>2, CallMoves
    <2>2. call[c].user \in Users /\ email[call[c].user] # "none"
      BY <1>2, WhomItFinds DEF SetPassword, At, Unnamed
    <2>3. \A u \in Users : email'[u] # "none" => email[u] # "none"
      BY <1>0, <2>2, <1>2 DEF SetPassword, Shapes
    <2> QED
      BY <2>1, <2>3, <1>2 DEF SetPassword, Routine, Proceeds, Carries, Early, At, pastVars
  <1>3. ASSUME Provision(c) PROVE Routine(c)
    <2>1. Carries(c, "provision", "found", TrialPlans)
      BY <1>3, CallMoves
    <2>2. call[c].user \in Users /\ email[call[c].user] # "none"
      BY <1>3, WhomItFinds DEF Provision, At, Unnamed
    <2>3. \A u \in Users : email'[u] # "none" => email[u] # "none"
      BY <1>0, <2>2, <1>3 DEF Provision, Shapes
    <2> QED
      BY <2>1, <2>3, <1>3 DEF Provision, Routine, Carries, Early, At, pastVars
  <1>4. ASSUME ClearPassword(c) PROVE Routine(c)
    <2>1. Proceeds(c, "clear", "upsert")
      BY <1>4, CallMoves
    <2>2. call[c].user \in Users /\ email[call[c].user] # "none"
      BY <1>4, WhomItFinds DEF ClearPassword, At, Unnamed
    <2>3. \A u \in Users : email'[u] # "none" => email[u] # "none"
      BY <1>0, <2>2, <1>4 DEF ClearPassword, Shapes
    <2> QED
      BY <2>1, <2>3, <1>4 DEF ClearPassword, Routine, Proceeds, Carries, Early, At, pastVars
  <1>5. ASSUME Upsert(c) PROVE Routine(c)
    <2>1. IF Known \subseteq {call[c].user} THEN Proceeds(c, "upsert", "claim") ELSE Concludes(c)
      BY <1>5, CallMoves
    <2>2. call[c].user \in Users /\ email[call[c].user] # "none"
      BY <1>5, WhomItFinds DEF Upsert, At, Unnamed
    <2>3. \A u \in Users : email'[u] # "none" => email[u] # "none"
      BY <1>0, <2>2, <1>5 DEF Upsert, Shapes
    <2> QED
      BY <2>1, <2>3, <1>5 DEF Upsert, Routine, Proceeds, Concludes, Carries, Early, At, pastVars
  <1>6. ASSUME MarkVerified(c) PROVE Routine(c)
    <2>1. \/ Proceeds(c, "claim", "attach") \/ Proceeds(c, "mark", "link")
          \/ Proceeds(c, "verify", "reset")
      BY <1>6, CallMoves
    <2>2. call[c].user \in Users /\ email[call[c].user] # "none"
      BY <1>6, WhomItFinds DEF MarkVerified, At, Unnamed
    <2>3. \A u \in Users : email'[u] # "none" => email[u] # "none"
      BY <1>0, <2>2, <1>6 DEF MarkVerified, Shapes
    <2> QED
      BY <2>1, <2>3, <1>6 DEF MarkVerified, Routine, Proceeds, Carries, Early, At, pastVars
  <1>7. ASSUME Link(c) PROVE Routine(c)
    <2>1. Proceeds(c, "attach", "enter") \/ Proceeds(c, "link", "provision")
      BY <1>7, CallMoves
    <2>2. call[c].user \in Users /\ email[call[c].user] # "none"
      BY <1>7, WhomItFinds DEF Link, At, Unnamed
    <2>3. \A u \in Users : email'[u] # "none" => email[u] # "none"
      BY <1>0, <2>2, <1>7 DEF Link, Shapes
    <2> QED
      BY <2>1, <2>3, <1>7 DEF Link, Routine, Proceeds, Carries, Early, At, pastVars
  <1>8. ASSUME Enter(c) PROVE Routine(c)
    <2>1. Concludes(c)
      BY <1>8, CallMoves
    <2>2. call[c].user \in Users /\ email[call[c].user] # "none"
      BY <1>8, WhomItFinds DEF Enter, At, Unnamed
    <2>3. \A u \in Users : email'[u] # "none" => email[u] # "none"
      BY <1>0, <2>2, <1>8 DEF Enter, Shapes
    <2> QED
      BY <2>1, <2>3, <1>8 DEF Enter, Routine, Concludes, Early, At, pastVars
  <1>9. ASSUME RevokeAll(c) PROVE Routine(c)
    <2>1. Concludes(c)
      BY <1>9, CallMoves
    <2>2. call[c].user \in Users /\ email[call[c].user] # "none"
      BY <1>9, WhomItFinds DEF RevokeAll, At, Unnamed
    <2>3. \A u \in Users : email'[u] # "none" => email[u] # "none"
      BY <1>0, <2>2, <1>9 DEF RevokeAll, Shapes
    <2> QED
      BY <2>1, <2>3, <1>9 DEF RevokeAll, Routine, Concludes, Early, At, pastVars
  <1>10. ASSUME Blank(c) PROVE Routine(c)
    <2>1. Proceeds(c, "ensure", "list") \/ Proceeds(c, "blank", "found")
      BY <1>10, CallMoves
    <2>2. call[c].user \in Users /\ email[call[c].user] # "none"
      BY <1>10, WhomItFinds DEF Blank, At, Unnamed
    <2>3. \A u \in Users : email'[u] # "none" => email[u] # "none"
      BY <1>0, <2>2, <1>10 DEF Blank, Shapes
    <2> QED
      BY <2>1, <2>3, <1>10 DEF Blank, Routine, Proceeds, Carries, Early, At, pastVars
  <1> QED
    BY <1>1, <1>2, <1>3, <1>4, <1>5, <1>6, <1>7, <1>8, <1>9, <1>10

\* A creator stays one until it is done or dies, and nothing that was given is
\* taken back.
LEMMA GivenStays ==
  ASSUME WorkspaceGiven, Shapes, Shapes', NEW c \in Callers, Alone(c), broken \subseteq broken',
         \A u \in Users :
           /\ email'[u] # "none" =>
                \/ email[u] # "none"
                \/ call'[c].user = u /\ call'[c].does \in {"password", "mark"}
           /\ owned'[u] >= owned[u] /\ trials[u] \subseteq trials'[u],
         \A u \in Users : c \in Creators(u) =>
           \/ c \in Creators(u)' \/ u \in broken'
           \/ owned'[u] > 0 /\ trials'[u] = Trials,
         call'[c].does = "trials" => owned'[call'[c].user] > 0,
         \A d \in Callers : At(d, "trials") => call[d].user \in Users
  PROVE  WorkspaceGiven'
  <1>1. \A d \in Callers \ {c} : call'[d] = call[d]
    BY DEF Alone
  <1>2. \A u \in Users : /\ owned[u] \in Nat /\ owned'[u] \in Nat
                         /\ trials[u] \subseteq Trials /\ trials'[u] \subseteq Trials
    BY DEF Shapes
  <1>3. ASSUME NEW u \in Users, email'[u] # "none"
        PROVE  (owned'[u] > 0 /\ trials'[u] = Trials) \/ u \in broken' \/ Creators(u)' # {}
    <2>1. CASE owned[u] > 0 /\ trials[u] = Trials
      <3>1. /\ trials'[u] \subseteq Trials /\ Trials \subseteq trials'[u]
            /\ owned'[u] >= owned[u] /\ owned[u] \in Nat /\ owned'[u] \in Nat
        BY <1>2, <2>1
      <3>2. trials'[u] = Trials
        BY <3>1
      <3> QED
        BY <2>1, <3>1, <3>2
    <2>2. CASE u \in broken
      BY <2>2
    <2>3. ASSUME NEW d \in Creators(u)
          PROVE  (owned'[u] > 0 /\ trials'[u] = Trials) \/ u \in broken' \/ Creators(u)' # {}
      <3>1. CASE d = c
        BY <2>3, <3>1
      <3>2. CASE d # c
        <4>1. d \in Callers /\ call'[d] = call[d] /\ trials[u] \subseteq trials'[u]
          BY <3>2, <1>1 DEF Creators
        <4>2. d \in Creators(u)'
          BY <4>1 DEF Creators
        <4> QED
          BY <4>2
      <3> QED
        BY <3>1, <3>2
    <2>4. CASE call'[c].user = u /\ call'[c].does \in {"password", "mark"}
      BY <2>4 DEF Creators
    <2> QED
      BY <1>3, <2>1, <2>2, <2>3, <2>4 DEF WorkspaceGiven
  <1>4. ASSUME NEW d \in Callers, call'[d].does = "trials"
        PROVE  owned'[call'[d].user] > 0
    <2>1. CASE d = c
      BY <1>4, <2>1
    <2>2. CASE d # c
      <3>1. call'[d] = call[d] /\ At(d, "trials")
        BY <1>1, <1>4, <2>2 DEF At
      <3>2. PICK u \in Users : u = call[d].user
        BY <3>1
      <3>3. owned[u] > 0
        BY <3>1, <3>2 DEF WorkspaceGiven
      <3> QED
        BY <1>2, <3>1, <3>2, <3>3
    <2> QED
      BY <2>1, <2>2
  <1> QED
    BY <1>3, <1>4 DEF WorkspaceGiven, At

LEMMA WorkspaceGivenKept ==
  ASSUME AccountsIndInv, AccountsNext
  PROVE  WorkspaceGiven'
  <1>0. /\ Shapes /\ WorkspaceGiven /\ Shapes'
        /\ \A d \in Callers : At(d, "trials") => call[d].user \in Users
    BY ShapesKept, WhomItFinds DEF AccountsIndInv, At, Unnamed
  <1>1. ASSUME NEW c \in Callers, Routine(c)
        PROVE  WorkspaceGiven'
    <2>1. Alone(c) /\ broken' = broken /\ owned' = owned /\ trials' = trials
      BY <1>1 DEF Routine, workspaceVars
    <2>2. \A u \in Users : owned'[u] >= owned[u]
      BY <1>0, <2>1 DEF Shapes
    <2>3. call'[c].does # "trials"
      BY <1>1 DEF Routine, Early
    <2>4. ASSUME NEW u \in Users, c \in Creators(u)
          PROVE  c \in Creators(u)'
      <3>1. call[c].user = u /\ call[c].does \in (Early \cup {"trials"}) \ {"blank"}
        BY <2>4 DEF Creators, Early
      <3>2. /\ call'[c].user = u
            /\ call'[c].does \in {"link", "provision"} \/ (call'[c].does = "found" /\ call'[c].left = TrialPlans)
        BY <3>1, <1>1 DEF Routine
      <3> QED
        BY <3>2, TrialsAreListed DEF Creators
    <2> QED
      BY <1>0, <2>1, <2>2, <2>3, <2>4, <1>1, GivenStays DEF Routine
  <1>2. ASSUME NEW c \in Callers, NEW u \in Users, InsertUser(c, u)
        PROVE  WorkspaceGiven'
    <2>1. IF Known = {} THEN Finds(c, "insert", "password", u) ELSE Concludes(c)
      BY <1>2, CallMoves
    <2>2. /\ Alone(c) /\ call'[c].does # "trials" /\ broken' = broken /\ owned' = owned
          /\ trials' = trials /\ call[c].does = "insert"
      BY <2>1, <1>2 DEF Finds, Concludes, InsertUser, At, workspaceVars, pastVars
    <2>3. \A v \in Users : owned'[v] >= owned[v]
      BY <1>0, <2>2 DEF Shapes
    <2>4. \A v \in Users : email'[v] # "none" =>
            email[v] # "none" \/ (call'[c].user = v /\ call'[c].does = "password")
      BY <1>0, <2>1, <1>2 DEF Finds, Concludes, InsertUser, Shapes
    <2>5. \A v \in Users : c \notin Creators(v)
      BY <2>2 DEF Creators
    <2> QED
      BY <1>0, <2>2, <2>3, <2>4, <2>5, GivenStays
  <1>3. ASSUME NEW c \in Callers, NEW u \in Users, InsertNew(c, u)
        PROVE  WorkspaceGiven'
    <2>1. IF Known = {} THEN Finds(c, "new", "mark", u) ELSE Concludes(c)
      BY <1>3, CallMoves
    <2>2. /\ Alone(c) /\ call'[c].does # "trials" /\ broken' = broken /\ owned' = owned
          /\ trials' = trials /\ call[c].does = "new"
      BY <2>1, <1>3 DEF Finds, Concludes, InsertNew, At, workspaceVars, pastVars
    <2>3. \A v \in Users : owned'[v] >= owned[v]
      BY <1>0, <2>2 DEF Shapes
    <2>4. \A v \in Users : email'[v] # "none" =>
            email[v] # "none" \/ (call'[c].user = v /\ call'[c].does = "mark")
      BY <1>0, <2>1, <1>3 DEF Finds, Concludes, InsertNew, Shapes
    <2>5. \A v \in Users : c \notin Creators(v)
      BY <2>2 DEF Creators
    <2> QED
      BY <1>0, <2>2, <2>3, <2>4, <2>5, GivenStays
  <1>4. ASSUME NEW c \in Callers, Found(c)
        PROVE  WorkspaceGiven'
    <2>1. Proceeds(c, "found", "own")
      BY <1>4, CallMoves
    <2>2. /\ Alone(c) /\ broken' = broken /\ owned' = owned /\ trials' = trials /\ email' = email
          /\ call[c].does = "found" /\ call'[c].does = "own"
          /\ call'[c].user = call[c].user /\ call'[c].left = call[c].left
      BY <2>1, <1>4 DEF Proceeds, Carries, Found, pastVars
    <2>3. \A v \in Users : owned'[v] >= owned[v]
      BY <1>0, <2>2 DEF Shapes
    <2>4. \A v \in Users : c \in Creators(v) => c \in Creators(v)'
      BY <2>2 DEF Creators
    <2> QED
      BY <1>0, <2>2, <2>3, <2>4, GivenStays
  <1>5. ASSUME NEW c \in Callers, Own(c)
        PROVE  WorkspaceGiven'
    <2>1. Proceeds(c, "own", "trials")
      BY <1>5, CallMoves
    <2>2. PICK u \in Users : u = call[c].user
      BY <1>5, WhomItFinds DEF Own, At, Unnamed
    <2>3. /\ Alone(c) /\ broken' = broken /\ trials' = trials /\ email' = email
          /\ owned' = [owned EXCEPT ![u] = @ + 1]
          /\ call[c].does = "own" /\ call'[c].does = "trials"
          /\ call'[c].user = u /\ call'[c].left = call[c].left
      BY <2>1, <2>2, <1>5 DEF Proceeds, Carries, Own, pastVars
    <2>4. owned'[u] > 0 /\ \A v \in Users : owned'[v] >= owned[v]
      BY <1>0, <2>3 DEF Shapes
    <2>5. \A v \in Users : c \in Creators(v) => c \in Creators(v)'
      BY <2>2, <2>3 DEF Creators
    <2> QED
      BY <1>0, <2>3, <2>4, <2>5, GivenStays
  <1>6. ASSUME NEW c \in Callers, StartTrial(c)
        PROVE  WorkspaceGiven'
    <2>1. Carries(c, "trials", "trials", Tail(call[c].left)) /\ call[c].left # <<>>
      BY <1>6, CallMoves
    <2>2. PICK u \in Users : u = call[c].user
      BY <1>6, WhomItFinds DEF StartTrial, At, Unnamed
    <2>3. /\ Alone(c) /\ call[c].does = "trials" /\ call'[c].does = "trials" /\ call'[c].user = u
          /\ call'[c].left = Tail(call[c].left) /\ owned' = owned /\ broken' = broken /\ email' = email
          /\ trials' = [trials EXCEPT ![u] = @ \cup {Head(call[c].left)}]
      BY <2>1, <2>2, <1>6 DEF Carries, StartTrial, pastVars
    <2>4. call[c].left \in Seq(Trials) /\ call[c].left # <<>>
      BY <1>6, WhomItFinds DEF StartTrial, Calls
    <2>5. Listed(call[c].left) \subseteq {Head(call[c].left)} \cup Listed(Tail(call[c].left))
      BY <2>4, FirstAndRest
    <2>6. trials'[u] = trials[u] \cup {Head(call[c].left)} /\ \A v \in Users : trials[v] \subseteq trials'[v]
      BY <1>0, <2>3 DEF Shapes
    <2>7. owned'[u] > 0 /\ \A v \in Users : owned'[v] >= owned[v]
      BY <1>0, <2>2, <2>3 DEF Shapes, WorkspaceGiven, At
    <2>8. ASSUME NEW v \in Users, c \in Creators(v)
          PROVE  c \in Creators(v)'
      <3>1. v = u /\ Trials \subseteq trials[u] \cup Listed(call[c].left)
        BY <2>2, <2>3, <2>8 DEF Creators
      <3>2. Trials \subseteq trials'[u] \cup Listed(call'[c].left)
        BY <2>3, <2>5, <2>6, <3>1
      <3> QED
        BY <2>3, <3>1, <3>2 DEF Creators
    <2> QED
      BY <1>0, <2>3, <2>6, <2>7, <2>8, GivenStays
  <1>7. ASSUME NEW c \in Callers, EndCreation(c)
        PROVE  WorkspaceGiven'
    <2>1. Concludes(c)
      BY <1>7, CallMoves
    <2>2. PICK u \in Users : u = call[c].user
      BY <1>7, WhomItFinds DEF EndCreation, At, Unnamed
    <2>3. /\ Alone(c) /\ call'[c].does = "nothing" /\ owned' = owned /\ trials' = trials
          /\ broken' = broken /\ email' = email
      BY <2>1, <1>7 DEF Concludes, EndCreation, workspaceVars, pastVars
    <2>4. owned[u] > 0 /\ \A v \in Users : owned'[v] >= owned[v]
      BY <1>0, <2>2, <2>3, <1>7 DEF EndCreation, WorkspaceGiven, Shapes
    <2>5. ASSUME NEW v \in Users, c \in Creators(v)
          PROVE  owned'[v] > 0 /\ trials'[v] = Trials
      <3>1. v = u /\ Trials \subseteq trials[u] \cup Listed(<<>>)
        BY <2>2, <2>5, <1>7 DEF Creators, EndCreation, At
      <3>2. trials[u] \subseteq Trials /\ Listed(<<>>) = {}
        BY <1>0, TrialsAreListed DEF Shapes
      <3>3. trials[u] = Trials
        BY <3>1, <3>2
      <3> QED
        BY <2>3, <2>4, <3>1, <3>3
    <2> QED
      BY <1>0, <2>3, <2>4, <2>5, GivenStays
  <1>8. ASSUME NEW c \in Callers, List(c)
        PROVE  WorkspaceGiven'
    <2>1. Concludes(c) \/ Proceeds(c, "list", "blank")
      BY <1>8, CallMoves
    <2>2. /\ Alone(c) /\ call'[c].does # "trials" /\ owned' = owned /\ trials' = trials
          /\ broken' = broken /\ email' = email /\ call[c].does = "list"
      BY <2>1, <1>8 DEF Concludes, Proceeds, Carries, List, At, userVars, workspaceVars
    <2>3. \A v \in Users : owned'[v] >= owned[v]
      BY <1>0, <2>2 DEF Shapes
    <2>4. \A v \in Users : c \notin Creators(v)
      BY <2>2 DEF Creators
    <2> QED
      BY <1>0, <2>2, <2>3, <2>4, GivenStays
  <1>9. ASSUME NEW c \in Callers, RequestDies(c)
        PROVE  WorkspaceGiven'
    <2>1. Concludes(c)
      BY <1>9, CallMoves
    <2>2. /\ Alone(c) /\ call'[c].does = "nothing" /\ owned' = owned /\ trials' = trials
          /\ email' = email /\ broken' = broken \cup {u \in Users : c \in Creating(u)}
      BY <2>1, <1>9 DEF Concludes, RequestDies, userVars, workspaceVars
    <2>3. \A v \in Users : owned'[v] >= owned[v]
      BY <1>0, <2>2 DEF Shapes
    <2>4. \A v \in Users : c \in Creators(v) => v \in broken'
      BY <2>2 DEF Creators, Creating
    <2> QED
      BY <1>0, <2>2, <2>3, <2>4, GivenStays
  <1>10. ASSUME NEW u \in Users, Confirm(u) \/ Backfill(u)
        PROVE  WorkspaceGiven'
    <2>1. /\ call' = call /\ email' = email /\ owned' = owned /\ broken' = broken
          /\ trials' = trials \/ trials' = [trials EXCEPT ![u] = Trials]
      BY <1>10 DEF Confirm, Backfill, workspaceVars, pastVars
    <2>2. \A v \in Users : (trials'[v] = trials[v] \/ trials'[v] = Trials) /\ trials[v] \subseteq Trials
      BY <1>0, <2>1 DEF Shapes
    <2>3. \A v \in Users : Creators(v) \subseteq Creators(v)'
      BY <2>1, <2>2 DEF Creators
    <2> QED
      BY <1>0, <2>1, <2>2, <2>3 DEF WorkspaceGiven, At
  <1>11. BeginFlow => WorkspaceGiven'
    BY <1>0 DEF BeginFlow, WorkspaceGiven, Creators, At, userVars, workspaceVars, pastVars
  <1> QED
    BY <1>1, <1>2, <1>3, <1>4, <1>5, <1>6, <1>7, <1>8, <1>9, <1>10, <1>11, AccountCases,
       RoutineMoves DEF RequestSteps, Quiet

\* A request that is about to provision was so before, for the same user, or
\* nothing else is and there is no workspace, or it is noted.
LEMMA OneWorkspaceStays ==
  ASSUME OneWorkspace, NEW c \in Callers, Alone(c), crowded \subseteq crowded', owned' = owned,
         call'[c].does \in Early =>
           \/ call[c].does \in Early /\ call'[c].user = call[c].user
           \/ call'[c].user \in crowded'
           \/ /\ ~ (owned[call'[c].user] > 0)
              /\ \A d \in Callers : call[d].does \in Early => call[d].user # call'[c].user
  PROVE  OneWorkspace'
  <1>1. \A d \in Callers \ {c} : call'[d] = call[d]
    BY DEF Alone
  <1>2. ASSUME NEW d \in Callers, call'[d].does \in Early, owned[call'[d].user] > 0
        PROVE  call'[d].user \in crowded'
    BY <1>1, <1>2 DEF OneWorkspace
  <1>3. ASSUME NEW d \in Callers, NEW e \in Callers, d # e, call'[d].does \in Early,
               call'[e].does \in Early, call'[d].user = call'[e].user
        PROVE  call'[d].user \in crowded'
    <2>1. CASE d # c /\ e # c
      BY <1>1, <1>3, <2>1 DEF OneWorkspace
    <2>2. CASE d = c
      <3>1. e # c /\ call'[e] = call[e]
        BY <1>1, <1>3, <2>2
      <3> QED
        BY <1>3, <2>2, <3>1 DEF OneWorkspace
    <2>3. CASE e = c
      <3>1. d # c /\ call'[d] = call[d]
        BY <1>1, <1>3, <2>3
      <3> QED
        BY <1>3, <2>3, <3>1 DEF OneWorkspace
    <2> QED
      BY <2>1, <2>2, <2>3
  <1>4. \A u \in Users : owned'[u] > 1 => u \in crowded'
    BY DEF OneWorkspace
  <1> QED
    BY <1>2, <1>3, <1>4 DEF OneWorkspace

LEMMA OneWorkspaceKept ==
  ASSUME AccountsIndInv, AccountsNext
  PROVE  OneWorkspace'
  <1>0. Shapes /\ NoRowNoTrace /\ OneWorkspace
    BY DEF AccountsIndInv
  <1>1. ASSUME NEW c \in Callers, Routine(c)
        PROVE  OneWorkspace'
    <2>1. Alone(c) /\ crowded' = crowded /\ owned' = owned
      BY <1>1 DEF Routine, workspaceVars
    <2>2. call'[c].does \in Early => call[c].does \in Early /\ call'[c].user = call[c].user
      BY <1>1 DEF Routine
    <2> QED
      BY <1>0, <2>1, <2>2, OneWorkspaceStays
  <1>2. ASSUME NEW c \in Callers, NEW u \in Users, InsertUser(c, u)
        PROVE  OneWorkspace'
    <2>1. IF Known = {} THEN Finds(c, "insert", "password", u) ELSE Concludes(c)
      BY <1>2, CallMoves
    <2>2. Alone(c) /\ crowded' = crowded /\ owned' = owned /\ ~ (owned[u] > 0) /\ email[u] = "none"
      BY <1>0, <2>1, <1>2 DEF Finds, Concludes, InsertUser, workspaceVars, pastVars, NoRowNoTrace
    <2>3. call'[c].does \in Early => call'[c].user = u
      BY <2>1 DEF Finds, Concludes, Early
    <2>4. \A d \in Callers : call[d].user # u
      BY <1>0, <2>2 DEF NoRowNoTrace
    <2> QED
      BY <1>0, <2>2, <2>3, <2>4, OneWorkspaceStays
  <1>3. ASSUME NEW c \in Callers, NEW u \in Users, InsertNew(c, u)
        PROVE  OneWorkspace'
    <2>1. IF Known = {} THEN Finds(c, "new", "mark", u) ELSE Concludes(c)
      BY <1>3, CallMoves
    <2>2. Alone(c) /\ crowded' = crowded /\ owned' = owned /\ ~ (owned[u] > 0) /\ email[u] = "none"
      BY <1>0, <2>1, <1>3 DEF Finds, Concludes, InsertNew, workspaceVars, pastVars, NoRowNoTrace
    <2>3. call'[c].does \in Early => call'[c].user = u
      BY <2>1 DEF Finds, Concludes, Early
    <2>4. \A d \in Callers : call[d].user # u
      BY <1>0, <2>2 DEF NoRowNoTrace
    <2> QED
      BY <1>0, <2>2, <2>3, <2>4, OneWorkspaceStays
  <1>4. ASSUME NEW c \in Callers, Found(c)
        PROVE  OneWorkspace'
    <2>1. Proceeds(c, "found", "own")
      BY <1>4, CallMoves
    <2>2. /\ Alone(c) /\ crowded' = crowded /\ owned' = owned
          /\ call[c].does \in Early /\ call'[c].user = call[c].user
      BY <2>1, <1>4 DEF Proceeds, Carries, Found, pastVars, Early
    <2> QED
      BY <1>0, <2>2, OneWorkspaceStays
  <1>5. ASSUME NEW c \in Callers, Own(c)
        PROVE  OneWorkspace'
    <2>1. Proceeds(c, "own", "trials")
      BY <1>5, CallMoves
    <2>2. PICK u \in Users : u = call[c].user
      BY <1>5, WhomItFinds DEF Own, At, Unnamed
    <2>3. /\ Alone(c) /\ call[c].does \in Early /\ call'[c].does \notin Early
          /\ owned' = [owned EXCEPT ![u] = @ + 1] /\ crowded' = crowded
      BY <2>1, <2>2, <1>5 DEF Proceeds, Carries, Own, At, Early, pastVars
    <2>4. owned'[u] = owned[u] + 1 /\ \A v \in Users \ {u} : owned'[v] = owned[v]
      BY <1>0, <2>3 DEF Shapes
    <2>5. \A d \in Callers \ {c} : call'[d] = call[d]
      BY <2>3 DEF Alone
    <2>6. owned[u] > 0 => u \in crowded
      BY <1>0, <2>2, <2>3 DEF OneWorkspace
    <2>7. \A d \in Callers \ {c} : call[d].user = u /\ call[d].does \in Early => u \in crowded
      BY <1>0, <2>2, <2>3 DEF OneWorkspace
    <2>8. ASSUME NEW v \in Users, owned'[v] > 1
          PROVE  v \in crowded'
      <3>1. CASE v = u
        <4>1. owned[u] > 0
          BY <1>0, <2>4, <2>8, <3>1 DEF Shapes
        <4> QED
          BY <2>3, <2>6, <3>1, <4>1
      <3>2. CASE v # u
        BY <1>0, <2>3, <2>4, <2>8, <3>2 DEF OneWorkspace
      <3> QED
        BY <3>1, <3>2
    <2>9. ASSUME NEW d \in Callers, call'[d].does \in Early, owned'[call'[d].user] > 0
          PROVE  call'[d].user \in crowded'
      <3>1. d # c /\ call'[d] = call[d]
        BY <2>3, <2>5, <2>9
      <3>2. PICK v \in Users : v = call[d].user
        BY <2>9, <3>1, WhomItFinds DEF Unnamed, Early
      <3>3. CASE v = u
        <4>1. d \in Callers \ {c} /\ call[d].does \in Early /\ call[d].user = u
          BY <2>9, <3>1, <3>2, <3>3
        <4>2. u \in crowded
          BY <2>7, <4>1
        <4> QED
          BY <2>3, <3>1, <4>1, <4>2
      <3>4. CASE v # u
        BY <1>0, <2>3, <2>4, <2>9, <3>1, <3>2, <3>4 DEF OneWorkspace
      <3> QED
        BY <3>3, <3>4
    <2>10. ASSUME NEW d \in Callers, NEW e \in Callers, d # e, call'[d].does \in Early,
                  call'[e].does \in Early, call'[d].user = call'[e].user
           PROVE  call'[d].user \in crowded'
      <3>1. d # c /\ e # c /\ call'[d] = call[d] /\ call'[e] = call[e]
        BY <2>3, <2>5, <2>10
      <3> QED
        BY <1>0, <2>3, <2>10, <3>1 DEF OneWorkspace
    <2> QED
      BY <2>8, <2>9, <2>10 DEF OneWorkspace
  <1>6. ASSUME NEW c \in Callers, StartTrial(c)
        PROVE  OneWorkspace'
    <2>1. Carries(c, "trials", "trials", Tail(call[c].left)) /\ call[c].left # <<>>
      BY <1>6, CallMoves
    <2>2. Alone(c) /\ crowded' = crowded /\ owned' = owned /\ call'[c].does \notin Early
      BY <2>1, <1>6 DEF Carries, StartTrial, Early, userVars, workspaceVars, pastVars
    <2> QED
      BY <1>0, <2>2, OneWorkspaceStays
  <1>7. ASSUME NEW c \in Callers, EndCreation(c)
        PROVE  OneWorkspace'
    <2>1. Concludes(c)
      BY <1>7, CallMoves
    <2>2. Alone(c) /\ crowded' = crowded /\ owned' = owned /\ call'[c].does \notin Early
      BY <2>1, <1>7 DEF Concludes, EndCreation, Early, userVars, workspaceVars, pastVars
    <2> QED
      BY <1>0, <2>2, OneWorkspaceStays
  <1>8. ASSUME NEW c \in Callers, RequestDies(c)
        PROVE  OneWorkspace'
    <2>1. Concludes(c)
      BY <1>8, CallMoves
    <2>2. Alone(c) /\ crowded' = crowded /\ owned' = owned /\ call'[c].does \notin Early
      BY <2>1, <1>8 DEF Concludes, RequestDies, Early, userVars, workspaceVars, pastVars
    <2> QED
      BY <1>0, <2>2, OneWorkspaceStays
  <1>9. ASSUME NEW c \in Callers, List(c)
        PROVE  OneWorkspace'
    <2>1. Concludes(c) \/ Proceeds(c, "list", "blank")
      BY <1>9, CallMoves
    <2>2. PICK u \in Users : u = call[c].user
      BY <1>9, WhomItFinds DEF List, At, Unnamed
    <2>3. /\ Alone(c) /\ owned' = owned /\ crowded \subseteq crowded'
          /\ call'[c].does \in Early => call'[c].user = u
      BY <2>1, <2>2, <1>9 DEF Concludes, Proceeds, Carries, List, Early, userVars, workspaceVars
    <2>4. call'[c].does \in Early =>
            ~ (owned[u] > 0) /\ (Creating(u) = {} \/ u \in crowded')
      <3>1. CASE owned[u] > 0
        <4>1. call' = [call EXCEPT ![c] = NoCall]
          BY <2>2, <3>1, <1>9 DEF List, Leaves
        <4>2. call'[c].does = "nothing"
          BY <1>0, <4>1 DEF Shapes, NoCall
        <4> QED
          BY <4>2 DEF Early
      <3>2. CASE ~ (owned[u] > 0)
        BY <2>2, <3>2, <1>9 DEF List
      <3> QED
        BY <3>1, <3>2
    <2>5. \A d \in Callers : call[d].does \in Early /\ call[d].user = u => d \in Creating(u)
      BY DEF Creating, Early
    <2> QED
      BY <1>0, <2>3, <2>4, <2>5, OneWorkspaceStays
  <1>10. ASSUME NEW u \in Users, Confirm(u) \/ Backfill(u)
        PROVE  OneWorkspace'
    BY <1>0, <1>10 DEF Confirm, Backfill, OneWorkspace, workspaceVars, pastVars
  <1>11. BeginFlow => OneWorkspace'
    BY <1>0 DEF BeginFlow, OneWorkspace, userVars, workspaceVars, pastVars
  <1> QED
    BY <1>1, <1>2, <1>3, <1>4, <1>5, <1>6, <1>7, <1>8, <1>9, <1>10, <1>11, AccountCases,
       RoutineMoves DEF RequestSteps, Quiet

\* Where no request comes to owning or leaves it.
LEMMA FoundersStay ==
  ASSUME FoundersOwn, NEW c \in Callers, Alone(c), founded' = founded, owned' = owned,
         broken \subseteq broken', call'[c].does # "own",
         \A u \in Users : At(c, "own") /\ call[c].user = u => u \in broken'
  PROVE  FoundersOwn'
  <1>1. \A d \in Callers \ {c} : call'[d] = call[d]
    BY DEF Alone
  <1>2. ASSUME NEW u \in Users, u \notin broken'
        PROVE  Owning(u)' = Owning(u)
    BY <1>1, <1>2 DEF Owning, At
  <1> QED
    BY <1>2 DEF FoundersOwn

LEMMA OwningIsFinite == \A u \in Users : IsFiniteSet(Owning(u)) /\ Cardinality(Owning(u)) \in Nat
  <1>1. \A u \in Users : Owning(u) \subseteq Callers
    BY DEF Owning
  <1> QED
    BY <1>1, AccountsAssumption, FS_Subset, FS_CardinalityType

LEMMA FoundersOwnKept ==
  ASSUME AccountsIndInv, AccountsNext
  PROVE  FoundersOwn'
  <1>0. Shapes /\ FoundersOwn
    BY DEF AccountsIndInv
  <1>1. ASSUME NEW c \in Callers, Routine(c)
        PROVE  FoundersOwn'
    <2>1. /\ Alone(c) /\ broken' = broken /\ founded' = founded /\ owned' = owned
          /\ call'[c].does # "own" /\ ~ At(c, "own")
      BY <1>1 DEF Routine, workspaceVars, Early, At
    <2> QED
      BY <1>0, <2>1, FoundersStay
  <1>2. ASSUME NEW c \in Callers, NEW u \in Users, InsertUser(c, u)
        PROVE  FoundersOwn'
    <2>1. IF Known = {} THEN Finds(c, "insert", "password", u) ELSE Concludes(c)
      BY <1>2, CallMoves
    <2>2. /\ Alone(c) /\ broken' = broken /\ founded' = founded /\ owned' = owned
          /\ call'[c].does # "own" /\ ~ At(c, "own")
      BY <2>1, <1>2 DEF Finds, Concludes, InsertUser, At, userVars, workspaceVars, pastVars
    <2> QED
      BY <1>0, <2>2, FoundersStay
  <1>3. ASSUME NEW c \in Callers, NEW u \in Users, InsertNew(c, u)
        PROVE  FoundersOwn'
    <2>1. IF Known = {} THEN Finds(c, "new", "mark", u) ELSE Concludes(c)
      BY <1>3, CallMoves
    <2>2. /\ Alone(c) /\ broken' = broken /\ founded' = founded /\ owned' = owned
          /\ call'[c].does # "own" /\ ~ At(c, "own")
      BY <2>1, <1>3 DEF Finds, Concludes, InsertNew, At, userVars, workspaceVars, pastVars
    <2> QED
      BY <1>0, <2>2, FoundersStay
  <1>4. ASSUME NEW c \in Callers, StartTrial(c)
        PROVE  FoundersOwn'
    <2>1. Carries(c, "trials", "trials", Tail(call[c].left)) /\ call[c].left # <<>>
      BY <1>4, CallMoves
    <2>2. /\ Alone(c) /\ broken' = broken /\ founded' = founded /\ owned' = owned
          /\ call'[c].does # "own" /\ ~ At(c, "own")
      BY <2>1, <1>4 DEF Carries, StartTrial, At, userVars, workspaceVars, pastVars
    <2> QED
      BY <1>0, <2>2, FoundersStay
  <1>5. ASSUME NEW c \in Callers, EndCreation(c)
        PROVE  FoundersOwn'
    <2>1. Concludes(c)
      BY <1>5, CallMoves
    <2>2. /\ Alone(c) /\ broken' = broken /\ founded' = founded /\ owned' = owned
          /\ call'[c].does # "own" /\ ~ At(c, "own")
      BY <2>1, <1>5 DEF Concludes, EndCreation, At, userVars, workspaceVars, pastVars
    <2> QED
      BY <1>0, <2>2, FoundersStay
  <1>6. ASSUME NEW c \in Callers, List(c)
        PROVE  FoundersOwn'
    <2>1. Concludes(c) \/ Proceeds(c, "list", "blank")
      BY <1>6, CallMoves
    <2>2. /\ Alone(c) /\ broken' = broken /\ founded' = founded /\ owned' = owned
          /\ call'[c].does # "own" /\ ~ At(c, "own")
      BY <2>1, <1>6 DEF Proceeds, Concludes, Carries, List, At, userVars, workspaceVars, pastVars
    <2> QED
      BY <1>0, <2>2, FoundersStay
  <1>7. ASSUME NEW c \in Callers, Found(c)
        PROVE  FoundersOwn'
    <2>1. Proceeds(c, "found", "own")
      BY <1>7, CallMoves
    <2>2. PICK u \in Users : u = call[c].user
      BY <1>7, WhomItFinds DEF Found, At, Unnamed
    <2>3. /\ Alone(c) /\ broken' = broken /\ owned' = owned /\ founded' = [founded EXCEPT ![u] = @ + 1]
          /\ call[c].does = "found" /\ call'[c].does = "own" /\ call'[c].user = u
      BY <2>1, <2>2, <1>7 DEF Proceeds, Carries, Found, pastVars
    <2>4. Owning(u)' = Owning(u) \cup {c} /\ c \notin Owning(u)
      BY <2>2, <2>3 DEF Owning, At, Alone
    <2>5. \A v \in Users \ {u} : Owning(v)' = Owning(v)
      BY <2>2, <2>3 DEF Owning, At, Alone
    <2>6. Cardinality(Owning(u)') = Cardinality(Owning(u)) + 1 /\ Cardinality(Owning(u)) \in Nat
      BY <2>4, OwningIsFinite, FS_AddElement
    <2>7. /\ founded'[u] = founded[u] + 1 /\ \A v \in Users \ {u} : founded'[v] = founded[v]
          /\ \A v \in Users : founded[v] \in Nat /\ owned[v] \in Nat
      BY <1>0, <2>3 DEF Shapes
    <2>8. u \notin broken => founded'[u] = owned'[u] + Cardinality(Owning(u)')
      BY <1>0, <2>3, <2>6, <2>7 DEF FoundersOwn
    <2>9. \A v \in Users \ {u} : v \notin broken => founded'[v] = owned'[v] + Cardinality(Owning(v)')
      BY <1>0, <2>3, <2>5, <2>7 DEF FoundersOwn
    <2> QED
      BY <2>3, <2>8, <2>9 DEF FoundersOwn
  <1>8. ASSUME NEW c \in Callers, Own(c)
        PROVE  FoundersOwn'
    <2>1. Proceeds(c, "own", "trials")
      BY <1>8, CallMoves
    <2>2. PICK u \in Users : u = call[c].user
      BY <1>8, WhomItFinds DEF Own, At, Unnamed
    <2>3. /\ Alone(c) /\ broken' = broken /\ founded' = founded /\ owned' = [owned EXCEPT ![u] = @ + 1]
          /\ call[c].does = "own" /\ call'[c].does = "trials"
      BY <2>1, <2>2, <1>8 DEF Proceeds, Carries, Own, pastVars
    <2>4. Owning(u)' = Owning(u) \ {c} /\ c \in Owning(u)
      BY <2>2, <2>3 DEF Owning, At, Alone
    <2>5. \A v \in Users \ {u} : Owning(v)' = Owning(v)
      BY <2>2, <2>3 DEF Owning, At, Alone
    <2>6. Cardinality(Owning(u)') = Cardinality(Owning(u)) - 1 /\ Cardinality(Owning(u)) \in Nat
      BY <2>4, OwningIsFinite, FS_RemoveElement
    <2>7. /\ owned'[u] = owned[u] + 1 /\ \A v \in Users \ {u} : owned'[v] = owned[v]
          /\ \A v \in Users : founded[v] \in Nat /\ owned[v] \in Nat
      BY <1>0, <2>3 DEF Shapes
    <2>8. u \notin broken => founded'[u] = owned'[u] + Cardinality(Owning(u)')
      BY <1>0, <2>3, <2>6, <2>7 DEF FoundersOwn
    <2>9. \A v \in Users \ {u} : v \notin broken => founded'[v] = owned'[v] + Cardinality(Owning(v)')
      BY <1>0, <2>3, <2>5, <2>7 DEF FoundersOwn
    <2> QED
      BY <2>3, <2>8, <2>9 DEF FoundersOwn
  <1>9. ASSUME NEW c \in Callers, RequestDies(c)
        PROVE  FoundersOwn'
    <2>1. Concludes(c)
      BY <1>9, CallMoves
    <2>2. /\ Alone(c) /\ founded' = founded /\ owned' = owned /\ call'[c].does = "nothing"
          /\ broken' = broken \cup {u \in Users : c \in Creating(u)}
      BY <2>1, <1>9 DEF Concludes, RequestDies, userVars, workspaceVars
    <2>3. \A u \in Users : At(c, "own") /\ call[c].user = u => u \in broken'
      BY <2>2 DEF Creating, At
    <2> QED
      BY <1>0, <2>2, <2>3, FoundersStay
  <1>10. ASSUME NEW u \in Users, Confirm(u) \/ Backfill(u)
        PROVE  FoundersOwn'
    BY <1>0, <1>10 DEF Confirm, Backfill, FoundersOwn, Owning, At, workspaceVars, pastVars
  <1>11. BeginFlow => FoundersOwn'
    BY <1>0 DEF BeginFlow, FoundersOwn, Owning, At, userVars, workspaceVars, pastVars
  <1> QED
    BY <1>1, <1>2, <1>3, <1>4, <1>5, <1>6, <1>7, <1>8, <1>9, <1>10, <1>11, AccountCases,
       RoutineMoves DEF RequestSteps, Quiet

-----------------------------------------------------------------------------
LEMMA AccountsInductive == AccountsIndInv /\ [AccountsNext]_accountVars => AccountsIndInv'
  <1>1. ASSUME AccountsIndInv, AccountsNext PROVE AccountsIndInv'
    BY <1>1, ShapesKept, OfWhomKept, NoRowNoTraceKept, ImpostorLockedKept, ImpostorOutKept,
       WorkspaceGivenKept, OneWorkspaceKept, FoundersOwnKept
       DEF AccountsIndInv
  <1>2. ASSUME AccountsIndInv, UNCHANGED accountVars PROVE AccountsIndInv'
    BY <1>2 DEF AccountsIndInv, Shapes, OfWhom, NoRowNoTrace, ImpostorLocked, ImpostorOut, Taken,
                WorkspaceGiven, OneWorkspace, FoundersOwn, Owning, Claimed, Creators, At,
                accountVars, userVars, workspaceVars, flowVars, pastVars
  <1> QED
    BY <1>1, <1>2

\* "The impostor is locked out; the owner keeps the data" (auth_service.py:206),
\* for any users, requests, trials and deaths between two statements, with two
\* exceptions that the code has: an account may have the other person's password
\* on a proved address, or a session of theirs, if a sign-up set its password
\* after the owner's proof, or while a reset that verified the address under
\* that password (auth.py:262) has not replaced it (266) and revoked (269),
\* because it is at work, died, or a login overtook its revocation.  Who is
\* signed in has a workspace with every trial, and every workspace an owner, or
\* its creation died or is under way; and nobody owns two workspaces unless two
\* requests provisioned at once.
THEOREM OwnerPrevails == AccountsSpec => []OwnersAccount
  <1> QED
    BY AccountsInitially, AccountsInductive, OwnersAccountFollows, PTL DEF AccountsSpec

-----------------------------------------------------------------------------
\* The versions, those about to be inserted, the active ones, and the clean one.
Numbered ==
  /\ IsFiniteSet(versions) /\ versions = 1 .. Cardinality(versions)
  /\ \A c \in Editors :
       editor[c].at = "insert" => editor[c].version \in 1 .. Cardinality(versions) + 1

ActiveAreCounted ==
  /\ active \subseteq versions
  /\ Cardinality(active) + Cardinality(Activating) <= abreast

CleanIsHeld ==
  clean # 0 =>
    /\ clean \in versions
    /\ \/ Activating = {} /\ active = {clean}
       \/ active = {} /\ \E c \in Editors : Activating = {c} /\ editor[c].version = clean

\* The inductive invariant of PromptRegistry: an activation between its statements
\* is counted already, and the clean one is still to come or is what is active.
PromptIndInv ==
  /\ editor \in [Editors -> [at : {"rest", "insert", "activate"}, version : Nat]]
  /\ abreast \in Nat /\ clean \in Nat /\ prompt \in versions \cup {-1, 0}
  /\ Numbered /\ ActiveAreCounted /\ CleanIsHeld

LEMMA ActivatingIsFinite == IsFiniteSet(Activating) /\ Cardinality(Activating) \in Nat
  BY PartIsSmaller, PromptAssumption DEF Activating

LEMMA PromptsFollow == PromptIndInv => PromptsHoldTogether
  <1> SUFFICES ASSUME PromptIndInv PROVE PromptsHoldTogether
    OBVIOUS
  <1>1. Cardinality(active) \in Nat /\ Cardinality(Activating) \in Nat
    BY PartIsSmaller, ActivatingIsFinite DEF PromptIndInv, Numbered, ActiveAreCounted
  <1>2. Cardinality(active) <= abreast
    BY <1>1 DEF PromptIndInv, ActiveAreCounted
  <1>3. Activating = {} /\ clean # 0 => active = {clean}
    BY DEF PromptIndInv, CleanIsHeld
  <1> QED
    BY <1>2, <1>3 DEF PromptsHoldTogether, PromptIndInv, Numbered, ActiveAreCounted

LEMMA PromptsInitially == PromptInit => PromptIndInv
  <1> SUFFICES ASSUME PromptInit PROVE PromptIndInv
    OBVIOUS
  <1>1. Cardinality({}) = 0 /\ IsFiniteSet({})
    BY FS_EmptySet
  <1>2. Activating = {}
    BY DEF PromptInit, Activating, Resting
  <1>3. versions = 1 .. Cardinality(versions)
    BY <1>1 DEF PromptInit
  <1> QED
    BY <1>1, <1>2, <1>3
    DEF PromptInit, PromptIndInv, Numbered, ActiveAreCounted, CleanIsHeld, Resting

\* add_version numbers one beyond the highest.
LEMMA NextVersion ==
  ASSUME PromptIndInv, NEW c \in Editors, ReadNext(c)
  PROVE  editor' = [editor EXCEPT ![c] =
                      [at |-> "insert", version |-> Cardinality(versions) + 1]]
  <1> DEFINE n == Cardinality(versions)
             top == CHOOSE m \in versions \cup {0} : \A k \in versions : k <= m
  <1>1. n \in Nat /\ versions = 1 .. n
    BY FS_CardinalityType DEF PromptIndInv, Numbered
  <1> HIDE DEF n
  <1>2. \E m \in versions \cup {0} : \A k \in versions : k <= m
    <2>1. n \in versions \cup {0} /\ \A k \in versions : k <= n
      BY <1>1
    <2> QED
      BY <2>1
  <1>3. top \in versions \cup {0} /\ \A k \in versions : k <= top
    BY <1>2
  <1> HIDE DEF top
  <1>4. top = n
    BY <1>1, <1>3
  <1>5. editor' = [editor EXCEPT ![c] = [at |-> "insert", version |-> 1 + top]]
    BY DEF ReadNext, top
  <1>6. 1 + top = n + 1
    BY <1>4, <1>1
  <1> QED
    BY <1>5, <1>6 DEF n

\* The INSERT adds the next version, or one that is there.
LEMMA VersionsGrow ==
  ASSUME PromptIndInv, NEW c \in Editors, InsertVersion(c)
  PROVE  /\ Cardinality(versions) \in Nat /\ Cardinality(versions)' \in Nat
         /\ IsFiniteSet(versions') /\ Cardinality(versions) <= Cardinality(versions)'
         /\ versions' = 1 .. Cardinality(versions)'
         /\ versions \subseteq versions'
  <1> DEFINE n == Cardinality(versions)
             v == editor[c].version
  <1>1. n \in Nat /\ versions = 1 .. n /\ v \in 1 .. n + 1 /\ versions' = versions \cup {v}
    BY FS_CardinalityType DEF PromptIndInv, Numbered, InsertVersion
  <1> HIDE DEF n, v
  <1>2. CASE v \in 1 .. n
    <2>1. versions' = versions
      BY <1>1, <1>2
    <2> QED
      BY <2>1, <1>1 DEF n, PromptIndInv, Numbered
  <1>3. CASE v = n + 1
    <2>1. versions' = 1 .. n + 1
      BY <1>1, <1>3
    <2>2. /\ IsFiniteSet(1 .. n + 1) 
          /\ Cardinality(1 .. n + 1) = IF 1 > n + 1 THEN 0 ELSE (n + 1) - 1 + 1
      BY <1>1, FS_Interval
    <2>3. Cardinality(1 .. n + 1) = n + 1
      BY <2>2, <1>1
    <2> QED
      BY <2>1, <2>2, <2>3, <1>1 DEF n
  <1>4. v \in 1 .. n \/ v = n + 1
    BY <1>1
  <1> QED
    BY <1>2, <1>3, <1>4

LEMMA PromptStep == PromptIndInv /\ [PromptNext]_promptVars => PromptIndInv'
  <1> SUFFICES ASSUME PromptIndInv, [PromptNext]_promptVars PROVE PromptIndInv'
    OBVIOUS
  <1> DEFINE N == Cardinality(versions)
  <1>a. /\ IsFiniteSet(versions) /\ N \in Nat /\ IsFiniteSet(active) /\ Cardinality(active) \in Nat
        /\ IsFiniteSet(Activating) /\ Cardinality(Activating) \in Nat
    BY PartIsSmaller, ActivatingIsFinite, FS_CardinalityType
    DEF PromptIndInv, Numbered, ActiveAreCounted
  <1> USE DEF PromptIndInv
  <1>1. CASE UNCHANGED promptVars
    BY <1>1 DEF promptVars, Numbered, ActiveAreCounted, CleanIsHeld, Activating
  <1>2. CASE SendPrompt
    <2>1. Activating' = Activating
      BY <1>2 DEF SendPrompt, Activating
    <2>2. prompt' \in versions' \cup {-1, 0}
      BY <1>2 DEF SendPrompt, ActiveAreCounted
    <2> QED
      BY <1>2, <2>1, <2>2 DEF SendPrompt, Numbered, ActiveAreCounted, CleanIsHeld
  <1>3. ASSUME NEW c \in Editors, ReadNext(c) PROVE PromptIndInv'
    <2>1. editor' = [editor EXCEPT ![c] = [at |-> "insert", version |-> N + 1]]
      BY <1>3, NextVersion
    <2>2. /\ editor[c].at = "rest" /\ UNCHANGED <<versions, active, prompt, abreast, clean>>
      BY <1>3 DEF ReadNext
    <2>3. Activating' = Activating
      BY <2>1, <2>2 DEF Activating
    <2>4. N + 1 \in 1 .. N + 1 /\ N + 1 \in Nat
      BY <1>a
    <2> HIDE DEF N
    <2>5. editor' \in [Editors -> [at : {"rest", "insert", "activate"}, version : Nat]]
      BY <2>1, <2>4
    <2>6. Numbered'
      <3>1. \A b \in Editors : b # c => editor'[b] = editor[b]
        BY <2>1
      <3>2. editor'[c].version = N + 1
        BY <2>1
      <3> QED
        BY <2>2, <2>4, <3>1, <3>2 DEF Numbered, N
    <2>7. CleanIsHeld'
      BY <2>1, <2>2, <2>3 DEF CleanIsHeld, Activating
    <2> QED
      BY <2>2, <2>3, <2>5, <2>6, <2>7 DEF ActiveAreCounted
  <1>4. ASSUME NEW c \in Editors, InsertVersion(c) PROVE PromptIndInv'
    <2>1. /\ editor[c].at = "insert" /\ UNCHANGED <<active, prompt, abreast, clean>>
          /\ editor' = [editor EXCEPT ![c] = Resting]
      BY <1>4 DEF InsertVersion
    <2>2. Activating' = Activating
      BY <2>1 DEF Activating, Resting
    <2>3. editor' \in [Editors -> [at : {"rest", "insert", "activate"}, version : Nat]]
      BY <2>1 DEF Resting
    <2>4. /\ N' \in Nat /\ N <= N' /\ IsFiniteSet(versions') /\ versions' = 1 .. N'
          /\ versions \subseteq versions'
      BY <1>4, VersionsGrow
    <2>5. Numbered'
      <3>1. ASSUME NEW b \in Editors, editor'[b].at = "insert"
            PROVE  editor'[b].version \in 1 .. N' + 1
        <4>1. b # c /\ editor'[b] = editor[b]
          BY <2>1, <3>1 DEF Resting
        <4>2. editor[b].version \in 1 .. N + 1
          BY <3>1, <4>1 DEF Numbered
        <4> QED
          BY <4>1, <4>2, <2>4, <1>a
      <3> QED
        BY <2>4, <3>1 DEF Numbered
    <2>6. CleanIsHeld'
      BY <2>1, <2>2, <2>4 DEF CleanIsHeld, Activating, Resting
    <2> QED
      BY <2>1, <2>2, <2>3, <2>4, <2>5, <2>6 DEF ActiveAreCounted
  <1>5. ASSUME NEW c \in Editors, NEW v \in 1 .. VersionMax, Deactivate(c, v) PROVE PromptIndInv'
    <2>1. /\ editor[c].at = "rest" /\ active' = {} /\ UNCHANGED <<versions, prompt>>
          /\ editor' = [editor EXCEPT ![c] = [at |-> "activate", version |-> v]]
          /\ abreast' = Cardinality(Activating) + 1
          /\ clean' = IF Activating = {} /\ v \in versions THEN v ELSE 0
      BY <1>5 DEF Deactivate
    <2>2. Activating' = Activating \cup {c}
      BY <2>1 DEF Activating
    <2>3. Cardinality(Activating') <= Cardinality(Activating) + 1 /\ Cardinality(Activating') \in Nat
      BY <2>2, <1>a, OneMoreAtMost, ActivatingIsFinite, PromptAssumption DEF Activating
    <2>4. Cardinality(active') = 0
      BY <2>1, FS_EmptySet
    <2>5. v \in Nat
      BY PromptAssumption
    <2>6. editor' \in [Editors -> [at : {"rest", "insert", "activate"}, version : Nat]]
      BY <2>1, <2>5
    <2>7. Numbered'
      BY <2>1 DEF Numbered
    <2>8. ActiveAreCounted'
      <3>1. Cardinality(active') + Cardinality(Activating') <= abreast'
        BY <2>1, <2>3, <2>4, <1>a
      <3> QED
        BY <3>1, <2>1 DEF ActiveAreCounted
    <2>9. CleanIsHeld'
      BY <2>1, <2>2 DEF CleanIsHeld
    <2> QED
      BY <1>a, <2>1, <2>5, <2>6, <2>7, <2>8, <2>9
  <1>6. ASSUME NEW c \in Editors, Activate(c) PROVE PromptIndInv'
    <2>1. /\ editor[c].at = "activate" /\ UNCHANGED <<versions, prompt, abreast, clean>>
          /\ editor' = [editor EXCEPT ![c] = Resting]
          /\ active' = active \cup (versions \cap {editor[c].version})
      BY <1>6 DEF Activate
    <2>2. Activating' = Activating \ {c} /\ c \in Activating
      BY <2>1 DEF Activating, Resting
    <2>3. Cardinality(Activating') + 1 <= Cardinality(Activating) /\ Cardinality(Activating') \in Nat
      BY <2>2, <1>a, OneFewer
    <2>4. Cardinality(active') <= Cardinality(active) + 1 /\ Cardinality(active') \in Nat
      <3>1. active' \subseteq active \cup {editor[c].version}
        BY <2>1
      <3> QED
        BY <3>1, <1>a, OneMoreAtMost
    <2>5. editor' \in [Editors -> [at : {"rest", "insert", "activate"}, version : Nat]]
      BY <2>1 DEF Resting
    <2>6. Numbered'
      BY <2>1 DEF Numbered, Resting
    <2>7. ActiveAreCounted'
      <3>1. Cardinality(active') + Cardinality(Activating') <= abreast'
        BY <2>1, <2>3, <2>4, <1>a DEF ActiveAreCounted
      <3> QED
        BY <3>1, <2>1 DEF ActiveAreCounted
    <2>8. CleanIsHeld'
      <3> SUFFICES ASSUME clean # 0
                   PROVE  clean \in versions /\ Activating' = {} /\ active' = {clean}
        BY <2>1 DEF CleanIsHeld
      <3>1. active = {} /\ Activating = {c} /\ editor[c].version = clean /\ clean \in versions
        BY <2>2 DEF CleanIsHeld
      <3> QED
        BY <3>1, <2>1, <2>2
    <2> QED
      BY <2>1, <2>5, <2>6, <2>7, <2>8
  <1>7. ASSUME NEW c \in Editors, EditorDies(c) PROVE PromptIndInv'
    <2>1. /\ editor[c].at # "rest" /\ UNCHANGED <<versions, active, prompt, abreast>>
          /\ editor' = [editor EXCEPT ![c] = Resting]
          /\ clean' = IF editor[c].at = "activate" THEN 0 ELSE clean
      BY <1>7 DEF EditorDies
    <2>2. Activating' \subseteq Activating
      BY <2>1 DEF Activating, Resting
    <2>3. Cardinality(Activating') <= Cardinality(Activating) /\ Cardinality(Activating') \in Nat
      BY <2>2, <1>a, PartIsSmaller
    <2>4. editor' \in [Editors -> [at : {"rest", "insert", "activate"}, version : Nat]]
      BY <2>1 DEF Resting
    <2>5. Numbered'
      BY <2>1 DEF Numbered, Resting
    <2>6. ActiveAreCounted'
      <3>1. Cardinality(active') + Cardinality(Activating') <= abreast'
        BY <2>1, <2>3, <1>a DEF ActiveAreCounted
      <3> QED
        BY <3>1, <2>1 DEF ActiveAreCounted
    <2>7. CleanIsHeld'
      BY <2>1 DEF CleanIsHeld, Activating, Resting
    <2> QED
      BY <2>1, <2>4, <2>5, <2>6, <2>7
  <1> QED
    BY <1>1, <1>2, <1>3, <1>4, <1>5, <1>6, <1>7 DEF PromptNext

-----------------------------------------------------------------------------
\* Where a request is that refreshes, and why a correction may not hold.
Refreshing == {"cache", "row", "fill", "end"}

Reasons == {"filled", "unhandled", "underway", "young", "failed"}

\* Types of RuntimeConfig.
ConfigShapes ==
  /\ now \in 0 .. TimeMax /\ stored \in Storable /\ cachedRow \in Storable \cup {Absent}
  /\ expires \in Nat
  /\ effective \in [Instances -> (Values \ Bad) \cup {Env}]
  /\ client \in [Instances -> (Values \ Bad) \cup {Env, Absent}]
  /\ resolvedAt \in [Instances -> Nat]
  /\ visit \in [Visits -> [at : Refreshing \cup {"away", "served"},
                           got : Storable \cup {Absent}, since : Nat]]
  /\ edit \in {NoEdit} \cup [at : {"drop", "reset"}, on : Instances]
  /\ lastTrue \in [Values \cup {Env} -> Nat]
  /\ blind \in [Instances -> BOOLEAN] /\ settled \in [Instances -> BOOLEAN]
  /\ muddied \in [Instances -> SUBSET Reasons]

\* A refresh lasts Slowest at most, and holds what was true shortly before it began.
VisitIsYoung(r) ==
  visit[r].at \in Refreshing =>
    /\ visit[r].since <= now /\ now <= visit[r].since + Slowest
    /\ visit[r].at \in {"fill", "end"} => visit[r].got \in Storable
    /\ visit[r].at = "fill" => visit[r].since <= lastTrue[Effective(visit[r].got)]
    /\ visit[r].at = "end" =>
         visit[r].since + 1 <= lastTrue[Effective(visit[r].got)] + CacheTtl + Slowest

SnapshotIsYoung(i) ==
  resolvedAt[i] # 0 /\ ~blind[i] =>
    resolvedAt[i] + 1 <= lastTrue[effective[i]] + CacheTtl + Slowest

Ages ==
  /\ lastTrue[Effective(stored)] = now
  /\ \A v \in Values \cup {Env} : lastTrue[v] <= now
  /\ cachedRow # Absent => expires <= lastTrue[Effective(cachedRow)] + CacheTtl + Slowest
  /\ \A r \in Visits : VisitIsYoung(r)
  /\ \A i \in Instances : SnapshotIsYoung(i)

\* An instance that handled the last edit, and one that is about to have.
Corrected(i) == settled[i] /\ muddied[i] = {}
Correcting(i) == edit.at = "reset" /\ edit.on = i /\ muddied[i] = {}

OneEditAtATime == edit # NoEdit => \A i \in Instances : ~settled[i]

\* Behind an edit that was handled no refresh puts the old value back.
CacheIsCurrent ==
  (\E i \in Instances : Corrected(i) \/ Correcting(i)) =>
    /\ cachedRow \in {Absent, stored}
    /\ \A r \in Visits : visit[r].at = "fill" => visit[r].got = stored

\* An instance that was corrected serves no request from its old snapshot.
InstanceIsCurrent ==
  \A i \in Instances : Corrected(i) =>
    /\ client[i] \in {Absent, Effective(stored)}
    /\ \A r \in Visits : Home[r] = i /\ visit[r].at = "end" => visit[r].got = stored
    /\ \/ effective[i] = Effective(stored)
       \/ /\ resolvedAt[i] = 0 /\ RefreshTime <= now
          /\ \A r \in Visits : Home[r] = i => visit[r].at # "served"

\* The inductive invariant of RuntimeConfig.
ConfigIndInv ==
  /\ ConfigShapes /\ Ages /\ OneEditAtATime /\ CacheIsCurrent /\ InstanceIsCurrent

LEMMA EffectiveIsAllowed ==
  ASSUME NEW value
  PROVE  Effective(value) \in (Values \ Bad) \cup {Env} /\ Effective(value) \in Values \cup {Env}
  BY DEF Effective

LEMMA ConfigFollows == ConfigIndInv /\ PromptsHoldTogether => EditsTakeEffect
  <1> SUFFICES ASSUME ConfigIndInv, PromptsHoldTogether PROVE EditsTakeEffect
    OBVIOUS
  <1> USE DEF ConfigIndInv
  <1>1. ConfigTypeOK
    BY DEF ConfigShapes, ConfigTypeOK, Refreshing, NoEdit
  <1>2. ASSUME NEW i \in Instances, Trusts(i)
        PROVE  now - lastTrue[effective[i]] <= (CacheTtl - 1) + (RefreshTime - 1) + Slowest
    <2>1. SnapshotIsYoung(i)
      BY DEF Ages
    <2>2. /\ now \in Nat /\ resolvedAt[i] \in Nat /\ lastTrue[effective[i]] \in Nat
          /\ CacheTtl \in Nat /\ RefreshTime \in Nat /\ Slowest \in Nat
      BY ConfigAssumption DEF ConfigShapes
    <2>3. /\ resolvedAt[i] + 1 <= lastTrue[effective[i]] + CacheTtl + Slowest
          /\ now - resolvedAt[i] < RefreshTime
      BY <1>2, <2>1 DEF SnapshotIsYoung, Trusts
    <2> QED
      BY <2>2, <2>3
  <1>3. ASSUME NEW i \in Instances, settled[i], muddied[i] = {}
        PROVE  client[i] \in {Absent, Effective(stored)}
    BY <1>3 DEF InstanceIsCurrent, Corrected
  <1> QED
    BY <1>1, <1>2, <1>3 DEF EditsTakeEffect

LEMMA ConfigInitially == ConfigInit => ConfigIndInv
  <1> SUFFICES ASSUME ConfigInit PROVE ConfigIndInv
    OBVIOUS
  <1>1. ConfigShapes
    BY ConfigAssumption DEF ConfigInit, ConfigShapes, Storable, Away, NoEdit, Refreshing
  <1>2. Ages
    <2>1. lastTrue[Effective(stored)] = 0
      BY EffectiveIsAllowed DEF ConfigInit
    <2>2. \A r \in Visits : VisitIsYoung(r)
      BY DEF ConfigInit, VisitIsYoung, Away, Refreshing
    <2>3. \A i \in Instances : SnapshotIsYoung(i)
      BY DEF ConfigInit, SnapshotIsYoung
    <2> QED
      BY <2>1, <2>2, <2>3 DEF ConfigInit, Ages
  <1>3. \A i \in Instances : ~Corrected(i) /\ ~Correcting(i)
    BY DEF ConfigInit, Corrected, Correcting, NoEdit
  <1>4. OneEditAtATime
    BY DEF ConfigInit, OneEditAtATime
  <1> QED
    BY <1>1, <1>2, <1>3, <1>4 DEF ConfigIndInv, CacheIsCurrent, InstanceIsCurrent

-----------------------------------------------------------------------------
\* What a step of a request does to the requests: only its own moves.
LEMMA OneVisitMoves ==
  ASSUME ConfigShapes, NEW r \in Visits, NEW moved, visit' = [visit EXCEPT ![r] = moved]
  PROVE  visit'[r] = moved /\ \A q \in Visits : q # r => visit'[q] = visit[q]
  BY DEF ConfigShapes

\* Time and edits make no setting older than it was.
LEMMA SettingsAge ==
  ASSUME ConfigShapes, Ages, [ConfigNext]_configVars
  PROVE  /\ lastTrue' \in [Values \cup {Env} -> Nat] /\ now' \in 0 .. TimeMax
         /\ \A v \in Values \cup {Env} : lastTrue[v] <= lastTrue'[v] /\ lastTrue'[v] <= now'
         /\ lastTrue'[Effective(stored')] = now'
  <1>t. now \in Nat /\ TimeMax \in Nat /\ now <= TimeMax
    BY ConfigAssumption DEF ConfigShapes
  <1>f. \A v \in Values \cup {Env} : lastTrue[v] \in Nat /\ lastTrue[v] <= now
    BY DEF ConfigShapes, Ages
  <1>1. CASE Passes
    <2>1. /\ now' = now + 1 /\ stored' = stored /\ now < TimeMax
          /\ lastTrue' = [lastTrue EXCEPT ![Effective(stored)] = now + 1]
      BY <1>1 DEF Passes, settingRow
    <2>2. lastTrue' \in [Values \cup {Env} -> Nat] /\ lastTrue'[Effective(stored)] = now + 1
      BY <2>1, <1>t, EffectiveIsAllowed DEF ConfigShapes
    <2>3. \A v \in Values \cup {Env} : lastTrue'[v] \in {lastTrue[v], now + 1}
      BY <2>1 DEF ConfigShapes
    <2>4. now' \in 0 .. TimeMax
      BY <2>1, <1>t
    <2>5. ASSUME NEW v \in Values \cup {Env}
          PROVE  lastTrue[v] <= lastTrue'[v] /\ lastTrue'[v] <= now + 1
      BY <2>3, <1>f, <1>t
    <2> QED
      BY <2>1, <2>2, <2>4, <2>5
  <1>2. ASSUME NEW value, NEW why, Writes(value, why), now' = now
        PROVE  /\ lastTrue' \in [Values \cup {Env} -> Nat] /\ now' \in 0 .. TimeMax
               /\ \A v \in Values \cup {Env} : lastTrue[v] <= lastTrue'[v] /\ lastTrue'[v] <= now'
               /\ lastTrue'[Effective(stored')] = now'
    <2>1. /\ stored' = value
          /\ lastTrue' = [lastTrue EXCEPT ![Effective(stored)] = now, ![Effective(value)] = now]
      BY <1>2 DEF Writes
    <2>2. lastTrue' \in [Values \cup {Env} -> Nat]
      BY <2>1, <1>t DEF ConfigShapes
    <2>3. lastTrue'[Effective(value)] = now
      BY <2>1, EffectiveIsAllowed DEF ConfigShapes
    <2>4. \A v \in Values \cup {Env} : lastTrue'[v] \in {lastTrue[v], now}
      BY <2>1 DEF ConfigShapes
    <2>5. ASSUME NEW v \in Values \cup {Env}
          PROVE  lastTrue[v] <= lastTrue'[v] /\ lastTrue'[v] <= now
      BY <2>4, <1>f, <1>t
    <2> QED
      BY <1>2, <2>1, <2>2, <2>3, <2>5 DEF ConfigShapes
  <1>3. CASE now' = now /\ stored' = stored /\ lastTrue' = lastTrue
    BY <1>3, <1>f, <1>t DEF Ages, ConfigShapes
  <1>4. ASSUME NEW value, WriteRow(value) PROVE Writes(value, {"unhandled"}) /\ now' = now
    BY <1>4 DEF WriteRow
  <1>5. ASSUME NEW value, NEW i, WriteSetting(i, value) PROVE Writes(value, {}) /\ now' = now
    BY <1>5 DEF WriteSetting
  <1>6. ASSUME DropCached \/ ResetInstance \/ EditDies \/ Flush
        PROVE  now' = now /\ stored' = stored /\ lastTrue' = lastTrue
    BY <1>6 DEF DropCached, ResetInstance, EditDies, Flush, settingRow
  <1>7. ASSUME NEW r \in Visits,
               \/ Arrive(r) \/ ReadCached(r) \/ ReadRow(r) \/ Fill(r) \/ Resolved(r)
               \/ RefreshFails(r) \/ Finish(r) \/ TestConnection(r)
        PROVE  now' = now /\ stored' = stored /\ lastTrue' = lastTrue
    BY <1>7 DEF Arrive, ReadCached, ReadRow, Fill, Resolved, RefreshFails, Finish,
                TestConnection, settingRow
  <1>8. CASE UNCHANGED configVars
    BY <1>8, <1>3 DEF configVars
  <1> QED
    BY <1>1, <1>2, <1>3, <1>4, <1>5, <1>6, <1>7, <1>8 DEF ConfigNext

\* The types of what each step changes.
LEMMA ConfigShapesKept ==
  ASSUME ConfigShapes, Ages, [ConfigNext]_configVars
  PROVE  ConfigShapes'
  <1> DEFINE VisitKind == [at : Refreshing \cup {"away", "served"},
                           got : Storable \cup {Absent}, since : Nat]
  <1>n. /\ lastTrue' \in [Values \cup {Env} -> Nat] /\ now' \in 0 .. TimeMax
    BY SettingsAge
  <1>t. now \in Nat /\ CacheTtl \in Nat
    BY ConfigAssumption DEF ConfigShapes
  <1>v. Away \in VisitKind /\ Served \in VisitKind
    BY DEF Away, Served, Refreshing
  <1>m. ASSUME NEW r \in Visits, NEW moved \in VisitKind, visit' = [visit EXCEPT ![r] = moved]
        PROVE  visit' \in [Visits -> VisitKind]
    BY <1>m DEF ConfigShapes
  <1>h. ASSUME NEW r \in Visits
        PROVE  Home[r] \in Instances /\ visit[r] \in VisitKind
    BY ConfigAssumption DEF ConfigShapes
  <1> HIDE DEF VisitKind
  <1>s. ConfigShapes <=>
          /\ now \in 0 .. TimeMax /\ stored \in Storable /\ cachedRow \in Storable \cup {Absent}
          /\ expires \in Nat
          /\ effective \in [Instances -> (Values \ Bad) \cup {Env}]
          /\ client \in [Instances -> (Values \ Bad) \cup {Env, Absent}]
          /\ resolvedAt \in [Instances -> Nat]
          /\ visit \in [Visits -> VisitKind]
          /\ edit \in {NoEdit} \cup [at : {"drop", "reset"}, on : Instances]
          /\ lastTrue \in [Values \cup {Env} -> Nat]
          /\ blind \in [Instances -> BOOLEAN] /\ settled \in [Instances -> BOOLEAN]
          /\ muddied \in [Instances -> SUBSET Reasons]
    BY DEF ConfigShapes, VisitKind
  <1>p. ConfigShapes' <=>
          /\ now' \in 0 .. TimeMax /\ stored' \in Storable /\ cachedRow' \in Storable \cup {Absent}
          /\ expires' \in Nat
          /\ effective' \in [Instances -> (Values \ Bad) \cup {Env}]
          /\ client' \in [Instances -> (Values \ Bad) \cup {Env, Absent}]
          /\ resolvedAt' \in [Instances -> Nat]
          /\ visit' \in [Visits -> VisitKind]
          /\ edit' \in {NoEdit} \cup [at : {"drop", "reset"}, on : Instances]
          /\ lastTrue' \in [Values \cup {Env} -> Nat]
          /\ blind' \in [Instances -> BOOLEAN] /\ settled' \in [Instances -> BOOLEAN]
          /\ muddied' \in [Instances -> SUBSET Reasons]
    BY DEF ConfigShapes, VisitKind
  <1>1. CASE Passes \/ UNCHANGED configVars
    BY <1>1, <1>n, <1>s, <1>p DEF Passes, settingRow, instanceVars, configVars
  <1>2. CASE DropCached \/ Flush
    <2>1. /\ edit' = edit \/ (edit.at = "drop" /\ edit' = [edit EXCEPT !.at = "reset"])
          /\ \/ muddied' = muddied
             \/ muddied' = [muddied EXCEPT ![edit.on] = {"filled"}]
             \/ muddied' = [muddied EXCEPT ![edit.on] = {}]
          /\ cachedRow' = Absent /\ expires' = 0
          /\ UNCHANGED <<stored, effective, client, resolvedAt, visit, blind, settled>>
      <3>1. CASE DropCached
        BY <3>1 DEF DropCached
      <3>2. CASE Flush
        BY <3>2 DEF Flush, instanceVars
      <3> QED
        BY <1>2, <3>1, <3>2
    <2>2. edit' \in {NoEdit} \cup [at : {"drop", "reset"}, on : Instances]
      BY <2>1, <1>s DEF NoEdit
    <2>3. muddied' \in [Instances -> SUBSET Reasons]
      <3>1. {"filled"} \in SUBSET Reasons /\ {} \in SUBSET Reasons
        BY DEF Reasons
      <3> QED
        BY <2>1, <3>1, <1>s
    <2> QED
      BY <2>1, <2>2, <2>3, <1>n, <1>s, <1>p
  <1>3. CASE ResetInstance
    <2>1. edit.on \in Instances
      BY <1>3, <1>s DEF ResetInstance, NoEdit
    <2>2. \E why \in SUBSET Reasons : muddied' = [muddied EXCEPT ![edit.on] = why]
      <3> DEFINE why == muddied[edit.on]
            \cup (IF \E r \in Visits : Home[r] = edit.on /\ visit[r].at # "away" THEN {"underway"} ELSE {})
            \cup (IF now < RefreshTime THEN {"young"} ELSE {})
      <3>1. why \in SUBSET Reasons
        <4>1. muddied[edit.on] \subseteq Reasons
          BY <2>1, <1>s
        <4> QED
          BY <4>1 DEF Reasons
      <3>2. muddied' = [muddied EXCEPT ![edit.on] = why]
        BY <1>3 DEF ResetInstance
      <3> HIDE DEF why
      <3> QED
        BY <3>1, <3>2
    <2>3. /\ resolvedAt' = [resolvedAt EXCEPT ![edit.on] = 0]
          /\ client' = [client EXCEPT ![edit.on] = Absent]
          /\ settled' = [settled EXCEPT ![edit.on] = TRUE] /\ edit' = NoEdit
          /\ UNCHANGED <<stored, cachedRow, expires, effective, blind, visit>>
      BY <1>3 DEF ResetInstance, settingRow
    <2> QED
      BY <2>1, <2>2, <2>3, <1>n, <1>s, <1>p
  <1>4. CASE EditDies
    BY <1>4, <1>n, <1>s, <1>p DEF EditDies, settingRow
  <1>6. ASSUME NEW value \in Storable, WriteRow(value) PROVE ConfigShapes'
    <2>1. Writes(value, {"unhandled"})
      BY <1>6 DEF WriteRow
    <2>2. stored' \in Storable /\ settled' \in [Instances -> BOOLEAN]
      BY <2>1 DEF Writes
    <2>3. muddied' \in [Instances -> SUBSET Reasons]
      <3>1. {"unhandled"} \in SUBSET Reasons
        BY DEF Reasons
      <3> QED
        BY <2>1, <3>1 DEF Writes
    <2> QED
      BY <2>2, <2>3, <1>6, <1>n, <1>s, <1>p DEF WriteRow
  <1>7. ASSUME NEW value \in Storable, NEW i \in Instances, WriteSetting(i, value)
        PROVE  ConfigShapes'
    <2>1. Writes(value, {})
      BY <1>7 DEF WriteSetting
    <2>2. stored' \in Storable /\ settled' \in [Instances -> BOOLEAN]
      BY <2>1 DEF Writes
    <2>3. muddied' \in [Instances -> SUBSET Reasons]
      BY <2>1 DEF Writes
    <2> QED
      BY <2>2, <2>3, <1>7, <1>n, <1>s, <1>p DEF WriteSetting
  <1>8. ASSUME NEW r \in Visits, Arrive(r) \/ ReadCached(r) \/ ReadRow(r) PROVE ConfigShapes'
    <2>1. \E moved \in VisitKind : visit' = [visit EXCEPT ![r] = moved]
      <3>1. CASE Arrive(r)
        BY <3>1, <1>v, <1>t DEF Arrive, VisitKind, Away, Refreshing
      <3>2. CASE ReadCached(r)
        <4>1. visit' = [visit EXCEPT ![r] =
                [visit[r] EXCEPT !.at = IF Cell = Absent THEN "row" ELSE "end", !.got = Cell]]
          BY <3>2 DEF ReadCached
        <4>2. Cell \in Storable \cup {Absent}
          BY <1>s DEF Cell
        <4>3. [visit[r] EXCEPT !.at = IF Cell = Absent THEN "row" ELSE "end", !.got = Cell]
                \in VisitKind
          BY <1>h, <4>2 DEF VisitKind, Refreshing
        <4> QED
          BY <4>1, <4>3
      <3>3. CASE ReadRow(r)
        <4>1. visit' = [visit EXCEPT ![r] = [visit[r] EXCEPT !.at = "fill", !.got = stored]]
          BY <3>3 DEF ReadRow
        <4>2. [visit[r] EXCEPT !.at = "fill", !.got = stored] \in VisitKind
          BY <1>h, <1>s DEF VisitKind, Refreshing
        <4> QED
          BY <4>1, <4>2
      <3> QED
        BY <1>8, <3>1, <3>2, <3>3
    <2> QED
      BY <1>8, <2>1, <1>m, <1>n, <1>s, <1>p
      DEF Arrive, ReadCached, ReadRow, settingRow, instanceVars
  <1>9. ASSUME NEW r \in Visits, Fill(r) PROVE ConfigShapes'
    <2>1. visit' = [visit EXCEPT ![r] = [visit[r] EXCEPT !.at = "end"]]
      BY <1>9 DEF Fill
    <2>2. [visit[r] EXCEPT !.at = "end"] \in VisitKind /\ visit[r].got \in Storable \cup {Absent}
      BY <1>h DEF VisitKind, Refreshing
    <2>3. now + CacheTtl \in Nat
      BY <1>t
    <2> QED
      BY <1>9, <2>1, <2>2, <2>3, <1>m, <1>n, <1>s, <1>p DEF Fill, instanceVars
  <1>10. ASSUME NEW r \in Visits, Resolved(r) \/ RefreshFails(r) PROVE ConfigShapes'
    <2>1. visit' = [visit EXCEPT ![r] = Served] /\ visit[r].since \in Nat
      BY <1>10, <1>h DEF Resolved, RefreshFails, VisitKind
    <2>2. visit' \in [Visits -> VisitKind]
      BY <2>1, <1>v, <1>m
    <2>3. effective' \in [Instances -> (Values \ Bad) \cup {Env}]
      BY <1>10, <1>s, EffectiveIsAllowed DEF Resolved, RefreshFails
    <2>4. resolvedAt' \in [Instances -> Nat] /\ blind' \in [Instances -> BOOLEAN]
      BY <1>10, <1>s, <2>1 DEF Resolved, RefreshFails
    <2>5. muddied' \in [Instances -> SUBSET Reasons]
      <3>1. muddied[Home[r]] \cup {"failed"} \in SUBSET Reasons
        <4>1. muddied[Home[r]] \subseteq Reasons
          BY <1>h, <1>s
        <4> QED
          BY <4>1 DEF Reasons
      <3>2. \/ muddied' = muddied
            \/ muddied' = [muddied EXCEPT ![Home[r]] =
                             IF settled[Home[r]] THEN muddied[Home[r]] \cup {"failed"}
                             ELSE muddied[Home[r]]]
        BY <1>10 DEF Resolved, RefreshFails
      <3>3. muddied[Home[r]] \in SUBSET Reasons
        BY <1>h, <1>s
      <3> QED
        BY <3>1, <3>2, <3>3, <1>s
    <2> QED
      BY <1>10, <2>2, <2>3, <2>4, <2>5, <1>n, <1>s, <1>p DEF Resolved, RefreshFails, settingRow
  <1>11. ASSUME NEW r \in Visits, Finish(r) \/ TestConnection(r) PROVE ConfigShapes'
    <2>1. visit' \in [Visits -> VisitKind]
      BY <1>11, <1>v, <1>m DEF Finish, TestConnection
    <2>2. client' \in [Instances -> (Values \ Bad) \cup {Env, Absent}]
      BY <1>11, <1>h, <1>s DEF Finish, TestConnection
    <2> QED
      BY <1>11, <2>1, <2>2, <1>n, <1>s, <1>p DEF Finish, TestConnection, settingRow
  <1> QED
    BY <1>1, <1>2, <1>3, <1>4, <1>6, <1>7, <1>8, <1>9, <1>10, <1>11 DEF ConfigNext

-----------------------------------------------------------------------------
\* What a step leaves alone stays as young as it was.
LEMMA CalmVisitStaysYoung ==
  ASSUME ConfigShapes, Ages, [ConfigNext]_configVars, NEW q \in Visits, visit'[q] = visit[q],
         now' = now
  PROVE  VisitIsYoung(q)'
  <1>1. VisitIsYoung(q)
    BY DEF Ages
  <1>2. /\ now \in Nat /\ CacheTtl \in Nat /\ Slowest \in Nat /\ visit[q].since \in Nat
        /\ lastTrue[Effective(visit[q].got)] \in Nat /\ lastTrue'[Effective(visit[q].got)] \in Nat
        /\ lastTrue[Effective(visit[q].got)] <= lastTrue'[Effective(visit[q].got)]
    BY ConfigAssumption, SettingsAge, EffectiveIsAllowed DEF ConfigShapes
  <1> QED
    BY <1>1, <1>2 DEF VisitIsYoung

LEMMA CalmSnapshotStaysYoung ==
  ASSUME ConfigShapes, Ages, [ConfigNext]_configVars, NEW i \in Instances,
         effective'[i] = effective[i],
         \/ resolvedAt'[i] = resolvedAt[i] /\ blind'[i] = blind[i]
         \/ resolvedAt'[i] = 0
         \/ blind'[i]
  PROVE  SnapshotIsYoung(i)'
  <1>1. SnapshotIsYoung(i)
    BY DEF Ages
  <1>2. /\ CacheTtl \in Nat /\ Slowest \in Nat /\ resolvedAt[i] \in Nat
        /\ lastTrue[effective[i]] \in Nat /\ lastTrue'[effective[i]] \in Nat
        /\ lastTrue[effective[i]] <= lastTrue'[effective[i]]
    BY ConfigAssumption, SettingsAge DEF ConfigShapes
  <1> QED
    BY <1>1, <1>2 DEF SnapshotIsYoung

LEMMA CalmCellStaysYoung ==
  ASSUME ConfigShapes, Ages, [ConfigNext]_configVars,
         cachedRow' = Absent \/ UNCHANGED <<cachedRow, expires>>
  PROVE  cachedRow' # Absent => expires' <= lastTrue'[Effective(cachedRow')] + CacheTtl + Slowest
  <1> SUFFICES ASSUME cachedRow' # Absent
               PROVE  expires' <= lastTrue'[Effective(cachedRow')] + CacheTtl + Slowest
    OBVIOUS
  <1>1. expires <= lastTrue[Effective(cachedRow)] + CacheTtl + Slowest
    BY DEF Ages
  <1>2. /\ CacheTtl \in Nat /\ Slowest \in Nat /\ expires \in Nat
        /\ lastTrue[Effective(cachedRow)] \in Nat /\ lastTrue'[Effective(cachedRow)] \in Nat
        /\ lastTrue[Effective(cachedRow)] <= lastTrue'[Effective(cachedRow)]
    BY ConfigAssumption, SettingsAge, EffectiveIsAllowed DEF ConfigShapes
  <1> QED
    BY <1>1, <1>2

LEMMA AgesKept ==
  ASSUME ConfigShapes, Ages, [ConfigNext]_configVars
  PROVE  Ages'
  <1>t. /\ now \in Nat /\ CacheTtl \in Nat /\ CacheTtl >= 1 /\ Slowest \in Nat
        /\ \A r \in Visits : Home[r] \in Instances /\ visit[r].since \in Nat
    BY ConfigAssumption DEF ConfigShapes
  <1>a. \A r \in Visits : VisitIsYoung(r)
    BY DEF Ages
  <1>s. ASSUME
          cachedRow' # Absent => expires' <= lastTrue'[Effective(cachedRow')] + CacheTtl + Slowest,
          \A r \in Visits : VisitIsYoung(r)',
          \A i \in Instances : SnapshotIsYoung(i)'
        PROVE Ages'
    BY <1>s, SettingsAge DEF Ages, Effective
  <1>q. ASSUME NEW r \in Visits, NEW moved, visit' = [visit EXCEPT ![r] = moved], now' = now,
               VisitIsYoung(r)'
        PROVE  \A q \in Visits : VisitIsYoung(q)'
    BY <1>q, OneVisitMoves, CalmVisitStaysYoung
  <1>o. ASSUME NEW r \in Visits, NEW moved, visit' = [visit EXCEPT ![r] = moved], now' = now,
               moved.at \notin Refreshing
        PROVE  \A q \in Visits : VisitIsYoung(q)'
    <2>1. VisitIsYoung(r)'
      BY <1>o, OneVisitMoves DEF VisitIsYoung
    <2> QED
      BY <2>1, <1>o, <1>q
  <1>i. ASSUME UNCHANGED <<effective, resolvedAt, blind>>
        PROVE  \A i \in Instances : SnapshotIsYoung(i)'
    BY <1>i, CalmSnapshotStaysYoung
  <1>1. CASE Passes
    <2>1. /\ now' = now + 1 /\ visit' = visit /\ UNCHANGED <<cachedRow, expires>>
          /\ UNCHANGED <<effective, resolvedAt, blind>>
          /\ \A r \in Visits : visit[r].at \in {"away", "served"} \/ now < visit[r].since + Slowest
      BY <1>1 DEF Passes, instanceVars
    <2>2. ASSUME NEW r \in Visits PROVE VisitIsYoung(r)'
      <3>1. VisitIsYoung(r)
        BY <1>a
      <3>2. /\ lastTrue[Effective(visit[r].got)] \in Nat /\ lastTrue'[Effective(visit[r].got)] \in Nat
            /\ lastTrue[Effective(visit[r].got)] <= lastTrue'[Effective(visit[r].got)]
        BY SettingsAge, EffectiveIsAllowed DEF ConfigShapes
      <3>3. visit[r].at \in Refreshing => now < visit[r].since + Slowest
        BY <2>1 DEF Refreshing
      <3>4. visit[r].since \in Nat
        BY <1>t
      <3> QED
        BY <3>1, <3>2, <3>3, <3>4, <2>1, <1>t DEF VisitIsYoung
    <2> QED
      BY <2>1, <2>2, <1>i, <1>s, CalmCellStaysYoung
  <1>2. CASE UNCHANGED configVars \/ DropCached \/ EditDies \/ Flush \/ ResetInstance
    <2>1. /\ now' = now /\ visit' = visit /\ UNCHANGED <<effective, blind>>
          /\ cachedRow' = Absent \/ UNCHANGED <<cachedRow, expires>>
          /\ resolvedAt' = resolvedAt \/ resolvedAt' = [resolvedAt EXCEPT ![edit.on] = 0]
      BY <1>2 DEF configVars, DropCached, EditDies, Flush, ResetInstance, settingRow, instanceVars
    <2>2. \A i \in Instances : resolvedAt'[i] \in {resolvedAt[i], 0}
      BY <2>1 DEF ConfigShapes
    <2>3. \A i \in Instances : SnapshotIsYoung(i)'
      BY <2>1, <2>2, CalmSnapshotStaysYoung
    <2> QED
      BY <2>1, <2>3, <1>s, CalmCellStaysYoung, CalmVisitStaysYoung
  <1>3. ASSUME NEW value, WriteRow(value) \/ \E i \in Instances : WriteSetting(i, value)
        PROVE  Ages'
    <2>1. /\ now' = now /\ visit' = visit /\ UNCHANGED <<cachedRow, expires>>
          /\ UNCHANGED <<effective, resolvedAt, blind>>
      BY <1>3 DEF WriteRow, WriteSetting
    <2> QED
      BY <2>1, <1>i, <1>s, CalmCellStaysYoung, CalmVisitStaysYoung
  <1>4. ASSUME NEW r \in Visits, Arrive(r) PROVE Ages'
    <2>1. /\ now' = now /\ UNCHANGED <<cachedRow, expires>> /\ UNCHANGED <<effective, resolvedAt, blind>>
      BY <1>4 DEF Arrive, settingRow, instanceVars
    <2>2. PICK moved \in {Served, [Away EXCEPT !.at = "cache", !.since = now]} :
            visit' = [visit EXCEPT ![r] = moved]
      BY <1>4 DEF Arrive
    <2>3. VisitIsYoung(r)'
      <3>1. visit'[r] = moved
        BY <2>2, OneVisitMoves
      <3>2. moved.at = "served" \/ (moved.at = "cache" /\ moved.since = now)
        BY <2>2 DEF Served, Away
      <3> QED
        BY <3>1, <3>2, <2>1, <1>t DEF VisitIsYoung, Refreshing
    <2> QED
      BY <2>1, <2>2, <2>3, <1>i, <1>q, <1>s, CalmCellStaysYoung
  <1>5. ASSUME NEW r \in Visits, ReadCached(r) PROVE Ages'
    <2>1. /\ now' = now /\ UNCHANGED <<cachedRow, expires>> /\ UNCHANGED <<effective, resolvedAt, blind>>
          /\ lastTrue' = lastTrue /\ visit[r].at = "cache"
      BY <1>5 DEF ReadCached, settingRow, instanceVars
    <2>2. visit' = [visit EXCEPT ![r] =
            [visit[r] EXCEPT !.at = IF Cell = Absent THEN "row" ELSE "end", !.got = Cell]]
      BY <1>5 DEF ReadCached
    <2>3. VisitIsYoung(r)'
      <3>1. visit'[r] = [visit[r] EXCEPT !.at = IF Cell = Absent THEN "row" ELSE "end", !.got = Cell]
        BY <2>2, OneVisitMoves
      <3>2. /\ visit'[r].since = visit[r].since /\ visit'[r].got = Cell
            /\ visit'[r].at = IF Cell = Absent THEN "row" ELSE "end"
        BY <3>1 DEF ConfigShapes
      <3>3. visit[r].since <= now /\ now <= visit[r].since + Slowest
        BY <2>1, <1>a DEF VisitIsYoung, Refreshing
      <3>4. CASE Cell = Absent
        BY <3>2, <3>3, <3>4, <2>1 DEF VisitIsYoung
      <3>5. CASE Cell # Absent
        <4>1. Cell = cachedRow /\ now < expires /\ cachedRow \in Storable
          BY <3>5 DEF Cell, ConfigShapes
        <4>2. expires <= lastTrue[Effective(cachedRow)] + CacheTtl + Slowest
          BY <3>5, <4>1 DEF Ages
        <4>3. lastTrue[Effective(cachedRow)] \in Nat /\ expires \in Nat /\ visit[r].since \in Nat
          BY EffectiveIsAllowed, <1>t DEF ConfigShapes
        <4>4. visit[r].since + 1 <= lastTrue[Effective(cachedRow)] + CacheTtl + Slowest
          BY <4>1, <4>2, <4>3, <3>3, <1>t
        <4> QED
          BY <3>2, <3>3, <3>5, <2>1, <4>1, <4>4 DEF VisitIsYoung
      <3> QED
        BY <3>4, <3>5
    <2> QED
      BY <2>1, <2>2, <2>3, <1>i, <1>q, <1>s, CalmCellStaysYoung
  <1>6. ASSUME NEW r \in Visits, ReadRow(r) PROVE Ages'
    <2>1. /\ now' = now /\ UNCHANGED <<cachedRow, expires>> /\ UNCHANGED <<effective, resolvedAt, blind>>
          /\ lastTrue' = lastTrue /\ visit[r].at = "row"
          /\ visit' = [visit EXCEPT ![r] = [visit[r] EXCEPT !.at = "fill", !.got = stored]]
      BY <1>6 DEF ReadRow, settingRow, instanceVars
    <2>2. VisitIsYoung(r)'
      <3>1. visit'[r] = [visit[r] EXCEPT !.at = "fill", !.got = stored]
        BY <2>1, OneVisitMoves
      <3>2. visit'[r].since = visit[r].since /\ visit'[r].got = stored /\ visit'[r].at = "fill"
        BY <3>1 DEF ConfigShapes
      <3>3. visit[r].since <= now /\ now <= visit[r].since + Slowest
        BY <2>1, <1>a DEF VisitIsYoung, Refreshing
      <3>4. stored \in Storable /\ lastTrue[Effective(stored)] = now
        BY DEF Ages, ConfigShapes
      <3> QED
        BY <3>2, <3>3, <3>4, <2>1 DEF VisitIsYoung
    <2> QED
      BY <2>1, <2>2, <1>i, <1>q, <1>s, CalmCellStaysYoung
  <1>7. ASSUME NEW r \in Visits, Fill(r) PROVE Ages'
    <2>1. /\ now' = now /\ UNCHANGED <<effective, resolvedAt, blind>>
          /\ cachedRow' = visit[r].got /\ expires' = now + CacheTtl
          /\ lastTrue' = lastTrue /\ visit[r].at = "fill"
          /\ visit' = [visit EXCEPT ![r] = [visit[r] EXCEPT !.at = "end"]]
      BY <1>7 DEF Fill, instanceVars
    <2>2. /\ visit[r].since <= now /\ now <= visit[r].since + Slowest /\ visit[r].got \in Storable
          /\ visit[r].since <= lastTrue[Effective(visit[r].got)]
      BY <2>1, <1>a DEF VisitIsYoung, Refreshing
    <2>3. lastTrue[Effective(visit[r].got)] \in Nat /\ visit[r].since \in Nat
      BY EffectiveIsAllowed, <1>t DEF ConfigShapes
    <2>4. /\ visit[r].since + 1 <= lastTrue[Effective(visit[r].got)] + CacheTtl + Slowest
          /\ now + CacheTtl <= lastTrue[Effective(visit[r].got)] + CacheTtl + Slowest
      BY <2>2, <2>3, <1>t
    <2>5. VisitIsYoung(r)'
      <3>1. visit'[r] = [visit[r] EXCEPT !.at = "end"]
        BY <2>1, OneVisitMoves
      <3>2. /\ visit'[r].since = visit[r].since /\ visit'[r].got = visit[r].got
            /\ visit'[r].at = "end"
        BY <3>1 DEF ConfigShapes
      <3> QED
        BY <3>2, <2>1, <2>2, <2>4 DEF VisitIsYoung
    <2> QED
      BY <2>1, <2>4, <2>5, <1>i, <1>q, <1>s
  <1>8. ASSUME NEW r \in Visits, Resolved(r) PROVE Ages'
    <2> DEFINE i == Home[r]
    <2>1. /\ now' = now /\ UNCHANGED <<cachedRow, expires>> /\ lastTrue' = lastTrue
          /\ visit[r].at = "end" /\ visit' = [visit EXCEPT ![r] = Served]
          /\ effective' = [effective EXCEPT ![i] = Effective(visit[r].got)]
          /\ resolvedAt' = [resolvedAt EXCEPT ![i] = visit[r].since]
          /\ blind' = [blind EXCEPT ![i] = FALSE]
      BY <1>8 DEF Resolved, settingRow
    <2>2. visit[r].since + 1 <= lastTrue[Effective(visit[r].got)] + CacheTtl + Slowest
      BY <2>1, <1>a DEF VisitIsYoung, Refreshing
    <2>3. /\ effective'[i] = Effective(visit[r].got) /\ resolvedAt'[i] = visit[r].since
          /\ \A j \in Instances : j # i =>
               effective'[j] = effective[j] /\ resolvedAt'[j] = resolvedAt[j] /\ blind'[j] = blind[j]
      BY <2>1, <1>t DEF ConfigShapes
    <2>4. SnapshotIsYoung(i)'
      BY <2>1, <2>2, <2>3 DEF SnapshotIsYoung
    <2>5. \A j \in Instances : SnapshotIsYoung(j)'
      BY <2>3, <2>4, CalmSnapshotStaysYoung
    <2>6. Served.at \notin Refreshing
      BY DEF Served, Away, Refreshing
    <2> QED
      BY <2>1, <2>5, <2>6, <1>o, <1>s, CalmCellStaysYoung
  <1>9. ASSUME NEW r \in Visits, RefreshFails(r) PROVE Ages'
    <2> DEFINE i == Home[r]
    <2>1. /\ now' = now /\ UNCHANGED <<cachedRow, expires>> /\ effective' = effective
          /\ visit' = [visit EXCEPT ![r] = Served]
          /\ resolvedAt' = [resolvedAt EXCEPT ![i] = visit[r].since]
          /\ blind' = [blind EXCEPT ![i] = TRUE]
      BY <1>9 DEF RefreshFails, settingRow
    <2>2. /\ blind'[i]
          /\ \A j \in Instances : j # i => resolvedAt'[j] = resolvedAt[j] /\ blind'[j] = blind[j]
      BY <2>1, <1>t DEF ConfigShapes
    <2>3. \A j \in Instances : SnapshotIsYoung(j)'
      BY <2>1, <2>2, CalmSnapshotStaysYoung
    <2>4. Served.at \notin Refreshing
      BY DEF Served, Away, Refreshing
    <2> QED
      BY <2>1, <2>3, <2>4, <1>o, <1>s, CalmCellStaysYoung
  <1>10. ASSUME NEW r \in Visits, Finish(r) \/ TestConnection(r) PROVE Ages'
    <2>1. /\ now' = now /\ UNCHANGED <<cachedRow, expires>> /\ UNCHANGED <<effective, resolvedAt, blind>>
          /\ visit' = [visit EXCEPT ![r] = Away]
      BY <1>10 DEF Finish, TestConnection, settingRow
    <2>2. Away.at \notin Refreshing
      BY DEF Away, Refreshing
    <2> QED
      BY <2>1, <2>2, <1>i, <1>o, <1>s, CalmCellStaysYoung
  <1> QED
    BY <1>1, <1>2, <1>3, <1>4, <1>5, <1>6, <1>7, <1>8, <1>9, <1>10 DEF ConfigNext

-----------------------------------------------------------------------------
\* The steps of requests, and the rest that neither writes nor handles an edit.
RequestMoves(r) ==
  \/ Arrive(r) \/ ReadCached(r) \/ ReadRow(r) \/ Fill(r) \/ Resolved(r)
  \/ RefreshFails(r) \/ Finish(r) \/ TestConnection(r)

\* A request spoils a correction by failing, and makes none.
LEMMA RequestsCorrectNothing ==
  ASSUME ConfigShapes, NEW r \in Visits, RequestMoves(r)
  PROVE  /\ UNCHANGED <<now, stored, settled, edit>>
         /\ \A i \in Instances :
              /\ Corrected(i)' => Corrected(i) /\ ~(RefreshFails(r) /\ Home[r] = i)
              /\ Correcting(i)' => Correcting(i)
  <1>1. UNCHANGED <<now, stored, settled, edit>>
    BY DEF RequestMoves, Arrive, ReadCached, ReadRow, Fill, Resolved, RefreshFails, Finish,
           TestConnection, settingRow, instanceVars
  <1>2. CASE RefreshFails(r)
    <2>1. \A i \in Instances :
            muddied'[i] = IF i = Home[r] /\ settled[i] THEN muddied[i] \cup {"failed"} ELSE muddied[i]
      BY <1>2 DEF RefreshFails, ConfigShapes
    <2> QED
      BY <1>1, <2>1 DEF Corrected, Correcting
  <1>3. CASE ~RefreshFails(r)
    <2>1. muddied' = muddied
      BY <1>3 DEF RequestMoves, Arrive, ReadCached, ReadRow, Fill, Resolved, Finish,
                  TestConnection, instanceVars
    <2> QED
      BY <1>1, <1>3, <2>1 DEF Corrected, Correcting
  <1> QED
    BY <1>2, <1>3

\* A write leaves nobody corrected.
LEMMA WritesCorrectNobody ==
  ASSUME NEW value \in Storable,
         WriteRow(value) \/ \E i \in Instances : WriteSetting(i, value)
  PROVE  \A i \in Instances : ~settled'[i] /\ ~Corrected(i)' /\ ~Correcting(i)'
  <1>1. CASE WriteRow(value)
    <2>1. \A i \in Instances : ~settled'[i] /\ muddied'[i] = {"unhandled"}
      BY <1>1 DEF WriteRow, Writes
    <2> QED
      BY <2>1 DEF Corrected, Correcting
  <1>2. ASSUME NEW i \in Instances, WriteSetting(i, value)
        PROVE  \A j \in Instances : ~settled'[j] /\ ~Corrected(j)' /\ ~Correcting(j)'
    <2>1. edit'.at = "drop" /\ \A j \in Instances : ~settled'[j]
      BY <1>2 DEF WriteSetting, Writes
    <2> QED
      BY <2>1 DEF Corrected, Correcting
  <1> QED
    BY <1>1, <1>2

LEMMA OneEditKept ==
  ASSUME ConfigShapes, OneEditAtATime, [ConfigNext]_configVars
  PROVE  OneEditAtATime'
  <1>1. CASE UNCHANGED configVars \/ Passes \/ Flush
    BY <1>1 DEF configVars, Passes, Flush, instanceVars, OneEditAtATime
  <1>2. CASE DropCached
    BY <1>2 DEF DropCached, OneEditAtATime, NoEdit
  <1>3. CASE EditDies \/ ResetInstance
    BY <1>3 DEF EditDies, ResetInstance, OneEditAtATime
  <1>4. ASSUME NEW r \in Visits, RequestMoves(r) PROVE OneEditAtATime'
    BY <1>4, RequestsCorrectNothing DEF OneEditAtATime
  <1>5. ASSUME NEW value \in Storable,
               WriteRow(value) \/ \E i \in Instances : WriteSetting(i, value)
        PROVE  OneEditAtATime'
    BY <1>5, WritesCorrectNobody DEF OneEditAtATime
  <1> QED
    BY <1>1, <1>2, <1>3, <1>4, <1>5 DEF ConfigNext, RequestMoves

LEMMA CacheStaysCurrent ==
  ASSUME ConfigShapes, OneEditAtATime, CacheIsCurrent, [ConfigNext]_configVars
  PROVE  CacheIsCurrent'
  <1>1. CASE UNCHANGED configVars \/ Passes \/ Flush
    <2>1. /\ UNCHANGED <<stored, settled, muddied, edit, visit>>
          /\ cachedRow' \in {cachedRow, Absent}
      BY <1>1 DEF configVars, Passes, Flush, instanceVars, settingRow
    <2> QED
      BY <2>1 DEF CacheIsCurrent, Corrected, Correcting
  <1>2. CASE DropCached
    <2>1. /\ cachedRow' = Absent /\ UNCHANGED <<stored, settled, visit>>
          /\ \A i \in Instances : ~settled[i]
          /\ edit'.on = edit.on /\ edit.on \in Instances
          /\ muddied' = [muddied EXCEPT ![edit.on] =
               IF \E r \in Visits : visit[r].at = "fill" /\ visit[r].got # stored
               THEN {"filled"} ELSE {}]
      BY <1>2 DEF DropCached, OneEditAtATime, NoEdit, ConfigShapes
    <2>2. ASSUME NEW i \in Instances, Correcting(i)'
          PROVE  \A r \in Visits : visit[r].at = "fill" => visit[r].got = stored
      <3>1. i = edit.on /\ muddied'[i] = {}
        BY <2>1, <2>2 DEF Correcting
      <3> QED
        BY <2>1, <3>1 DEF ConfigShapes
    <2> QED
      BY <2>1, <2>2 DEF CacheIsCurrent, Corrected
  <1>3. CASE EditDies
    <2>1. \A i \in Instances : ~settled'[i] /\ edit' = NoEdit
      BY <1>3 DEF EditDies, OneEditAtATime
    <2> QED
      BY <2>1 DEF CacheIsCurrent, Corrected, Correcting, NoEdit
  <1>4. CASE ResetInstance
    <2>1. ASSUME NEW i \in Instances, Corrected(i)' \/ Correcting(i)'
          PROVE  Correcting(i)
      <3>1. edit' = NoEdit /\ ~Correcting(i)'
        BY <1>4 DEF ResetInstance, Correcting, NoEdit
      <3>2. settled'[i] /\ muddied'[i] = {}
        BY <2>1, <3>1 DEF Corrected
      <3>3. i = edit.on /\ edit.at = "reset"
        BY <1>4, <3>2 DEF ResetInstance, OneEditAtATime, ConfigShapes, NoEdit
      <3>4. muddied[i] = {}
        BY <1>4, <3>2, <3>3 DEF ResetInstance, ConfigShapes
      <3> QED
        BY <3>3, <3>4 DEF Correcting
    <2>2. UNCHANGED <<stored, cachedRow, visit>>
      BY <1>4 DEF ResetInstance, settingRow
    <2> QED
      BY <2>1, <2>2 DEF CacheIsCurrent
  <1>5. ASSUME NEW r \in Visits, RequestMoves(r) PROVE CacheIsCurrent'
    <2> SUFFICES ASSUME NEW i \in Instances, Corrected(i)' \/ Correcting(i)'
                 PROVE  /\ cachedRow' \in {Absent, stored'}
                        /\ \A q \in Visits : visit'[q].at = "fill" => visit'[q].got = stored'
      BY DEF CacheIsCurrent
    <2>1. Corrected(i) \/ Correcting(i)
      BY <1>5, RequestsCorrectNothing
    <2>2. /\ cachedRow \in {Absent, stored} /\ stored' = stored
          /\ \A q \in Visits : visit[q].at = "fill" => visit[q].got = stored
      BY <1>5, <2>1, RequestsCorrectNothing DEF CacheIsCurrent
    <2>3. \/ cachedRow' = cachedRow
          \/ visit[r].at = "fill" /\ cachedRow' = visit[r].got
      BY <1>5 DEF RequestMoves, Arrive, ReadCached, ReadRow, Fill, Resolved, RefreshFails,
                  Finish, TestConnection, settingRow
    <2>4. PICK moved : /\ visit' = [visit EXCEPT ![r] = moved]
                       /\ moved.at = "fill" => moved.got = stored
      <3>1. CASE Arrive(r)
        <4>1. \E moved \in {Served, [Away EXCEPT !.at = "cache", !.since = now]} :
                visit' = [visit EXCEPT ![r] = moved]
          BY <3>1 DEF Arrive
        <4>2. \A moved \in {Served, [Away EXCEPT !.at = "cache", !.since = now]} :
                moved.at # "fill"
          BY DEF Served, Away
        <4> QED
          BY <4>1, <4>2
      <3>2. CASE ReadCached(r)
        <4> DEFINE moved == [visit[r] EXCEPT !.at = IF Cell = Absent THEN "row" ELSE "end",
                                             !.got = Cell]
        <4>1. visit' = [visit EXCEPT ![r] = moved]
          BY <3>2 DEF ReadCached
        <4>2. moved.at # "fill"
          BY DEF ConfigShapes
        <4> QED
          BY <4>1, <4>2
      <3>3. CASE ReadRow(r)
        <4> DEFINE moved == [visit[r] EXCEPT !.at = "fill", !.got = stored]
        <4>1. visit' = [visit EXCEPT ![r] = moved]
          BY <3>3 DEF ReadRow
        <4>2. moved.got = stored
          BY DEF ConfigShapes
        <4> QED
          BY <4>1, <4>2
      <3>4. CASE Fill(r)
        <4> DEFINE moved == [visit[r] EXCEPT !.at = "end"]
        <4>1. visit' = [visit EXCEPT ![r] = moved]
          BY <3>4 DEF Fill
        <4>2. moved.at # "fill"
          BY DEF ConfigShapes
        <4> QED
          BY <4>1, <4>2
      <3>5. CASE Resolved(r) \/ RefreshFails(r)
        BY <3>5 DEF Resolved, RefreshFails, Served, Away
      <3>6. CASE Finish(r) \/ TestConnection(r)
        BY <3>6 DEF Finish, TestConnection, Away
      <3> QED
        BY <1>5, <3>1, <3>2, <3>3, <3>4, <3>5, <3>6 DEF RequestMoves
    <2>5. \A q \in Visits : visit'[q].at = "fill" => visit'[q].got = stored
      BY <2>2, <2>4, OneVisitMoves
    <2> QED
      BY <2>2, <2>3, <2>5
  <1>6. ASSUME NEW value \in Storable,
               WriteRow(value) \/ \E i \in Instances : WriteSetting(i, value)
        PROVE  CacheIsCurrent'
    BY <1>6, WritesCorrectNobody DEF CacheIsCurrent
  <1> QED
    BY <1>1, <1>2, <1>3, <1>4, <1>5, <1>6 DEF ConfigNext, RequestMoves

\* What InstanceIsCurrent says of one instance.
HoldsCurrent(i) ==
  /\ client[i] \in {Absent, Effective(stored)}
  /\ \A r \in Visits : Home[r] = i /\ visit[r].at = "end" => visit[r].got = stored
  /\ \/ effective[i] = Effective(stored)
     \/ /\ resolvedAt[i] = 0 /\ RefreshTime <= now
        /\ \A r \in Visits : Home[r] = i => visit[r].at # "served"

\* A request of another instance leaves it alone.
LEMMA OthersHoldCurrent ==
  ASSUME ConfigShapes, NEW r \in Visits, RequestMoves(r), NEW i \in Instances, Home[r] # i,
         HoldsCurrent(i)
  PROVE  HoldsCurrent(i)'
  <1>1. UNCHANGED <<now, stored>>
    BY RequestsCorrectNothing
  <1>2. effective'[i] = effective[i] /\ resolvedAt'[i] = resolvedAt[i] /\ client'[i] = client[i]
    BY DEF RequestMoves, Arrive, ReadCached, ReadRow, Fill, Resolved, RefreshFails, Finish,
           TestConnection, instanceVars, ConfigShapes
  <1>3. \A q \in Visits : q # r => visit'[q] = visit[q]
    BY DEF RequestMoves, Arrive, ReadCached, ReadRow, Fill, Resolved, RefreshFails, Finish,
           TestConnection, ConfigShapes
  <1>4. Effective(stored)' = Effective(stored)
    BY <1>1 DEF Effective
  <1> QED
    BY <1>1, <1>2, <1>3, <1>4 DEF HoldsCurrent

LEMMA InstanceStaysCurrent ==
  ASSUME ConfigShapes, OneEditAtATime, CacheIsCurrent, InstanceIsCurrent,
         [ConfigNext]_configVars
  PROVE  InstanceIsCurrent'
  <1>h. \A i \in Instances : Corrected(i) => HoldsCurrent(i)
    BY DEF InstanceIsCurrent, HoldsCurrent
  <1>s. SUFFICES ASSUME NEW i \in Instances, Corrected(i)' PROVE HoldsCurrent(i)'
    BY DEF InstanceIsCurrent, HoldsCurrent, Effective
  <1>t. now \in Nat /\ RefreshTime \in Nat /\ RefreshTime >= 1
    BY ConfigAssumption DEF ConfigShapes
  <1>1. CASE UNCHANGED configVars \/ Passes \/ Flush
    <2>1. /\ UNCHANGED <<stored, effective, client, resolvedAt, settled, muddied, visit>>
          /\ now' \in {now, now + 1}
      BY <1>1 DEF configVars, Passes, Flush, instanceVars, settingRow
    <2>2. HoldsCurrent(i)
      BY <2>1, <1>s, <1>h DEF Corrected
    <2>3. RefreshTime <= now => RefreshTime <= now'
      BY <2>1, <1>t
    <2>4. Effective(stored)' = Effective(stored)
      BY <2>1 DEF Effective
    <2> QED
      BY <2>1, <2>2, <2>3, <2>4 DEF HoldsCurrent
  <1>2. CASE DropCached \/ EditDies
    <2>1. settled' = settled /\ ~settled[i]
      BY <1>2 DEF DropCached, EditDies, OneEditAtATime, NoEdit
    <2> QED
      BY <2>1, <1>s DEF Corrected
  <1>3. CASE ResetInstance
    <2>1. i = edit.on
      BY <1>3, <1>s DEF ResetInstance, OneEditAtATime, ConfigShapes, NoEdit, Corrected
    <2>2. resolvedAt'[i] = 0 /\ client'[i] = Absent /\ UNCHANGED <<now, visit>>
      BY <1>3, <2>1 DEF ResetInstance, ConfigShapes
    <2>3. (\A r \in Visits : Home[r] = i => visit[r].at = "away") /\ ~(now < RefreshTime)
      BY <1>3, <1>s, <2>1 DEF ResetInstance, ConfigShapes, Corrected
    <2>4. RefreshTime <= now
      BY <2>3, <1>t
    <2> QED
      BY <2>2, <2>3, <2>4 DEF HoldsCurrent
  <1>4. ASSUME NEW value \in Storable,
               WriteRow(value) \/ \E j \in Instances : WriteSetting(j, value)
        PROVE  HoldsCurrent(i)'
    BY <1>4, <1>s, WritesCorrectNobody
  <1>5. ASSUME NEW r \in Visits, RequestMoves(r) PROVE HoldsCurrent(i)'
    <2>1. Corrected(i) /\ UNCHANGED <<now, stored>> /\ ~(RefreshFails(r) /\ Home[r] = i)
      BY <1>5, <1>s, RequestsCorrectNothing
    <2>2. HoldsCurrent(i) /\ Effective(stored)' = Effective(stored)
      BY <2>1, <1>h DEF Effective
    <2>c. /\ cachedRow \in {Absent, stored}
          /\ \A q \in Visits : visit[q].at = "fill" => visit[q].got = stored
      BY <2>1 DEF CacheIsCurrent
    <2>3. CASE Home[r] # i
      BY <2>3, <2>2, <1>5, OthersHoldCurrent
    <2>4. CASE Home[r] = i
      <3>m. ASSUME NEW moved, visit' = [visit EXCEPT ![r] = moved],
                   moved.at # "served" \/ effective[i] = Effective(stored),
                   moved.at = "end" => moved.got = stored,
                   UNCHANGED <<effective, client, resolvedAt>>
            PROVE  HoldsCurrent(i)'
        <4>1. visit'[r] = moved /\ \A q \in Visits : q # r => visit'[q] = visit[q]
          BY <3>m, OneVisitMoves
        <4> QED
          BY <4>1, <3>m, <2>1, <2>2 DEF HoldsCurrent
      <3>1. CASE Arrive(r)
        <4>1. CASE now - resolvedAt[i] < RefreshTime
          <5>1. visit' = [visit EXCEPT ![r] = Served]
            BY <3>1, <4>1, <2>4 DEF Arrive
          <5>2. effective[i] = Effective(stored)
            BY <4>1, <2>2, <1>t DEF HoldsCurrent
          <5> QED
            BY <5>1, <5>2, <3>1, <3>m DEF Arrive, instanceVars, Served, Away
        <4>2. CASE ~(now - resolvedAt[i] < RefreshTime)
          <5> DEFINE moved == [Away EXCEPT !.at = "cache", !.since = now]
          <5>1. visit' = [visit EXCEPT ![r] = moved]
            BY <3>1, <4>2, <2>4 DEF Arrive
          <5>2. moved.at = "cache"
            BY DEF Away
          <5> QED
            BY <5>1, <5>2, <3>1, <3>m DEF Arrive, instanceVars
        <4> QED
          BY <4>1, <4>2
      <3>2. CASE ReadCached(r)
        <4> DEFINE moved == [visit[r] EXCEPT !.at = IF Cell = Absent THEN "row" ELSE "end",
                                             !.got = Cell]
        <4>1. visit' = [visit EXCEPT ![r] = moved]
          BY <3>2 DEF ReadCached
        <4>2. moved.at \in {"row", "end"} /\ moved.got = Cell /\ (moved.at = "end" => Cell # Absent)
          BY DEF ConfigShapes
        <4>3. Cell \in {Absent, stored}
          BY <2>c DEF Cell
        <4> QED
          BY <4>1, <4>2, <4>3, <3>2, <3>m DEF ReadCached, instanceVars
      <3>3. CASE ReadRow(r)
        <4> DEFINE moved == [visit[r] EXCEPT !.at = "fill", !.got = stored]
        <4>1. visit' = [visit EXCEPT ![r] = moved]
          BY <3>3 DEF ReadRow
        <4>2. moved.at = "fill"
          BY DEF ConfigShapes
        <4> QED
          BY <4>1, <4>2, <3>3, <3>m DEF ReadRow, instanceVars
      <3>4. CASE Fill(r)
        <4> DEFINE moved == [visit[r] EXCEPT !.at = "end"]
        <4>1. visit' = [visit EXCEPT ![r] = moved]
          BY <3>4 DEF Fill
        <4>2. moved.at = "end" /\ moved.got = visit[r].got /\ visit[r].at = "fill"
          BY <3>4 DEF ConfigShapes, Fill
        <4> QED
          BY <4>1, <4>2, <2>c, <3>4, <3>m DEF Fill, instanceVars
      <3>5. CASE Resolved(r)
        <4>1. /\ visit[r].at = "end" /\ visit' = [visit EXCEPT ![r] = Served]
              /\ effective'[i] = Effective(visit[r].got) /\ client' = client
          BY <3>5, <2>4 DEF Resolved, ConfigShapes
        <4>2. visit[r].got = stored
          BY <4>1, <2>2, <2>4 DEF HoldsCurrent
        <4>3. visit'[r] = Served /\ \A q \in Visits : q # r => visit'[q] = visit[q]
          BY <4>1, OneVisitMoves
        <4>4. Served.at = "served"
          BY DEF Served, Away
        <4> QED
          BY <4>1, <4>2, <4>3, <4>4, <2>1, <2>2 DEF HoldsCurrent
      <3>6. CASE RefreshFails(r)
        BY <3>6, <2>1, <2>4
      <3>7. CASE Finish(r) \/ TestConnection(r)
        <4>1. /\ visit[r].at = "served" /\ visit' = [visit EXCEPT ![r] = Away]
              /\ UNCHANGED <<effective, resolvedAt>>
              /\ client'[i] \in {client[i], effective[i]}
          BY <3>7, <2>4 DEF Finish, TestConnection, ConfigShapes
        <4>2. effective[i] = Effective(stored)
          BY <4>1, <2>2, <2>4 DEF HoldsCurrent
        <4>3. visit'[r] = Away /\ \A q \in Visits : q # r => visit'[q] = visit[q]
          BY <4>1, OneVisitMoves
        <4>4. Away.at = "away"
          BY DEF Away
        <4> QED
          BY <4>1, <4>2, <4>3, <4>4, <2>1, <2>2 DEF HoldsCurrent
      <3> QED
        BY <1>5, <3>1, <3>2, <3>3, <3>4, <3>5, <3>6, <3>7 DEF RequestMoves
    <2> QED
      BY <2>3, <2>4
  <1> QED
    BY <1>1, <1>2, <1>3, <1>4, <1>5 DEF ConfigNext, RequestMoves

-----------------------------------------------------------------------------
\* However many instances and requests there are and in whatever order they read,
\* fill, fail and are edited: no snapshot or client holds a value out of bounds, a
\* snapshot in use is no staler than the two lifetimes and one slow refresh together
\* (runtime_config.py:21), and the instance that handled the last edit of the key is
\* corrected at once (admin.py:81-85) but for the races that EditsTakeEffect names;
\* the prompt versions stay numbered and an activation that ran alone is what is sent.
THEOREM EditsPrevail == ConfigSpec /\ PromptSpec => []EditsTakeEffect
  <1>1. ConfigIndInv /\ [ConfigNext]_configVars => ConfigIndInv'
    BY ConfigShapesKept, AgesKept, OneEditKept, CacheStaysCurrent, InstanceStaysCurrent
    DEF ConfigIndInv
  <1>2. ConfigIndInv /\ PromptIndInv => EditsTakeEffect
    BY ConfigFollows, PromptsFollow
  <1>3. ConfigSpec => []ConfigIndInv
    BY <1>1, ConfigInitially, PTL DEF ConfigSpec
  <1>4. PromptSpec => []PromptIndInv
    BY PromptsInitially, PromptStep, PTL DEF PromptSpec
  <1> QED
    BY <1>2, <1>3, <1>4, PTL
=============================================================================
