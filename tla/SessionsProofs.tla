---------------------------- MODULE SessionsProofs ----------------------------
(***************************************************************************)
(* Theorems about sessions, for every number of users, families, tokens    *)
(* and concurrent requests, every leeway and every lifetime; and about one *)
(* browser with any number of tabs in front of them.                       *)
(*                                                                         *)
(* BrowserIndInv follows a token through its life: it is known to one      *)
(* request alone until it is delivered (Fresh), it is in the jar or in     *)
(* cookies of requests that were sent no later than a round trip after it  *)
(* was spent (Spent), and it never comes back into the jar.  The session   *)
(* the browser is in has no revoked row until the user signs out of it, or *)
(* an answer to a request of another session has come between (InSession). *)
(***************************************************************************)
EXTENDS BrowserSessions, TLAPS

-----------------------------------------------------------------------------
\* What a request that is half way through has in hand.
RequestsHoldRows ==
  \A c \in Requests :
    /\ doing[c] \in {"claim", "issue", "reuse", "logout"} =>
         held[c] \in Tokens /\ Exists(held[c])
    /\ doing[c] \in {"login", "reset"} => who[c] \in Users
    /\ doing[c] = "login" => held[c] = None

\* A rotation in flight asked no later than the leeway after the one use of
\* its token, if that use is already there; when it goes on to issue, the use
\* is there or the token is revoked.
AskedInTime ==
  \A c \in Requests :
    /\ doing[c] = "claim" =>
         /\ readAt[c] <= now
         /\ usedAt[held[c]] = Never \/ readAt[c] <= usedAt[held[c]] + Leeway
    /\ doing[c] = "issue" =>
         \/ usedAt[held[c]] # Never /\ readAt[c] <= usedAt[held[c]] + Leeway
         \/ revoked[held[c]]

\* A sealed family keeps its rows, and no rotation of it is under way: none
\* could start, for every row is revoked.
SealedFamiliesRest == \A f \in sealed : RowsOf(f) # {} /\ ~Rotating(f)

\* What is in flight of a user, a login or a rotation, has proved the password
\* of the user's last quiet reset or a later one.
NoOldPasswordInFlight ==
  /\ \A u \in Users : locked[u] <= password[u]
  /\ \A c \in Requests :
       /\ doing[c] = "login" => proved[c] >= locked[who[c]]
       /\ doing[c] \in {"claim", "issue"} =>
            born[family[held[c]]] >= locked[UserOf(held[c])]

\* The inductive invariant.
SessionsIndInv ==
  /\ SessionInv /\ SignedOutForGood
  /\ RequestsHoldRows /\ AskedInTime /\ SealedFamiliesRest /\ NoOldPasswordInFlight

-----------------------------------------------------------------------------
LEMMA VerdictIs ==
  ASSUME NEW t \in Tokens, NEW csrf \in BOOLEAN
  PROVE  Verdict(t, csrf) \in {"denied", "reuse", "claim", "issue"}
  BY DEF Verdict

\* The verdicts that let a rotation start.
LEMMA VerdictMeans ==
  ASSUME NEW t \in Tokens, NEW csrf \in BOOLEAN, Verdict(t, csrf) \in {"claim", "issue"}
  PROVE  /\ ~revoked[t]
         /\ Verdict(t, csrf) = "claim" => usedAt[t] = Never
         /\ Verdict(t, csrf) = "issue" => usedAt[t] # Never /\ ~(now > usedAt[t] + Leeway)
  <1>1. CASE revoked[t]
    BY <1>1 DEF Verdict
  <1>2. CASE ~revoked[t] /\ usedAt[t] # Never /\ now > usedAt[t] + Leeway
    BY <1>2 DEF Verdict
  <1>3. CASE ~revoked[t] /\ ~(usedAt[t] # Never /\ now > usedAt[t] + Leeway)
    BY <1>3 DEF Verdict
  <1> QED
    BY <1>1, <1>2, <1>3

-----------------------------------------------------------------------------
\* Types, together with what a request has in hand.
SessionTypes == TypeOK /\ RequestsHoldRows

LEMMA SessionTypesInit == Init => SessionTypes
  BY SessionAssumption DEF Init, SessionTypes, TypeOK, RequestsHoldRows, Never

LEMMA SessionTypesNext == SessionTypes /\ [Next]_vars => SessionTypes'
  <1> SUFFICES ASSUME SessionTypes, [Next]_vars PROVE SessionTypes'
    OBVIOUS
  <1> USE SessionAssumption DEF SessionTypes, TypeOK, RequestsHoldRows, Exists
  <1>1. ASSUME NEW c \in Requests, NEW t \in Tokens, NEW csrf \in BOOLEAN, Present(c, t, csrf)
        PROVE  SessionTypes'
    <2>1. Verdict(t, csrf) \in {"denied", "reuse", "claim", "issue"}
      BY VerdictIs
    <2> QED
      BY <1>1, <2>1 DEF Present, Goes, rowVars, history
  <1>2. ASSUME NEW c \in Requests, NEW t \in Tokens, LogoutRead(c, t)
        PROVE  SessionTypes'
    BY <1>2 DEF LogoutRead, Goes, rowVars, history
  <1>3. ASSUME NEW c \in Requests, NEW u \in Users, LoginCheck(c, u) \/ ResetHash(c, u)
        PROVE  SessionTypes'
    <2>1. CASE LoginCheck(c, u)
      BY <2>1 DEF LoginCheck, Goes, rowVars, history
    <2>2. CASE ResetHash(c, u)
      BY <2>2 DEF ResetHash, Goes, rowVars, history
    <2> QED
      BY <1>3, <2>1, <2>2
  <1>4. ASSUME NEW c \in Requests, KillFamily(c)
        PROVE  SessionTypes'
    BY <1>4 DEF KillFamily, Revoke, Goes
  <1>5. ASSUME NEW c \in Requests, Logout(c)
        PROVE  SessionTypes'
    BY <1>5 DEF Logout, Revoke, Ends, Goes
  <1>6. ASSUME NEW c \in Requests, ResetRevoke(c)
        PROVE  SessionTypes'
    <2>1. /\ revoked' \in [Tokens -> BOOLEAN] /\ sealed' \subseteq Families
          /\ UNCHANGED <<now, family, deadline, usedAt, parent, askedAt, born, password>>
      BY <1>6 DEF ResetRevoke, Revoke, UserFamilies
    <2>2. /\ doing' = [doing EXCEPT ![c] = "nothing"] /\ held' = [held EXCEPT ![c] = None]
          /\ who' = [who EXCEPT ![c] = None] /\ readAt' = [readAt EXCEPT ![c] = 0]
          /\ proved' = [proved EXCEPT ![c] = 0]
      BY <1>6 DEF ResetRevoke, Ends, Goes
    <2>3. locked' \in [Users -> 0 .. ResetMax]
      BY <1>6 DEF ResetRevoke
    <2> QED
      BY <2>1, <2>2, <2>3
  <1>7. ASSUME NEW c \in Requests, Claim(c)
        PROVE  SessionTypes'
    BY <1>7 DEF Claim, Goes, history
  <1>8. ASSUME NEW c \in Requests, NEW t \in Tokens, NEW f \in Families, NEW d \in 0 .. Horizon + Ttl,
               Create(c, t, f, d), born' \in [Families -> 0 .. ResetMax],
               held[c] \in Tokens \cup {None}
        PROVE  SessionTypes'
    BY <1>8 DEF Create, Goes
  <1>9. ASSUME NEW c \in Requests, Issue(c)
        PROVE  SessionTypes'
    <2>1. PICK t \in Tokens : Create(c, t, family[held[c]], deadline[held[c]])
      BY <1>9 DEF Issue
    <2>2. held[c] \in Tokens /\ family[held[c]] \in Families
      BY <1>9 DEF Issue
    <2> QED
      BY <1>8, <1>9, <2>1, <2>2 DEF Issue
  <1>10. ASSUME NEW c \in Requests, LoginIssue(c)
        PROVE  SessionTypes'
    <2>1. PICK t \in Tokens, f \in UserFamilies(who[c]) :
            Create(c, t, f, now + Ttl) /\ born' = [born EXCEPT ![f] = proved[c]]
      BY <1>10 DEF LoginIssue
    <2>2. f \in Families /\ now + Ttl \in 0 .. Horizon + Ttl
      BY DEF UserFamilies
    <2> QED
      BY <1>8, <2>1, <2>2
  <1>11. ASSUME NEW c \in Requests, Respond(c) \/ Fail(c)
        PROVE  SessionTypes'
    BY <1>11 DEF Respond, Fail, Ends, Goes, rowVars, history
  <1>12. CASE Tick
    BY <1>12 DEF Tick, rowVars, requestVars, history
  <1>13. CASE UNCHANGED vars
    BY <1>13 DEF vars, rowVars, requestVars, history
  <1> QED
    BY <1>1, <1>2, <1>3, <1>4, <1>5, <1>6, <1>7, <1>9, <1>10, <1>11, <1>12, <1>13
       DEF Next, Starts, Proceeds

-----------------------------------------------------------------------------
\* The steps, by what they do to the rows of the table.

\* The three statements that revoke.
LEMMA Revocations ==
  ASSUME SessionTypes, NEW c \in Requests, KillFamily(c) \/ Logout(c) \/ ResetRevoke(c)
  PROVE  \E F \in SUBSET Families : Revoke(F)
  <1>1. doing[c] \in {"reuse", "logout"} => family[held[c]] \in Families
    BY DEF SessionTypes, TypeOK, RequestsHoldRows, Exists
  <1> QED
    BY <1>1 DEF KillFamily, Logout, ResetRevoke, UserFamilies

\* The two INSERTs.
LEMMA Inserts ==
  ASSUME SessionTypes, NEW c \in Requests, Issue(c) \/ LoginIssue(c)
  PROVE  \E t, f, d :
           /\ t \in Tokens /\ f \in Families
           /\ Create(c, t, f, d)
           /\ \/ /\ Issue(c) /\ held[c] \in Tokens /\ Exists(held[c])
                 /\ f = family[held[c]] /\ d = deadline[held[c]]
                 /\ UNCHANGED born
              \/ /\ LoginIssue(c) /\ f \in UserFamilies(who[c]) /\ RowsOf(f) = {}
                 /\ held[c] = None
                 /\ born' = [born EXCEPT ![f] = proved[c]]
  <1>1. CASE Issue(c)
    BY <1>1 DEF Issue, SessionTypes, RequestsHoldRows, TypeOK, Exists
  <1>2. CASE LoginIssue(c)
    BY <1>2 DEF LoginIssue, SessionTypes, RequestsHoldRows, UserFamilies
  <1> QED
    BY <1>1, <1>2

\* Every other step leaves the rows alone but for the mark of a claim.
LEMMA OtherSteps ==
  ASSUME SessionTypes, [Next]_vars,
         ~ \E c \in Requests : \/ KillFamily(c) \/ Logout(c) \/ ResetRevoke(c)
                               \/ Issue(c) \/ LoginIssue(c)
  PROVE  /\ UNCHANGED <<family, deadline, revoked, history>>
         /\ UNCHANGED usedAt \/ \E c \in Requests : Claim(c)
  BY DEF Next, Starts, Proceeds, Present, LogoutRead, LoginCheck, ResetHash, Claim,
         Respond, Fail, Tick, vars, rowVars

-----------------------------------------------------------------------------
LEMMA DeadlineNext ==
  SessionTypes /\ OneDeadlinePerFamily /\ [Next]_vars => OneDeadlinePerFamily'
  <1> SUFFICES ASSUME SessionTypes, OneDeadlinePerFamily, [Next]_vars
               PROVE  OneDeadlinePerFamily'
    OBVIOUS
  <1> USE SessionAssumption DEF SessionTypes, TypeOK, OneDeadlinePerFamily, Exists
  <1>1. ASSUME NEW c \in Requests, KillFamily(c) \/ Logout(c) \/ ResetRevoke(c)
        PROVE  OneDeadlinePerFamily'
    BY <1>1, Revocations DEF Revoke
  <1>2. ASSUME NEW c \in Requests, Issue(c) \/ LoginIssue(c)
        PROVE  OneDeadlinePerFamily'
    <2>1. PICK t, f, d :
            /\ t \in Tokens /\ f \in Families
            /\ Create(c, t, f, d)
            /\ \/ /\ Issue(c) /\ held[c] \in Tokens /\ Exists(held[c])
                  /\ f = family[held[c]] /\ d = deadline[held[c]]
                  /\ UNCHANGED born
               \/ /\ LoginIssue(c) /\ f \in UserFamilies(who[c]) /\ RowsOf(f) = {}
                  /\ held[c] = None
                  /\ born' = [born EXCEPT ![f] = proved[c]]
      BY <1>2, Inserts
    <2>2. /\ family[t] = None /\ f # None
          /\ family' = [family EXCEPT ![t] = f]
          /\ deadline' = [deadline EXCEPT ![t] = d]
      BY <2>1 DEF Create
    <2>3. \A s \in Tokens \ {t} : family[s] = f => deadline[s] = d
      BY <2>1 DEF RowsOf
    <2> QED
      BY <2>2, <2>3
  <1>3. UNCHANGED <<family, deadline>> => OneDeadlinePerFamily'
    OBVIOUS
  <1> QED
    BY <1>1, <1>2, <1>3, OtherSteps

-----------------------------------------------------------------------------
Contemporary == ExchangesAreContemporary /\ AskedInTime

LEMMA ContemporaryInit == Init => Contemporary
  BY DEF Init, Contemporary, ExchangesAreContemporary, AskedInTime, Exists

LEMMA ContemporaryNext ==
  SessionTypes /\ Contemporary /\ [Next]_vars => Contemporary'
  <1> SUFFICES ASSUME SessionTypes, Contemporary, [Next]_vars
               PROVE  Contemporary'
    OBVIOUS
  <1> USE SessionAssumption
      DEF SessionTypes, TypeOK, RequestsHoldRows, Contemporary, AskedInTime,
          ExchangesAreContemporary, Exists, Never
  <1>1. ASSUME NEW c \in Requests, NEW t \in Tokens, NEW csrf \in BOOLEAN, Present(c, t, csrf)
        PROVE  Contemporary'
    <2> DEFINE verdict == Verdict(t, csrf)
    <2>1. verdict \in {"denied", "reuse", "claim", "issue"}
      BY VerdictIs
    <2>2. /\ verdict = "claim" => usedAt[t] = Never
          /\ verdict = "issue" => usedAt[t] # Never /\ ~(now > usedAt[t] + Leeway)
      BY VerdictMeans
    <2>3. /\ doing' = [doing EXCEPT ![c] = verdict]
          /\ verdict # "denied" => held' = [held EXCEPT ![c] = t]
          /\ verdict = "denied" => held' = [held EXCEPT ![c] = None]
          /\ verdict \in {"claim", "issue"} => readAt' = [readAt EXCEPT ![c] = now]
          /\ verdict \notin {"claim", "issue"} => readAt' = readAt
          /\ UNCHANGED <<now, family, usedAt, revoked, parent, askedAt>>
      BY <1>1 DEF Present, Goes, rowVars, history
    <2> HIDE DEF verdict
    <2> QED
      BY <2>1, <2>2, <2>3
  <1>2. ASSUME NEW c \in Requests, KillFamily(c) \/ Logout(c) \/ ResetRevoke(c)
        PROVE  Contemporary'
    <2>1. /\ \A t \in Tokens : revoked[t] => revoked'[t]
          /\ UNCHANGED <<now, family, usedAt, parent, askedAt>>
      BY <1>2, Revocations DEF Revoke
    <2>2. /\ doing'[c] \in {"denied", "nothing"}
          /\ \A b \in Requests \ {c} :
               doing'[b] = doing[b] /\ held'[b] = held[b] /\ readAt'[b] = readAt[b]
      BY <1>2 DEF KillFamily, Logout, ResetRevoke, Ends, Goes
    <2> QED
      BY <2>1, <2>2
  <1>3. ASSUME NEW c \in Requests, Claim(c)
        PROVE  Contemporary'
    <2>1. /\ doing[c] = "claim" /\ held[c] \in Tokens
          /\ usedAt' = IF usedAt[held[c]] = Never /\ ~revoked[held[c]]
                       THEN [usedAt EXCEPT ![held[c]] = now] ELSE usedAt
          /\ doing' = [doing EXCEPT ![c] = "issue"] /\ held' = [held EXCEPT ![c] = held[c]]
          /\ UNCHANGED <<now, family, revoked, readAt, parent, askedAt>>
      BY <1>3 DEF Claim, Goes, history
    <2> QED
      BY <2>1
  <1>4. ASSUME NEW c \in Requests, Issue(c) \/ LoginIssue(c)
        PROVE  Contemporary'
    <2>1. PICK t, f, d :
            /\ t \in Tokens /\ f \in Families
            /\ Create(c, t, f, d) /\ (doing[c] = "issue" \/ held[c] = None)
      BY <1>4, Inserts DEF Issue
    <2> QED
      BY <2>1 DEF Create, Goes
  <1>5. ASSUME NEW c \in Requests,
               \/ \E t \in Tokens : LogoutRead(c, t)
               \/ \E u \in Users : LoginCheck(c, u) \/ ResetHash(c, u)
               \/ Respond(c) \/ Fail(c)
        PROVE  Contemporary'
    <2>1. /\ UNCHANGED <<now, family, usedAt, revoked, parent, askedAt>>
          /\ doing'[c] \in {"logout", "login", "reset", "nothing"}
          /\ \A b \in Requests \ {c} :
               doing'[b] = doing[b] /\ held'[b] = held[b] /\ readAt'[b] = readAt[b]
      BY <1>5 DEF LogoutRead, LoginCheck, ResetHash, Respond, Fail, Ends, Goes, rowVars, history
    <2> QED
      BY <2>1
  <1>6. CASE Tick \/ UNCHANGED vars
    BY <1>6 DEF Tick, vars, rowVars, requestVars, history
  <1> QED
    BY <1>1, <1>2, <1>3, <1>4, <1>5, <1>6 DEF Next, Starts, Proceeds

-----------------------------------------------------------------------------
Sealing == SealedFamiliesStayDead /\ SealedFamiliesRest

LEMMA SealingInit == Init => Sealing
  BY DEF Init, Sealing, SealedFamiliesStayDead, SealedFamiliesRest

\* What another request's rotation is about does not change.
LEMMA RotationsKept ==
  ASSUME SessionTypes, NEW c \in Requests, NEW f \in Families,
         doing'[c] \notin {"claim", "issue"},
         \A b \in Requests \ {c} : doing'[b] = doing[b] /\ held'[b] = held[b],
         \A s \in Tokens : Exists(s) => family'[s] = family[s],
         Rotating(f)'
  PROVE  Rotating(f)
  BY DEF Rotating, SessionTypes, RequestsHoldRows

LEMMA SealingNext ==
  SessionTypes /\ Sealing /\ [Next]_vars => Sealing'
  <1> SUFFICES ASSUME SessionTypes, Sealing, [Next]_vars
               PROVE  Sealing'
    OBVIOUS
  <1>0. /\ sealed \subseteq Families
        /\ family \in [Tokens -> Families \cup {None}] /\ None \notin Families
    BY SessionAssumption DEF SessionTypes, TypeOK
  <1>1. ASSUME NEW c \in Requests, KillFamily(c) \/ Logout(c) \/ ResetRevoke(c)
        PROVE  Sealing'
    <2>1. PICK F \in SUBSET Families : Revoke(F)
      BY <1>1, Revocations
    <2>2. doing'[c] \notin {"claim", "issue"}
      BY <1>1 DEF KillFamily, Logout, ResetRevoke, Ends, Goes, SessionTypes, TypeOK
    <2>3. \A b \in Requests \ {c} : doing'[b] = doing[b] /\ held'[b] = held[b]
      BY <1>1 DEF KillFamily, Logout, ResetRevoke, Ends, Goes, SessionTypes, TypeOK
    <2>4. family' = family /\ \A f \in Families : RowsOf(f)' = RowsOf(f)
      BY <2>1 DEF Revoke, RowsOf
    <2>5. \A f \in Families : Rotating(f)' => Rotating(f)
      BY <2>2, <2>3, <2>4, RotationsKept
    <2>6. SealedFamiliesRest'
      BY <1>0, <2>1, <2>4, <2>5 DEF Sealing, SealedFamiliesRest, Revoke
    <2>7. SealedFamiliesStayDead'
      BY <1>0, <2>1, <2>4 DEF Sealing, SealedFamiliesStayDead, Revoke, Exists
    <2> QED
      BY <2>6, <2>7 DEF Sealing
  <1>2. ASSUME NEW c \in Requests, Issue(c) \/ LoginIssue(c)
        PROVE  Sealing'
    <2>1. PICK t, f, d :
            /\ t \in Tokens /\ f \in Families
            /\ Create(c, t, f, d)
            /\ \/ /\ Issue(c) /\ held[c] \in Tokens /\ Exists(held[c])
                  /\ f = family[held[c]] /\ d = deadline[held[c]]
                  /\ UNCHANGED born
               \/ /\ LoginIssue(c) /\ f \in UserFamilies(who[c]) /\ RowsOf(f) = {}
                  /\ held[c] = None
                  /\ born' = [born EXCEPT ![f] = proved[c]]
      BY <1>2, Inserts
    <2>2. f \notin sealed
      <3>1. Issue(c) /\ f = family[held[c]] => Rotating(f)
        BY DEF Issue, Rotating
      <3> QED
        BY <2>1, <3>1 DEF Sealing, SealedFamiliesRest
    <2>3. /\ ~Exists(t) /\ family' = [family EXCEPT ![t] = f] /\ sealed' = sealed
          /\ revoked' = revoked
      BY <2>1 DEF Create
    <2>4. /\ doing'[c] \notin {"claim", "issue"}
          /\ \A b \in Requests \ {c} : doing'[b] = doing[b] /\ held'[b] = held[b]
      BY <2>1 DEF Create, Goes, SessionTypes, TypeOK
    <2>5. \A s \in Tokens : Exists(s) => family'[s] = family[s]
      BY <1>0, <2>3
    <2>6. \A g \in Families : Rotating(g)' => Rotating(g)
      BY <2>4, <2>5, RotationsKept
    <2>7. \A g \in Families : RowsOf(g) \subseteq RowsOf(g)'
      BY <1>0, <2>5 DEF RowsOf, Exists
    <2>8. SealedFamiliesRest'
      BY <1>0, <2>3, <2>6, <2>7 DEF Sealing, SealedFamiliesRest
    <2>9. SealedFamiliesStayDead'
      BY <1>0, <2>2, <2>3 DEF Sealing, SealedFamiliesStayDead, Exists
    <2> QED
      BY <2>8, <2>9 DEF Sealing
  <1>3. ASSUME UNCHANGED <<family, revoked, sealed>>,
               \A g \in sealed : Rotating(g)' => Rotating(g)
        PROVE  Sealing'
    BY <1>3 DEF Sealing, SealedFamiliesStayDead, SealedFamiliesRest, RowsOf, Exists
  <1>4. ASSUME NEW c \in Requests, NEW t \in Tokens, NEW csrf \in BOOLEAN, Present(c, t, csrf)
        PROVE  Sealing'
    <2>1. Verdict(t, csrf) \in {"claim", "issue"} => ~revoked[t]
      BY VerdictMeans
    <2>2. Verdict(t, csrf) \in {"claim", "issue"} => family[t] \notin sealed
      BY <1>4, <2>1 DEF Present, Sealing, SealedFamiliesStayDead
    <2>3. /\ doing' = [doing EXCEPT ![c] = Verdict(t, csrf)]
          /\ held' = [held EXCEPT ![c] = IF Verdict(t, csrf) = "denied" THEN None ELSE t]
          /\ UNCHANGED <<family, revoked, sealed>>
      BY <1>4 DEF Present, Goes, rowVars, history
    <2>4. \A g \in sealed : Rotating(g)' => Rotating(g)
      BY <2>2, <2>3 DEF Rotating, SessionTypes, TypeOK
    <2> QED
      BY <1>3, <2>3, <2>4
  <1>5. ASSUME NEW c \in Requests, Claim(c)
        PROVE  Sealing'
    <2>1. \A g \in sealed : Rotating(g)' => Rotating(g)
      BY <1>5 DEF Claim, Goes, Rotating, SessionTypes, TypeOK
    <2> QED
      BY <1>3, <1>5, <2>1 DEF Claim, history
  <1>6. ASSUME NEW c \in Requests,
               \/ \E t \in Tokens : LogoutRead(c, t)
               \/ \E u \in Users : LoginCheck(c, u) \/ ResetHash(c, u)
               \/ Respond(c) \/ Fail(c)
        PROVE  Sealing'
    <2>1. UNCHANGED <<family, revoked, sealed>>
      BY <1>6 DEF LogoutRead, LoginCheck, ResetHash, Respond, Fail, rowVars, history
    <2>2. /\ doing'[c] \notin {"claim", "issue"}
          /\ \A b \in Requests \ {c} : doing'[b] = doing[b] /\ held'[b] = held[b]
      BY <1>6 DEF LogoutRead, LoginCheck, ResetHash, Respond, Fail, Ends, Goes, SessionTypes, TypeOK
    <2>3. \A g \in sealed : Rotating(g)' => Rotating(g)
      BY <1>0, <2>1, <2>2, RotationsKept
    <2> QED
      BY <1>3, <2>1, <2>3
  <1>7. CASE Tick \/ UNCHANGED vars
    BY <1>3, <1>7 DEF Tick, vars, rowVars, requestVars, history, Rotating
  <1> QED
    BY <1>1, <1>2, <1>4, <1>5, <1>6, <1>7 DEF Next, Starts, Proceeds

-----------------------------------------------------------------------------
Locking == ResetLocksOutWhenQuiet /\ NoOldPasswordInFlight

LEMMA LockingInit == Init => Locking
  BY SessionAssumption
     DEF Init, Locking, ResetLocksOutWhenQuiet, NoOldPasswordInFlight, Exists, UserOf

LEMMA LockingNext ==
  SessionTypes /\ Locking /\ [Next]_vars => Locking'
  <1> SUFFICES ASSUME SessionTypes, Locking, [Next]_vars
               PROVE  Locking'
    OBVIOUS
  <1> USE SessionAssumption DEF SessionTypes, TypeOK
  <1>1. ASSUME NEW c \in Requests, KillFamily(c) \/ Logout(c),
               NEW F \in SUBSET Families, Revoke(F)
        PROVE  Locking'
    <2>1. /\ UNCHANGED <<family, born, locked, password>>
          /\ \A t \in Tokens : revoked[t] => revoked'[t]
      BY <1>1 DEF KillFamily, Logout, Revoke
    <2>2. /\ doing'[c] \notin {"claim", "issue", "login"}
          /\ \A b \in Requests \ {c} : /\ doing'[b] = doing[b] /\ held'[b] = held[b]
                                       /\ who'[b] = who[b] /\ proved'[b] = proved[b]
      BY <1>1 DEF KillFamily, Logout, Ends, Goes
    <2> QED
      BY <2>1, <2>2 DEF Locking, ResetLocksOutWhenQuiet, NoOldPasswordInFlight, Exists, UserOf
  <1>2. ASSUME NEW c \in Requests, ResetRevoke(c)
        PROVE  Locking'
    <2> DEFINE u == who[c]
    <2>1. u \in Users
      BY <1>2 DEF ResetRevoke, RequestsHoldRows
    <2>2. /\ UNCHANGED <<family, born, password>>
          /\ \A t \in Tokens : revoked[t] => revoked'[t]
          /\ \A t \in Tokens : Exists(t) /\ UserOf(t) = u => revoked'[t]
      BY <1>2 DEF ResetRevoke, Revoke, UserFamilies, UserOf, Exists
    <2>3. /\ doing'[c] \notin {"claim", "issue", "login"}
          /\ \A b \in Requests \ {c} : /\ doing'[b] = doing[b] /\ held'[b] = held[b]
                                       /\ who'[b] = who[b] /\ proved'[b] = proved[b]
      BY <1>2 DEF ResetRevoke, Ends, Goes
    <2>4. CASE locked' = locked
      BY <2>2, <2>3, <2>4
         DEF Locking, ResetLocksOutWhenQuiet, NoOldPasswordInFlight, Exists, UserOf
    <2>5. CASE locked' # locked
      <3>1. /\ locked' = [locked EXCEPT ![u] = password[u]]
            /\ ~LoggingIn(u) /\ \A f \in UserFamilies(u) : ~Rotating(f)
        BY <1>2, <2>5 DEF ResetRevoke
      <3>2. \A b \in Requests :
              /\ doing[b] = "login" => who[b] # u
              /\ doing[b] \in {"claim", "issue"} => UserOf(held[b]) # u
        BY <3>1 DEF LoggingIn, Rotating, UserFamilies, UserOf, RequestsHoldRows, Exists
      <3>3. ResetLocksOutWhenQuiet'
        BY <2>2, <3>1 DEF Locking, ResetLocksOutWhenQuiet, Exists, UserOf
      <3>4. NoOldPasswordInFlight'
        BY <2>1, <2>2, <2>3, <3>1, <3>2
           DEF Locking, NoOldPasswordInFlight, UserOf, RequestsHoldRows, Exists
      <3> QED
        BY <3>3, <3>4 DEF Locking
    <2> QED
      BY <2>4, <2>5
  <1>3. ASSUME NEW c \in Requests, Issue(c) \/ LoginIssue(c)
        PROVE  Locking'
    <2>1. PICK t, f, d :
            /\ t \in Tokens /\ f \in Families
            /\ Create(c, t, f, d)
            /\ \/ /\ Issue(c) /\ held[c] \in Tokens /\ Exists(held[c])
                  /\ f = family[held[c]] /\ d = deadline[held[c]]
                  /\ UNCHANGED born
               \/ /\ LoginIssue(c) /\ f \in UserFamilies(who[c]) /\ RowsOf(f) = {}
                  /\ held[c] = None
                  /\ born' = [born EXCEPT ![f] = proved[c]]
      BY <1>3, Inserts
    <2>2. /\ family[t] = None /\ family' = [family EXCEPT ![t] = f]
          /\ UNCHANGED <<revoked, locked, password>>
          /\ doing'[c] = "issued"
          /\ \A b \in Requests \ {c} : /\ doing'[b] = doing[b] /\ held'[b] = held[b]
                                       /\ who'[b] = who[b] /\ proved'[b] = proved[b]
      BY <2>1 DEF Create, Goes, Exists
    <2>3. born'[f] >= locked[Owner[f]]
      <3>1. CASE Issue(c)
        BY <2>1, <3>1 DEF Issue, LoginIssue, Locking, NoOldPasswordInFlight, UserOf
      <3>2. CASE LoginIssue(c)
        BY <2>1, <3>2 DEF Issue, LoginIssue, Locking, NoOldPasswordInFlight, UserFamilies
      <3> QED
        BY <1>3, <3>1, <3>2
    <2>4. \A s \in Tokens : Exists(s) => s # t /\ born'[family[s]] = born[family[s]]
      BY <2>1, <2>2 DEF RowsOf, Exists
    <2>5. ResetLocksOutWhenQuiet'
      BY <2>2, <2>3, <2>4 DEF Locking, ResetLocksOutWhenQuiet, Exists, UserOf
    <2>6. NoOldPasswordInFlight'
      BY <2>2, <2>4 DEF Locking, NoOldPasswordInFlight, UserOf, RequestsHoldRows, Exists
    <2> QED
      BY <2>5, <2>6 DEF Locking
  <1>4. ASSUME NEW c \in Requests, NEW t \in Tokens, NEW csrf \in BOOLEAN, Present(c, t, csrf)
        PROVE  Locking'
    <2>1. Verdict(t, csrf) \in {"claim", "issue"} => ~revoked[t]
      BY VerdictMeans
    <2>2. Verdict(t, csrf) \in {"claim", "issue"} => born[family[t]] >= locked[UserOf(t)]
      BY <1>4, <2>1 DEF Present, Locking, ResetLocksOutWhenQuiet
    <2>3. Verdict(t, csrf) # "login"
      BY VerdictIs
    <2>4. /\ doing' = [doing EXCEPT ![c] = Verdict(t, csrf)]
          /\ held' = [held EXCEPT ![c] = IF Verdict(t, csrf) = "denied" THEN None ELSE t]
          /\ \A b \in Requests \ {c} : who'[b] = who[b]
          /\ UNCHANGED <<family, revoked, born, locked, password, proved>>
      BY <1>4 DEF Present, Goes, rowVars, history
    <2> QED
      BY <2>2, <2>3, <2>4
         DEF Locking, ResetLocksOutWhenQuiet, NoOldPasswordInFlight, Exists, UserOf
  <1>5. ASSUME NEW c \in Requests, NEW u \in Users, LoginCheck(c, u) \/ ResetHash(c, u)
        PROVE  Locking'
    <2>1. CASE LoginCheck(c, u)
      BY <2>1 DEF LoginCheck, Goes, rowVars, history, Locking, ResetLocksOutWhenQuiet,
                  NoOldPasswordInFlight, Exists, UserOf
    <2>2. CASE ResetHash(c, u)
      BY <2>2 DEF ResetHash, Goes, rowVars, history, Locking, ResetLocksOutWhenQuiet,
                  NoOldPasswordInFlight, Exists, UserOf
    <2> QED
      BY <1>5, <2>1, <2>2
  <1>6. ASSUME NEW c \in Requests,
               (\E t \in Tokens : LogoutRead(c, t)) \/ Claim(c) \/ Respond(c) \/ Fail(c)
        PROVE  Locking'
    <2>1. UNCHANGED <<family, revoked, born, locked, password>>
      BY <1>6 DEF LogoutRead, Claim, Respond, Fail, rowVars, history
    <2>2. /\ doing'[c] # "login"
          /\ doing'[c] \in {"claim", "issue"} =>
               doing[c] \in {"claim", "issue"} /\ held'[c] = held[c]
          /\ \A b \in Requests \ {c} : /\ doing'[b] = doing[b] /\ held'[b] = held[b]
                                       /\ who'[b] = who[b] /\ proved'[b] = proved[b]
      BY <1>6 DEF LogoutRead, Claim, Respond, Fail, Ends, Goes
    <2> QED
      BY <2>1, <2>2 DEF Locking, ResetLocksOutWhenQuiet, NoOldPasswordInFlight, Exists, UserOf
  <1>7. CASE Tick \/ UNCHANGED vars
    BY <1>7 DEF Tick, vars, rowVars, requestVars, history, Locking, ResetLocksOutWhenQuiet,
                NoOldPasswordInFlight, Exists, UserOf
  <1> QED
    BY <1>1, <1>2, <1>3, <1>4, <1>5, <1>6, <1>7, Revocations DEF Next, Starts, Proceeds

-----------------------------------------------------------------------------
LEMMA SessionsInvariant == Spec => []SessionsIndInv
  <1>1. Init => OneDeadlinePerFamily
    BY DEF Init, OneDeadlinePerFamily, Exists
  <1>2. SessionTypes /\ OneDeadlinePerFamily /\ Contemporary /\ Sealing /\ Locking => SessionsIndInv
    BY DEF SessionsIndInv, SessionInv, SignedOutForGood, SessionTypes, Contemporary, Sealing, Locking
  <1> QED
    BY <1>1, <1>2, SessionTypesInit, SessionTypesNext, DeadlineNext, ContemporaryInit,
       ContemporaryNext, SealingInit, SealingNext, LockingInit, LockingNext, PTL DEF Spec

\* session_service.py:26, 108: rotation never extends a family's life, and a
\* token is exchanged only by requests that asked within the leeway after its
\* one use, however many refreshes race on it.
THEOREM RotationIsBounded == Spec => []SessionInv
  <1>1. SessionsIndInv => SessionInv
    BY DEF SessionsIndInv
  <1> QED
    BY <1>1, SessionsInvariant, PTL

\* session_service.py:188, routers/auth.py:267: a family revoked while no
\* rotation of it is in flight never has a live row again, and after a reset
\* that no login or rotation of the user overlaps every live session has been
\* opened with the new password.
THEOREM SignOutsLast == Spec => []SignedOutForGood
  <1>1. SessionsIndInv => SignedOutForGood
    BY DEF SessionsIndInv
  <1> QED
    BY <1>1, SessionsInvariant, PTL

-----------------------------------------------------------------------------
\* The browser.  Its requests are requests of the service, so what holds of
\* sessions holds of them.

\* A request on its way, and what the service has of it.
TripOf(c) ==
  /\ trip[c] = "no" => doing[c] = "nothing" /\ cookie[c] = None
  /\ trip[c] = "sent" => doing[c] = "nothing" /\ cookie[c] \in Tokens
  /\ trip[c] = "leaving" => doing[c] \in {"nothing", "logout"} /\ cookie[c] \in Tokens
  /\ trip[c] = "served" => doing[c] \notin {"nothing", "logout"}
  /\ doing[c] \in {"nothing", "denied", "login"} => held[c] = None
  /\ doing[c] \in {"claim", "issue", "reuse", "logout"} =>
       held[c] = cookie[c] /\ held[c] \in Tokens
  /\ doing[c] = "login" => cookie[c] = None
  /\ doing[c] = "denied" => cookie[c] \in Tokens
  /\ doing[c] = "issued" => held[c] \in Tokens /\ Exists(held[c])
  /\ doing[c] = "reuse" => cookie[c] \in missed
  /\ doing[c] # "reset"
  /\ cookie[c] # None => Exists(cookie[c])

Trips ==
  /\ \A c \in Requests : TripOf(c)
  /\ jar # None => Exists(jar)
  /\ \A t \in Tokens : ~Exists(t) => usedAt[t] = Never /\ ~revoked[t]

\* A token that has been issued and not delivered is known to one request alone,
\* and so is the family of a login.
FreshOf(c) ==
  doing[c] = "issued" =>
    /\ jar # held[c] /\ usedAt[held[c]] = Never
    /\ \A b \in Requests : cookie[b] # held[c]
    /\ \A b \in Requests : b # c /\ doing[b] = "issued" => held[b] # held[c]
    /\ cookie[c] # None => family[held[c]] = family[cookie[c]]
    /\ cookie[c] = None => /\ RowsOf(family[held[c]]) = {held[c]} /\ ~revoked[held[c]]
                           /\ family[held[c]] # home

Fresh == \A c \in Requests : FreshOf(c)

\* A refresh that has not gone wrong has been out for half the leeway at most;
\* a spent cookie in the jar of which none has gone wrong is being replaced by
\* one that was sent before it was spent; so whoever was sent with such a cookie
\* was sent within half the leeway of its use.
UnderWay(c) == trip[c] \in {"sent", "served"} /\ cookie[c] \in Tokens \ missed
Replaces(c, t) ==
  /\ trip[c] = "served" /\ cookie[c] = t /\ doing[c] \in {"issue", "issued"}
  /\ sentAt[c] <= usedAt[t]

Spent ==
  /\ \A c \in Requests : UnderWay(c) => 2 * (now - sentAt[c]) <= Leeway
  /\ jar \in Tokens \ missed /\ usedAt[jar] # Never => \E c \in Requests : Replaces(c, jar)
  /\ \A c \in Requests :
       UnderWay(c) /\ usedAt[cookie[c]] # Never =>
         2 * (sentAt[c] - usedAt[cookie[c]]) <= Leeway

\* The session the browser is in has ended by its deadline, or was killed over a
\* cookie that was missed, or has no revoked row and is in the jar; it is refused
\* for one of the first two reasons only; and no logout of it has been served.
Over == \A t \in RowsOf(home) : deadline[t] <= now
Killed == \E s, t \in RowsOf(home) : revoked[s] /\ t \in missed
Alive == /\ jar \in Tokens /\ family[jar] = home
         /\ \A t \in RowsOf(home) : ~revoked[t]

InSession ==
  home # None =>
    /\ RowsOf(home) # {}
    /\ ~crossed => Over \/ Killed \/ Alive
    /\ \A c \in Requests :
         ~crossed /\ doing[c] = "denied" /\ family[cookie[c]] = home => Over \/ Killed
    /\ \A c \in Requests :
         trip[c] = "leaving" /\ doing[c] = "nothing" => family[cookie[c]] # home

BrowserIndInv ==
  /\ SessionsIndInv /\ BrowserTypeOK
  /\ Trips /\ Fresh /\ Spent /\ InSession

-----------------------------------------------------------------------------
\* Every step of the browser is one of the service, or only the browser's own.
\* Types of what the steps below rewrite.
LEMMA BrowserTypes ==
  ASSUME BrowserIndInv
  PROVE  /\ TypeOK /\ BrowserTypeOK
         /\ None \notin Tokens /\ None \notin Families
         /\ Leeway \in Nat /\ now \in Nat
BY SessionAssumption
   DEF BrowserIndInv, BrowserTypeOK, TypeOK, SessionsIndInv, SessionInv

LEMMA BrowserStep ==
  ASSUME BrowserIndInv, [BrowserNext]_allVars
  PROVE  [Next]_vars
<1>1. CASE BrowserTick \/ UNCHANGED allVars
  BY <1>1 DEF BrowserTick, allVars, Next
<1>2. ASSUME NEW c \in Requests,
             \/ \E u \in Users : SignIn(c, u)
             \/ Send(c) \/ Vanish(c) \/ Serve(c) \/ Deliver(c) \/ Lose(c) \/ Die(c)
             \/ SignedOut(c) \/ Cleared(c)
      PROVE  [Next]_vars
  BY <1>2 DEF SignIn, Send, Vanish, Serve, Deliver, Lose, Die, SignedOut, Cleared,
              Next, Starts, Proceeds
<1>3. ASSUME NEW c \in Requests, Arrive(c) \/ SignOut(c)
      PROVE  [Next]_vars
  <2>1. Arrive(c) => cookie[c] \in Tokens
    BY DEF Arrive, BrowserIndInv, Trips, TripOf
  <2>2. SignOut(c) => jar \in Tokens
    BY BrowserTypes DEF SignOut, BrowserTypeOK
  <2> QED BY <1>3, <2>1, <2>2 DEF Arrive, SignOut, Next, Starts
<1> QED BY <1>1, <1>2, <1>3 DEF BrowserNext

LEMMA BrowserStart == BrowserInit => Init
BY DEF BrowserInit

LEMMA SessionsInvariantStep == SessionsIndInv /\ [Next]_vars => SessionsIndInv'
<1>1. SessionTypes /\ OneDeadlinePerFamily /\ Contemporary /\ Sealing /\ Locking <=> SessionsIndInv
  BY DEF SessionsIndInv, SessionInv, SignedOutForGood, SessionTypes, Contemporary, Sealing, Locking
<1>2. (SessionTypes /\ OneDeadlinePerFamily /\ Contemporary /\ Sealing /\ Locking)'
        <=> SessionsIndInv'
  BY DEF SessionsIndInv, SessionInv, SignedOutForGood, SessionTypes, Contemporary, Sealing, Locking
<1> QED BY <1>1, <1>2, SessionTypesNext, DeadlineNext, ContemporaryNext, SealingNext, LockingNext

\* A request is taken for a thief's only over a cookie that was missed: it was on
\* its way for half the leeway at most, and was sent within half the leeway of the
\* cookie's use.
LEMMA NotAccused ==
  ASSUME BrowserIndInv, NEW c \in Requests, trip[c] = "sent"
  PROVE  /\ cookie[c] \in Tokens
         /\ Verdict(cookie[c], TRUE) \in {"denied", "claim", "issue", "reuse"}
         /\ Verdict(cookie[c], TRUE) = "denied" =>
              revoked[cookie[c]] \/ deadline[cookie[c]] <= now
         /\ Verdict(cookie[c], TRUE) = "reuse" => cookie[c] \in missed
<1> DEFINE t == cookie[c]
<1>1. t \in Tokens /\ t # None
  BY BrowserTypes DEF BrowserIndInv, Trips, TripOf
<1>2. /\ now \in Nat /\ sentAt[c] \in Nat /\ Leeway \in Nat
      /\ usedAt[t] # Never => usedAt[t] \in Nat
  BY <1>1, BrowserTypes DEF BrowserTypeOK, TypeOK
<1>3. ASSUME t \notin missed, usedAt[t] # Never
      PROVE  ~(now > usedAt[t] + Leeway)
  <2>1. UnderWay(c)
    BY <1>1, <1>3 DEF UnderWay
  <2>2. 2 * (now - sentAt[c]) <= Leeway
    BY <2>1 DEF BrowserIndInv, Spent
  <2>3. 2 * (sentAt[c] - usedAt[t]) <= Leeway
    BY <1>3, <2>1 DEF BrowserIndInv, Spent
  <2> HIDE DEF t
  <2> QED BY <1>2, <1>3, <2>2, <2>3
<1> HIDE DEF t
<1>4. /\ Verdict(t, TRUE) \in {"denied", "claim", "issue", "reuse"}
      /\ Verdict(t, TRUE) = "denied" => revoked[t] \/ deadline[t] <= now
      /\ Verdict(t, TRUE) = "reuse" => usedAt[t] # Never /\ now > usedAt[t] + Leeway
  <2>1. CASE revoked[t]
    BY <2>1 DEF Verdict
  <2>2. CASE ~revoked[t] /\ usedAt[t] # Never /\ now > usedAt[t] + Leeway
    BY <2>2 DEF Verdict
  <2>3. CASE ~revoked[t] /\ ~(usedAt[t] # Never /\ now > usedAt[t] + Leeway) /\ deadline[t] <= now
    BY <2>3 DEF Verdict
  <2>4. CASE ~revoked[t] /\ ~(usedAt[t] # Never /\ now > usedAt[t] + Leeway) /\ ~(deadline[t] <= now)
    BY <2>4 DEF Verdict
  <2> QED BY <2>1, <2>2, <2>3, <2>4
<1> QED BY <1>1, <1>3, <1>4 DEF t

-----------------------------------------------------------------------------
LEMMA InitBrowserInd == BrowserInit => BrowserIndInv
<1> SUFFICES ASSUME BrowserInit PROVE BrowserIndInv
  OBVIOUS
<1>1. Init
  BY DEF BrowserInit
<1>2. SessionsIndInv
  <2>1. OneDeadlinePerFamily
    BY <1>1 DEF Init, OneDeadlinePerFamily, Exists
  <2> QED BY <1>1, <2>1, SessionTypesInit, ContemporaryInit, SealingInit, LockingInit
       DEF SessionsIndInv, SessionInv, SignedOutForGood, SessionTypes, Contemporary, Sealing,
           Locking
<1>3. TypeOK
  BY <1>2 DEF SessionsIndInv, SessionInv
<1>4. BrowserTypeOK
  <2>1. now = 0 /\ 0 \in 0 .. now
    BY <1>1 DEF Init
  <2> HIDE DEF Init
  <2> QED BY <1>3, <2>1 DEF BrowserInit, BrowserTypeOK
<1>5. Trips
  BY <1>1, SessionAssumption DEF BrowserInit, Init, Trips, TripOf, Exists
<1>6. Fresh /\ InSession
  BY <1>1 DEF BrowserInit, Init, Fresh, FreshOf, InSession
<1>7. Spent
  <2>1. None \notin Tokens
    BY SessionAssumption, <1>4 DEF BrowserTypeOK, TypeOK
  <2> QED BY <1>1, <2>1 DEF BrowserInit, Init, Spent, UnderWay
<1> QED BY <1>2, <1>4, <1>5, <1>6, <1>7 DEF BrowserIndInv

\* With time, refreshes become overdue.
LEMMA TickBrowserInd ==
  ASSUME BrowserIndInv, BrowserTick
  PROVE  BrowserTypeOK' /\ Trips' /\ Fresh' /\ Spent' /\ InSession'
<1>1. /\ UNCHANGED <<family, deadline, usedAt, revoked, doing, held, jar, trip, cookie, sentAt,
                     home, crossed>>
      /\ now' = now + 1 /\ missed' = missed \cup {cookie[c] : c \in Overdue}
      /\ TypeOK'
  BY BrowserStep, SessionsInvariantStep
     DEF BrowserTick, Tick, BrowserNext, BrowserIndInv, SessionsIndInv, SessionInv, rowVars,
         requestVars
<1>2. now \in Nat /\ Leeway \in Nat /\ sentAt \in [Requests -> 0 .. now]
      /\ deadline \in [Tokens -> 0 .. Horizon + Ttl] /\ Horizon + Ttl \in Nat
      /\ cookie \in [Requests -> Tokens \cup {None}] /\ None \notin Tokens
  BY BrowserTypes, SessionAssumption DEF BrowserTypeOK, TypeOK
<1>3. \A t \in Tokens : deadline[t] <= now => deadline[t] <= now + 1
  BY <1>2
<1>4. missed \subseteq missed' /\ missed' \subseteq Tokens
  <2>1. \A c \in Overdue : cookie[c] \in Tokens
    BY <1>2 DEF Overdue
  <2>2. missed \subseteq Tokens
    BY BrowserTypes DEF BrowserTypeOK
  <2> QED BY <1>1, <2>1, <2>2
<1>5. sentAt \in [Requests -> 0 .. now + 1]
  BY <1>2
<1>6. BrowserTypeOK'
  BY <1>1, <1>4, <1>5 DEF BrowserIndInv, BrowserTypeOK
<1>7. Trips'
  BY <1>1, <1>4 DEF BrowserIndInv, Trips, TripOf, Exists
<1>8. Fresh'
  BY <1>1 DEF BrowserIndInv, Fresh, FreshOf, RowsOf
<1>9. Spent'
  <2>1. ASSUME NEW c \in Requests, UnderWay(c)'
        PROVE  UnderWay(c) /\ 2 * (now + 1 - sentAt[c]) <= Leeway
    <3>1. UnderWay(c)
      BY <1>1, <1>4, <2>1 DEF UnderWay
    <3>2. c \notin Overdue
      BY <1>1, <2>1 DEF UnderWay
    <3>3. ~(2 * (now + 1 - sentAt[c]) > Leeway)
      BY <1>2, <3>1, <3>2 DEF Overdue, UnderWay
    <3>4. sentAt[c] \in Nat
      BY <1>2
    <3> QED BY <1>2, <3>1, <3>3, <3>4
  <2>2. jar' \in Tokens \ missed' => jar \in Tokens \ missed /\ jar' = jar
    BY <1>1, <1>4
  <2>3. ASSUME jar' \in Tokens \ missed', usedAt'[jar'] # Never
        PROVE  \E c \in Requests : Replaces(c, jar)'
    <3>1. PICK c \in Requests : Replaces(c, jar)
      BY <1>1, <2>2, <2>3 DEF BrowserIndInv, Spent
    <3> QED BY <1>1, <3>1 DEF Replaces
  <2>4. ASSUME NEW c \in Requests, UnderWay(c)'
        PROVE  2 * (now' - sentAt'[c]) <= Leeway
    <3>1. 2 * (now + 1 - sentAt[c]) <= Leeway
      BY <2>1, <2>4
    <3>2. sentAt' = sentAt /\ now' = now + 1 /\ now \in Nat /\ sentAt[c] \in Nat
      BY <1>1, <1>2
    <3> QED BY <3>1, <3>2
  <2>5. \A c \in Requests :
          UnderWay(c)' /\ usedAt'[cookie'[c]] # Never =>
            2 * (sentAt'[c] - usedAt'[cookie'[c]]) <= Leeway
    BY <1>1, <2>1 DEF BrowserIndInv, Spent
  <2> QED BY <2>3, <2>4, <2>5 DEF Spent
<1>10. InSession'
  BY <1>1, <1>3, <1>4
     DEF BrowserIndInv, InSession, Over, Killed, Alive, RowsOf
<1> QED BY <1>6, <1>7, <1>8, <1>9, <1>10

-----------------------------------------------------------------------------
\* A request is sent: its trip begins, with the cookie of the moment or none.
LEMMA DepartureBrowserInd ==
  ASSUME BrowserIndInv, TypeOK', NEW c \in Requests, NEW state, NEW t, NEW d,
         trip[c] = "no", Travels(c, state, t),
         UNCHANGED <<now, rowVars, jar, home, crossed, missed>>,
         doing' = [doing EXCEPT ![c] = d], t = None \/ t = jar,
         \/ state = "sent" /\ d = "nothing" /\ t # None /\ held' = held
         \/ state = "served" /\ d = "login" /\ t = None /\ held' = [held EXCEPT ![c] = None]
         \/ state = "leaving" /\ d = "logout" /\ t # None /\ held' = [held EXCEPT ![c] = t]
  PROVE  BrowserTypeOK' /\ Trips' /\ Fresh' /\ Spent' /\ InSession'
<1>1. /\ trip' = [trip EXCEPT ![c] = state] /\ cookie' = [cookie EXCEPT ![c] = t]
      /\ sentAt' = [sentAt EXCEPT ![c] = IF t = None THEN 0 ELSE now] /\ jar' = jar /\ now' = now
      /\ UNCHANGED <<family, deadline, usedAt, revoked, home, crossed, missed>>
      /\ t \in Tokens \cup {None} /\ TypeOK'
  BY BrowserTypes DEF Travels, rowVars, BrowserTypeOK
<1>2. /\ doing \in [Requests -> {"nothing", "denied", "issued", "claim", "issue",
                                 "reuse", "logout", "login", "reset"}]
      /\ held \in [Requests -> Tokens \cup {None}]
      /\ trip \in [Requests -> {"no", "sent", "served", "leaving"}]
      /\ cookie \in [Requests -> Tokens \cup {None}] /\ jar \in Tokens \cup {None}
      /\ sentAt \in [Requests -> 0 .. now] /\ now \in Nat /\ Leeway \in Nat
      /\ None \notin Tokens /\ missed \subseteq Tokens
      /\ home \in Families \cup {None} /\ crossed \in BOOLEAN
  BY BrowserTypes DEF BrowserTypeOK, TypeOK
<1>3. BrowserTypeOK'
  <2>1. 0 \in 0 .. now /\ now \in 0 .. now
    BY <1>2
  <2>2. sentAt' \in [Requests -> 0 .. now]
    BY <1>1, <1>2, <2>1
  <2> QED BY <1>1, <1>2, <2>2 DEF BrowserTypeOK
<1>4. \A b \in Requests \ {c} :
        /\ trip'[b] = trip[b] /\ cookie'[b] = cookie[b] /\ sentAt'[b] = sentAt[b]
        /\ doing'[b] = doing[b] /\ held'[b] = held[b]
  BY <1>1, <1>2
<1>5. /\ trip'[c] = state /\ cookie'[c] = t /\ doing'[c] = d
      /\ t # None => sentAt'[c] = now
      /\ state = "sent" => held'[c] = held[c]
      /\ d = "login" => held'[c] = None
      /\ d = "logout" => held'[c] = t
  BY <1>1, <1>2
<1>6. TripOf(c) /\ Trips /\ Fresh /\ Spent /\ InSession
  BY DEF BrowserIndInv, Trips
<1>7. \A b \in Requests \ {c} : TripOf(b)'
  BY <1>1, <1>4, <1>6 DEF Trips, TripOf, Exists
<1>8. TripOf(c)'
  BY <1>1, <1>2, <1>5, <1>6 DEF Trips, TripOf, Exists
<1>9. Trips'
  BY <1>1, <1>7, <1>8, <1>6 DEF Trips, Exists
<1>10. Fresh'
  <2> SUFFICES ASSUME NEW b \in Requests, doing'[b] = "issued" PROVE FreshOf(b)'
    BY DEF Fresh, FreshOf
  <2>1. b # c /\ FreshOf(b) /\ doing[b] = "issued" /\ held[b] \in Tokens
    BY <1>4, <1>5, <1>6 DEF Fresh, Trips, TripOf
  <2>2. \A e \in Requests : cookie'[e] # held[b]
    BY <1>2, <1>4, <1>5, <2>1 DEF FreshOf
  <2>3. \A e \in Requests : e # b /\ doing'[e] = "issued" => held'[e] # held[b]
    BY <1>4, <1>5, <2>1 DEF FreshOf
  <2> QED BY <1>1, <1>4, <2>1, <2>2, <2>3 DEF FreshOf, RowsOf
<1>11. Spent'
  <2>1. ASSUME t \in Tokens \ missed, usedAt[t] # Never PROVE 2 * (now - usedAt[t]) <= Leeway
    <3>1. PICK e \in Requests : Replaces(e, t)
      BY <1>2, <1>6, <2>1 DEF Spent
    <3>2. UnderWay(e)
      BY <2>1, <3>1 DEF Replaces, UnderWay
    <3>3. 2 * (now - sentAt[e]) <= Leeway
      BY <1>6, <3>2 DEF Spent
    <3>4. usedAt[t] \in Nat /\ sentAt[e] \in Nat
      BY <1>2, <2>1, BrowserTypes DEF TypeOK
    <3> QED BY <1>2, <3>1, <3>3, <3>4 DEF Replaces
  <2>2. \A b \in Requests \ {c} : UnderWay(b)' => UnderWay(b)
    BY <1>1, <1>4 DEF UnderWay
  <2>3. UnderWay(c)' => t \in Tokens \ missed /\ sentAt'[c] = now
    BY <1>1, <1>2, <1>5 DEF UnderWay
  <2>4. \A e \in Requests : UnderWay(e)' => 2 * (now' - sentAt'[e]) <= Leeway
    <3>1. UnderWay(c)' => 2 * (now' - sentAt'[c]) <= Leeway
      BY <1>1, <1>2, <2>3
    <3> QED BY <1>1, <1>4, <1>6, <2>2, <3>1 DEF Spent
  <2>5. \A e \in Requests :
          UnderWay(e)' /\ usedAt'[cookie'[e]] # Never =>
            2 * (sentAt'[e] - usedAt'[cookie'[e]]) <= Leeway
    <3>1. UnderWay(c)' /\ usedAt'[cookie'[c]] # Never =>
            2 * (sentAt'[c] - usedAt'[cookie'[c]]) <= Leeway
      BY <1>1, <1>5, <2>1, <2>3
    <3>2. \A b \in Requests \ {c} :
            UnderWay(b)' /\ usedAt'[cookie'[b]] # Never =>
              2 * (sentAt'[b] - usedAt'[cookie'[b]]) <= Leeway
      BY <1>1, <1>4, <1>6, <2>2 DEF Spent
    <3> QED BY <3>1, <3>2
  <2>6. ASSUME jar' \in Tokens \ missed', usedAt'[jar'] # Never
        PROVE  \E e \in Requests : Replaces(e, jar)'
    <3>1. PICK e \in Requests : Replaces(e, jar)
      BY <1>1, <1>6, <2>6 DEF Spent
    <3>2. e # c
      BY <3>1 DEF Replaces
    <3> QED BY <1>1, <1>4, <3>1, <3>2 DEF Replaces
  <2> QED BY <2>4, <2>5, <2>6 DEF Spent
<1>12. InSession'
  <2>1. \A e \in Requests : doing'[e] = "denied" => /\ doing[e] = "denied"
                                                    /\ cookie'[e] = cookie[e]
    BY <1>4, <1>5
  <2>2. \A e \in Requests : trip'[e] = "leaving" /\ doing'[e] = "nothing" =>
                              /\ trip[e] = "leaving" /\ doing[e] = "nothing"
                              /\ cookie'[e] = cookie[e]
    BY <1>4, <1>5
  <2> QED BY <1>1, <1>6, <2>1, <2>2 DEF InSession, Over, Killed, Alive, RowsOf
<1> QED BY <1>3, <1>9, <1>10, <1>11, <1>12

-----------------------------------------------------------------------------
\* The service reads the row: the request is refused, accused, to claim or to
\* issue.  One of the session the browser is in is refused for its deadline, or
\* because the session was killed.
LEMMA ArriveBrowserInd ==
  ASSUME BrowserIndInv, TypeOK', NEW c \in Requests, Arrive(c)
  PROVE  BrowserTypeOK' /\ Trips' /\ Fresh' /\ Spent' /\ InSession'
<1> DEFINE t == cookie[c]
<1>1. PICK v : v = Verdict(t, TRUE)
  OBVIOUS
<1>2. /\ trip[c] = "sent" /\ t \in Tokens /\ v \in {"denied", "claim", "issue", "reuse"}
      /\ v = "denied" => revoked[t] \/ deadline[t] <= now
      /\ v = "reuse" => t \in missed
  BY <1>1, NotAccused DEF Arrive
<1>3. /\ trip' = [trip EXCEPT ![c] = "served"] /\ doing' = [doing EXCEPT ![c] = v]
      /\ held' = [held EXCEPT ![c] = IF v = "denied" THEN None ELSE t]
      /\ UNCHANGED <<now, family, deadline, usedAt, revoked, jar, cookie, sentAt, home, crossed,
                     missed>>
  BY <1>1 DEF Arrive, Present, Goes, rowVars
<1>4. /\ doing \in [Requests -> {"nothing", "denied", "issued", "claim", "issue",
                                 "reuse", "logout", "login", "reset"}]
      /\ held \in [Requests -> Tokens \cup {None}]
      /\ trip \in [Requests -> {"no", "sent", "served", "leaving"}]
      /\ cookie \in [Requests -> Tokens \cup {None}] /\ None \notin Tokens
  BY BrowserTypes DEF BrowserTypeOK, TypeOK
<1>5. BrowserTypeOK'
  BY <1>3, <1>4 DEF BrowserIndInv, BrowserTypeOK
<1>6. Trips /\ TripOf(c) /\ Fresh /\ Spent /\ InSession
  BY DEF BrowserIndInv, Trips
<1> HIDE DEF t
<1>7. \A b \in Requests \ {c} :
        trip'[b] = trip[b] /\ doing'[b] = doing[b] /\ held'[b] = held[b]
  BY <1>3, <1>4
<1>8. /\ trip'[c] = "served" /\ doing'[c] = v
      /\ v = "denied" => held'[c] = None
      /\ v # "denied" => held'[c] = t
  BY <1>3, <1>4
<1>9. \A b \in Requests \ {c} : TripOf(b)'
  BY <1>3, <1>6, <1>7 DEF Trips, TripOf, Exists
<1>10. TripOf(c)'
  BY <1>2, <1>3, <1>4, <1>6, <1>8 DEF TripOf, Exists, t
<1>11. Trips'
  BY <1>3, <1>6, <1>9, <1>10 DEF Trips, Exists
<1>12. Fresh'
  BY <1>2, <1>3, <1>6, <1>7, <1>8 DEF Fresh, FreshOf, RowsOf
<1>13. Spent'
  <2>1. \A b \in Requests : UnderWay(b)' => UnderWay(b)
    BY <1>2, <1>3, <1>7 DEF UnderWay
  <2>2. ASSUME jar \in Tokens \ missed, usedAt[jar] # Never
        PROVE  \E b \in Requests : Replaces(b, jar)'
    <3>1. PICK b \in Requests : Replaces(b, jar)
      BY <1>6, <2>2 DEF Spent
    <3>2. b # c
      BY <1>2, <3>1 DEF Replaces
    <3> QED BY <1>3, <1>7, <3>1, <3>2 DEF Replaces
  <2> QED BY <1>3, <1>6, <2>1, <2>2 DEF Spent
<1>14. InSession'
  <2>1. ASSUME home # None, ~crossed, v = "denied", family[t] = home PROVE Over \/ Killed
    <3>1. t \in RowsOf(home) /\ Exists(t)
      BY <1>2, <1>4, <1>6, <2>1 DEF RowsOf, Exists
    <3>2. \A s \in RowsOf(home) : deadline[s] = deadline[t]
      BY <1>2, <2>1, <3>1 DEF BrowserIndInv, SessionsIndInv, SessionInv, OneDeadlinePerFamily, RowsOf
    <3>3. Alive => deadline[t] <= now
      BY <1>2, <2>1, <3>1 DEF Alive
    <3> QED BY <1>6, <2>1, <3>2, <3>3 DEF InSession, Over
  <2>2. \A e \in Requests : doing'[e] = "denied" => e = c \/ doing[e] = "denied"
    BY <1>7
  <2>3. \A e \in Requests : trip'[e] = "leaving" /\ doing'[e] = "nothing" =>
                              trip[e] = "leaving" /\ doing[e] = "nothing"
    BY <1>7, <1>8
  <2> QED BY <1>3, <1>6, <1>8, <2>1, <2>2, <2>3 DEF InSession, Over, Killed, Alive, RowsOf, t
<1> QED BY <1>5, <1>11, <1>12, <1>13, <1>14

-----------------------------------------------------------------------------
\* A claim spends the token of the request's cookie, after the request was sent.
LEMMA ClaimBrowserInd ==
  ASSUME BrowserIndInv, TypeOK', NEW c \in Requests, Claim(c), UNCHANGED browserVars
  PROVE  BrowserTypeOK' /\ Trips' /\ Fresh' /\ Spent' /\ InSession'
<1> DEFINE t == held[c]
<1>1. /\ doing \in [Requests -> {"nothing", "denied", "issued", "claim", "issue",
                                 "reuse", "logout", "login", "reset"}]
      /\ held \in [Requests -> Tokens \cup {None}]
      /\ usedAt \in [Tokens -> {Never} \cup 0 .. now] /\ now \in Nat /\ Leeway \in Nat
      /\ sentAt \in [Requests -> 0 .. now]
      /\ cookie \in [Requests -> Tokens \cup {None}] /\ None \notin Tokens
      /\ trip \in [Requests -> {"no", "sent", "served", "leaving"}]
  BY BrowserTypes DEF BrowserTypeOK, TypeOK
<1>2. Trips /\ TripOf(c) /\ Fresh /\ Spent /\ InSession
  BY DEF BrowserIndInv, Trips
<1>3. /\ doing[c] = "claim" /\ t = cookie[c] /\ t \in Tokens /\ trip[c] = "served" /\ Exists(t)
  BY <1>1, <1>2 DEF Claim, TripOf
<1>4. /\ doing' = [doing EXCEPT ![c] = "issue"] /\ held' = held
      /\ UNCHANGED <<now, family, deadline, revoked, jar, trip, cookie, sentAt, home, crossed,
                     missed>>
      /\ usedAt' = usedAt \/ (usedAt[t] = Never /\ usedAt' = [usedAt EXCEPT ![t] = now])
  BY <1>1 DEF Claim, Goes, browserVars
<1> HIDE DEF t
<1>5. BrowserTypeOK'
  BY <1>4 DEF BrowserIndInv, BrowserTypeOK
<1>6. /\ doing'[c] = "issue"
      /\ \A b \in Requests \ {c} : doing'[b] = doing[b]
      /\ \A s \in Tokens \ {t} : usedAt'[s] = usedAt[s]
      /\ usedAt'[t] = usedAt[t] \/ (usedAt[t] = Never /\ usedAt'[t] = now)
  BY <1>1, <1>3, <1>4
<1>7. Trips'
  <2>1. \A b \in Requests \ {c} : TripOf(b)'
    BY <1>2, <1>4, <1>6 DEF Trips, TripOf, Exists
  <2>2. TripOf(c)'
    BY <1>2, <1>3, <1>4, <1>6 DEF TripOf, Exists, t
  <2> QED BY <1>2, <1>3, <1>4, <1>6, <2>1, <2>2 DEF Trips, Exists
<1>8. Fresh'
  <2> SUFFICES ASSUME NEW b \in Requests, doing'[b] = "issued" PROVE FreshOf(b)'
    BY DEF Fresh, FreshOf
  <2>1. b # c /\ doing[b] = "issued" /\ FreshOf(b) /\ held[b] \in Tokens
    BY <1>2, <1>6 DEF Fresh, Trips, TripOf
  <2>2. held[b] # t
    BY <1>3, <2>1 DEF FreshOf
  <2>3. \A e \in Requests : doing'[e] = "issued" => doing[e] = "issued"
    BY <1>6
  <2> QED BY <1>4, <1>6, <2>1, <2>2, <2>3 DEF FreshOf, RowsOf
<1>9. Spent'
  <2>1. ASSUME jar \in Tokens \ missed, usedAt'[jar] # Never
        PROVE  \E e \in Requests : Replaces(e, jar)'
    <3>1. CASE usedAt'[jar] = usedAt[jar]
      <4>1. PICK e \in Requests : Replaces(e, jar)
        BY <1>2, <2>1, <3>1 DEF Spent
      <4>2. e # c
        BY <1>3, <4>1 DEF Replaces
      <4> QED BY <1>4, <1>6, <3>1, <4>1, <4>2 DEF Replaces
    <3>2. CASE usedAt'[jar] # usedAt[jar]
      <4>1. jar = t /\ usedAt'[jar] = now
        BY <1>6, <2>1, <3>2
      <4>2. sentAt[c] <= now
        BY <1>1
      <4> QED BY <1>3, <1>4, <1>6, <4>1, <4>2 DEF Replaces
    <3> QED BY <3>1, <3>2
  <2>2. \A e \in Requests : UnderWay(e)' => UnderWay(e)
    BY <1>4 DEF UnderWay
  <2>3. ASSUME NEW e \in Requests, UnderWay(e), usedAt'[cookie[e]] # Never
        PROVE  2 * (sentAt[e] - usedAt'[cookie[e]]) <= Leeway
    <3>1. CASE usedAt'[cookie[e]] = usedAt[cookie[e]]
      BY <1>2, <2>3, <3>1 DEF Spent
    <3>2. CASE usedAt'[cookie[e]] # usedAt[cookie[e]]
      <4>1. usedAt'[cookie[e]] = now /\ sentAt[e] \in 0 .. now
        BY <1>1, <1>6, <2>3, <3>2 DEF UnderWay
      <4> QED BY <1>1, <4>1
    <3> QED BY <3>1, <3>2
  <2> QED BY <1>2, <1>4, <2>1, <2>2, <2>3 DEF Spent
<1>10. InSession'
  <2>1. \A e \in Requests : doing'[e] = "denied" => doing[e] = "denied"
    BY <1>6
  <2>2. \A e \in Requests : doing'[e] = "nothing" => doing[e] = "nothing"
    BY <1>6
  <2> QED BY <1>2, <1>4, <2>1, <2>2 DEF InSession, Over, Killed, Alive, RowsOf
<1> QED BY <1>5, <1>7, <1>8, <1>9, <1>10

-----------------------------------------------------------------------------
\* The two INSERTs: a token that nobody knows, in the family of the cookie or in
\* one of its own.
LEMMA InsertBrowserInd ==
  ASSUME BrowserIndInv, TypeOK', OneDeadlinePerFamily', NEW c \in Requests,
         Issue(c) \/ LoginIssue(c), UNCHANGED browserVars
  PROVE  BrowserTypeOK' /\ Trips' /\ Fresh' /\ Spent' /\ InSession'
<1>1. /\ doing \in [Requests -> {"nothing", "denied", "issued", "claim", "issue",
                                 "reuse", "logout", "login", "reset"}]
      /\ held \in [Requests -> Tokens \cup {None}]
      /\ family \in [Tokens -> Families \cup {None}]
      /\ cookie \in [Requests -> Tokens \cup {None}] /\ None \notin Tokens
      /\ None \notin Families /\ jar \in Tokens \cup {None}
      /\ home \in Families \cup {None}
      /\ trip \in [Requests -> {"no", "sent", "served", "leaving"}]
  BY BrowserTypes DEF BrowserTypeOK, TypeOK
<1>2. Trips /\ TripOf(c) /\ Fresh /\ Spent /\ InSession /\ SessionTypes
  BY DEF BrowserIndInv, Trips, SessionsIndInv, SessionInv, SessionTypes
<1>3. PICK t, f, d :
        /\ t \in Tokens /\ f \in Families
        /\ Create(c, t, f, d)
        /\ \/ Issue(c) /\ held[c] \in Tokens /\ Exists(held[c]) /\ f = family[held[c]]
           \/ LoginIssue(c) /\ RowsOf(f) = {}
  BY <1>2, Inserts
<1>4. /\ ~Exists(t) /\ doing' = [doing EXCEPT ![c] = "issued"]
      /\ held' = [held EXCEPT ![c] = t] /\ family' = [family EXCEPT ![t] = f]
      /\ UNCHANGED <<now, usedAt, revoked, jar, trip, cookie, sentAt, home, crossed, missed>>
  BY <1>3 DEF Create, Goes, browserVars
<1>5. /\ family'[t] = f /\ f # None
      /\ \A s \in Tokens \ {t} : family'[s] = family[s]
      /\ doing'[c] = "issued" /\ held'[c] = t
      /\ \A b \in Requests \ {c} : doing'[b] = doing[b] /\ held'[b] = held[b]
  BY <1>1, <1>3, <1>4
<1>6. usedAt[t] = Never /\ ~revoked[t] /\ t # None
  BY <1>1, <1>2, <1>3, <1>4 DEF Trips
<1>7. jar # t /\ \A b \in Requests : cookie[b] # t /\ held[b] # t
  <2>1. jar # t
    BY <1>2, <1>4, <1>6 DEF Trips
  <2>2. \A b \in Requests : cookie[b] # t
    BY <1>2, <1>4, <1>6 DEF Trips, TripOf
  <2>3. ASSUME NEW b \in Requests PROVE held[b] # t
    <3>1. TripOf(b) /\ cookie[b] # t
      BY <1>2, <2>2 DEF Trips
    <3>2. doing[b] \in {"nothing", "denied", "login", "claim", "issue", "reuse", "logout",
                       "issued"}
      BY <1>1, <3>1 DEF TripOf
    <3> QED BY <1>4, <1>6, <3>1, <3>2 DEF TripOf
  <2> QED BY <2>1, <2>2, <2>3
<1>8. /\ doing[c] \in {"issue", "login"} /\ trip[c] = "served"
      /\ doing[c] = "issue" => held[c] = cookie[c] /\ f = family[cookie[c]] /\ cookie[c] \in Tokens
      /\ doing[c] = "login" => cookie[c] = None /\ RowsOf(f) = {}
  BY <1>1, <1>2, <1>3 DEF Issue, LoginIssue, TripOf
<1>9. BrowserTypeOK'
  BY <1>4 DEF BrowserIndInv, BrowserTypeOK
<1>10. \A s \in Tokens : Exists(s) => s # t /\ Exists(s)'
  BY <1>4, <1>5 DEF Exists
<1>11. Trips'
  <2>1. \A b \in Requests \ {c} : TripOf(b)'
    BY <1>1, <1>2, <1>4, <1>5, <1>10 DEF Trips, TripOf
  <2>2. TripOf(c)'
    BY <1>1, <1>2, <1>4, <1>5, <1>6, <1>3, <1>8, <1>10 DEF TripOf, Exists
  <2>3. jar # None => Exists(jar)'
    BY <1>1, <1>2, <1>4, <1>10 DEF Trips
  <2>4. \A s \in Tokens : ~Exists(s)' => usedAt[s] = Never /\ ~revoked[s]
    BY <1>2, <1>5, <1>10 DEF Trips, Exists
  <2> QED BY <1>4, <2>1, <2>2, <2>3, <2>4 DEF Trips
<1>12. \A g \in Families : g # f => RowsOf(g)' = RowsOf(g)
  BY <1>1, <1>4, <1>5 DEF RowsOf, Exists
<1>13. RowsOf(f)' = RowsOf(f) \cup {t}
  BY <1>1, <1>3, <1>4, <1>5 DEF RowsOf, Exists
<1>14. ASSUME NEW b \in Requests, b # c, doing[b] = "issued" PROVE FreshOf(b)'
  <2>1. FreshOf(b) /\ held[b] \in Tokens /\ Exists(held[b]) /\ held[b] # t
    BY <1>2, <1>7, <1>14 DEF Fresh, Trips, TripOf
  <2>2. family'[held[b]] = family[held[b]] /\ family[held[b]] \in Families
    BY <1>1, <1>5, <2>1 DEF Exists
  <2>3. cookie[b] # None => cookie[b] # t /\ cookie[b] \in Tokens /\ family'[cookie[b]] = family[cookie[b]]
    BY <1>1, <1>5, <1>7
  <2>4. \A e \in Requests : e # b /\ doing'[e] = "issued" => held'[e] # held[b]
    BY <1>5, <1>14, <2>1 DEF FreshOf
  <2>5. ASSUME cookie[b] = None PROVE family[held[b]] # f
    <3>1. RowsOf(family[held[b]]) = {held[b]}
      BY <1>14, <2>1, <2>5 DEF FreshOf
    <3>2. CASE doing[c] = "issue"
      <4>1. cookie[c] \in Tokens /\ f = family[cookie[c]] /\ cookie[c] # held[b]
        BY <1>8, <1>14, <2>1, <3>2 DEF FreshOf
      <4>2. family[held[b]] = f => cookie[c] \in RowsOf(family[held[b]])
        BY <4>1 DEF RowsOf
      <4> QED BY <3>1, <4>1, <4>2
    <3>3. CASE doing[c] = "login"
      <4>1. RowsOf(f) = {}
        BY <1>8, <3>3
      <4> QED BY <3>1, <4>1
    <3> QED BY <1>8, <3>2, <3>3
  <2>6. cookie[b] = None => RowsOf(family[held[b]])' = {held[b]}
    <3>1. cookie[b] = None => RowsOf(family[held[b]]) = {held[b]} /\ family[held[b]] # f
      BY <1>14, <2>1, <2>5 DEF FreshOf
    <3>2. PICK g \in Families : g = family[held[b]]
      BY <2>2
    <3>3. g # f => RowsOf(g)' = RowsOf(g)
      BY <1>12
    <3>4. held'[b] = held[b]
      BY <1>5, <1>14
    <3> QED BY <2>2, <3>1, <3>2, <3>3, <3>4 DEF RowsOf
  <2>7. held'[b] = held[b] /\ doing'[b] = "issued"
    BY <1>5, <1>14
  <2> QED BY <1>4, <1>14, <2>1, <2>2, <2>3, <2>4, <2>6, <2>7 DEF FreshOf
<1>15. FreshOf(c)'
  <2>1. \A b \in Requests : b # c => held'[b] # t
    BY <1>5, <1>7
  <2>2. cookie[c] # None => family'[cookie[c]] = f
    BY <1>1, <1>5, <1>7, <1>8
  <2>3. cookie[c] = None => RowsOf(f)' = {t} /\ f # home
    <3>1. cookie[c] = None => RowsOf(f) = {}
      BY <1>1, <1>8
    <3>2. RowsOf(f) = {} => f # home
      BY <1>2, <1>5 DEF InSession
    <3> QED BY <1>13, <3>1, <3>2
  <2>4. RowsOf(family[held[c]])' = RowsOf(f)'
    BY <1>5 DEF RowsOf
  <2> QED BY <1>4, <1>5, <1>6, <1>7, <2>1, <2>2, <2>3, <2>4 DEF FreshOf
<1>16. Fresh'
  <2> SUFFICES ASSUME NEW b \in Requests, b # c PROVE FreshOf(b)'
    BY <1>15 DEF Fresh
  <2>1. CASE doing[b] = "issued"
    BY <1>14, <2>1
  <2>2. CASE doing[b] # "issued"
    BY <1>5, <2>2 DEF FreshOf
  <2> QED BY <2>1, <2>2
<1>17. Spent'
  <2>1. ASSUME jar \in Tokens \ missed, usedAt[jar] # Never
        PROVE  \E b \in Requests : Replaces(b, jar)'
    <3>1. PICK b \in Requests : Replaces(b, jar)
      BY <1>2, <2>1 DEF Spent
    <3> QED BY <1>4, <1>5, <3>1 DEF Replaces
  <2>2. \A b \in Requests : UnderWay(b)' <=> UnderWay(b)
    BY <1>4 DEF UnderWay
  <2> QED BY <1>2, <1>4, <2>1, <2>2 DEF Spent
<1>18. InSession'
  <2> SUFFICES ASSUME home # None PROVE InSession'
    BY <1>4 DEF InSession
  <2>1. home \in Families /\ RowsOf(home) # {} /\ RowsOf(home) \subseteq RowsOf(home)'
    BY <1>1, <1>2, <1>4, <1>12, <1>13 DEF InSession
  <2>2. ASSUME Over PROVE Over'
    <3>1. PICK s \in RowsOf(home) : TRUE
      BY <2>1
    <3>2. s \in Tokens /\ s # t /\ family[s] = home /\ family'[s] = home
      BY <1>1, <1>5, <1>10, <3>1, <2>1 DEF RowsOf, Exists
    <3>3. \A r \in RowsOf(home)' : r \in Tokens /\ family'[r] = home
      BY <1>4 DEF RowsOf
    <3>4. \A r \in RowsOf(home)' : deadline'[r] = deadline'[s]
      BY <3>2, <3>3, <2>1, <1>1 DEF OneDeadlinePerFamily, Exists
    <3>5. deadline'[s] = deadline[s]
      <4>1. deadline' = [deadline EXCEPT ![t] = d] /\ deadline \in [Tokens -> 0 .. Horizon + Ttl]
        BY <1>3, BrowserTypes DEF Create, TypeOK
      <4> QED BY <3>2, <4>1
    <3>6. deadline[s] <= now
      BY <2>2, <3>1 DEF Over
    <3> QED BY <1>4, <3>4, <3>5, <3>6 DEF Over
  <2>3. ASSUME Alive PROVE Alive'
    <3>1. \A r \in RowsOf(home)' : r = t \/ r \in RowsOf(home)
      BY <1>12, <1>13, <2>1, <1>4
    <3> QED BY <1>1, <1>4, <1>5, <1>6, <1>7, <2>3, <3>1 DEF Alive
  <2>4. \A e \in Requests :
          doing'[e] = "denied" => doing[e] = "denied" /\ family'[cookie[e]] = family[cookie[e]]
    <3> SUFFICES ASSUME NEW e \in Requests, doing'[e] = "denied"
                 PROVE  doing[e] = "denied" /\ family'[cookie[e]] = family[cookie[e]]
      OBVIOUS
    <3>1. doing[e] = "denied"
      BY <1>5
    <3>2. cookie[e] \in Tokens /\ cookie[e] # t
      BY <1>2, <1>7, <3>1 DEF Trips, TripOf
    <3> QED BY <1>5, <3>1, <3>2
  <2>5. Killed => Killed'
    <3>1. \A s \in RowsOf(home) : s \in RowsOf(home)' /\ revoked'[s] = revoked[s]
      BY <1>4, <2>1
    <3> QED BY <1>4, <3>1 DEF Killed
  <2>6. ASSUME NEW e \in Requests, trip'[e] = "leaving", doing'[e] = "nothing"
        PROVE  family'[cookie[e]] # home
    <3>1. trip[e] = "leaving" /\ doing[e] = "nothing"
      BY <1>4, <1>5, <2>6
    <3>2. cookie[e] \in Tokens /\ cookie[e] # t
      BY <1>2, <1>7, <3>1 DEF Trips, TripOf
    <3>3. family[cookie[e]] # home
      BY <1>2, <1>4, <3>1 DEF InSession
    <3> QED BY <1>5, <3>2, <3>3
  <2>7. RowsOf(home)' # {}
    BY <2>1
  <2>8. ~crossed => Over' \/ Killed' \/ Alive'
    BY <1>2, <2>2, <2>3, <2>5 DEF InSession
  <2>9. \A e \in Requests :
          ~crossed /\ doing'[e] = "denied" /\ family'[cookie[e]] = home => Over' \/ Killed'
    BY <1>2, <2>2, <2>4, <2>5 DEF InSession
  <2> QED BY <1>4, <2>6, <2>7, <2>8, <2>9 DEF InSession
<1> QED BY <1>9, <1>11, <1>16, <1>17, <1>18

-----------------------------------------------------------------------------
\* An accused token takes its family with it: the session the browser is in only
\* if it was this one, and then over a missed cookie.
LEMMA KillBrowserInd ==
  ASSUME BrowserIndInv, TypeOK', NEW c \in Requests, KillFamily(c), UNCHANGED browserVars
  PROVE  BrowserTypeOK' /\ Trips' /\ Fresh' /\ Spent' /\ InSession'
<1>1. /\ doing \in [Requests -> {"nothing", "denied", "issued", "claim", "issue",
                                 "reuse", "logout", "login", "reset"}]
      /\ held \in [Requests -> Tokens \cup {None}]
      /\ revoked \in [Tokens -> BOOLEAN]
      /\ trip \in [Requests -> {"no", "sent", "served", "leaving"}]
      /\ cookie \in [Requests -> Tokens \cup {None}] /\ None \notin Tokens
  BY BrowserTypes DEF BrowserTypeOK, TypeOK
<1>2. Trips /\ TripOf(c) /\ Fresh /\ Spent /\ InSession
  BY DEF BrowserIndInv, Trips
<1>3. /\ doing[c] = "reuse" /\ trip[c] = "served" /\ Exists(cookie[c])
      /\ held[c] = cookie[c] /\ cookie[c] \in Tokens /\ cookie[c] \in missed
  BY <1>1, <1>2 DEF KillFamily, TripOf
<1>4. /\ doing' = [doing EXCEPT ![c] = "denied"] /\ held' = [held EXCEPT ![c] = None]
      /\ UNCHANGED <<now, family, deadline, usedAt, jar, trip, cookie, sentAt, home, crossed,
                     missed>>
      /\ revoked' = [t \in Tokens |-> revoked[t] \/ family[t] = family[cookie[c]]]
  BY <1>3 DEF KillFamily, Revoke, Goes, browserVars
<1>5. /\ doing'[c] = "denied" /\ held'[c] = None
      /\ \A b \in Requests \ {c} : doing'[b] = doing[b] /\ held'[b] = held[b]
  BY <1>1, <1>4
<1>6. BrowserTypeOK'
  BY <1>4 DEF BrowserIndInv, BrowserTypeOK
<1>7. Trips'
  <2>1. \A b \in Requests \ {c} : TripOf(b)'
    BY <1>2, <1>4, <1>5 DEF Trips, TripOf, Exists
  <2>2. TripOf(c)'
    BY <1>2, <1>3, <1>4, <1>5 DEF TripOf, Exists
  <2>3. \A t \in Tokens : ~Exists(t)' => usedAt'[t] = Never /\ ~revoked'[t]
    BY <1>2, <1>3, <1>4 DEF Trips, Exists
  <2>4. jar' # None => Exists(jar)'
    BY <1>2, <1>4 DEF Trips, Exists
  <2> QED BY <2>1, <2>2, <2>3, <2>4 DEF Trips
<1>8. Fresh'
  <2> SUFFICES ASSUME NEW b \in Requests, doing'[b] = "issued" PROVE FreshOf(b)'
    BY DEF Fresh, FreshOf
  <2>1. b # c /\ doing[b] = "issued" /\ FreshOf(b) /\ held[b] \in Tokens
    BY <1>2, <1>5 DEF Fresh, Trips, TripOf
  <2>2. \A e \in Requests : e # b /\ doing'[e] = "issued" => held'[e] # held[b]
    BY <1>5, <2>1 DEF FreshOf
  <2>3. cookie[b] = None => ~revoked'[held[b]]
    <3>1. cookie[b] = None => cookie[c] \notin RowsOf(family[held[b]])
      BY <2>1 DEF FreshOf
    <3>2. cookie[b] = None => family[held[b]] # family[cookie[c]]
      BY <1>3, <3>1 DEF RowsOf
    <3>3. cookie[b] = None => ~revoked[held[b]]
      BY <2>1 DEF FreshOf
    <3> QED BY <1>4, <2>1, <3>2, <3>3
  <2> QED BY <1>4, <1>5, <2>1, <2>2, <2>3 DEF FreshOf, RowsOf
<1>9. Spent'
  <2>1. \A b \in Requests : UnderWay(b)' <=> UnderWay(b)
    BY <1>4 DEF UnderWay
  <2>2. ASSUME jar \in Tokens \ missed, usedAt[jar] # Never
        PROVE  \E b \in Requests : Replaces(b, jar)'
    <3>1. PICK b \in Requests : Replaces(b, jar)
      BY <1>2, <2>2 DEF Spent
    <3>2. b # c
      BY <1>3, <3>1 DEF Replaces
    <3> QED BY <1>4, <1>5, <3>1, <3>2 DEF Replaces
  <2> QED BY <1>2, <1>4, <2>1, <2>2 DEF Spent
<1>10. InSession'
  <2> SUFFICES ASSUME home # None PROVE InSession'
    BY <1>4 DEF InSession
  <2>1. RowsOf(home)' = RowsOf(home) /\ (Over' <=> Over) /\ (Killed => Killed')
    BY <1>4 DEF RowsOf, Over, Killed
  <2>2. family[cookie[c]] = home => Killed'
    <3>1. family[cookie[c]] = home => cookie[c] \in RowsOf(home)'
      BY <1>3, <1>4 DEF RowsOf
    <3>2. revoked'[cookie[c]]
      BY <1>3, <1>4
    <3> QED BY <1>3, <1>4, <3>1, <3>2 DEF Killed
  <2>3. family[cookie[c]] # home /\ Alive => Alive'
    BY <1>1, <1>4, <2>1 DEF Alive, RowsOf
  <2>4. \A e \in Requests : doing'[e] = "denied" => e = c \/ doing[e] = "denied"
    BY <1>5
  <2>5. \A e \in Requests : doing'[e] = "nothing" => doing[e] = "nothing"
    BY <1>5
  <2>6. ~crossed => Over' \/ Killed' \/ Alive'
    BY <1>2, <2>1, <2>2, <2>3 DEF InSession
  <2>7. \A e \in Requests :
          ~crossed /\ doing'[e] = "denied" /\ family[cookie[e]] = home => Over' \/ Killed'
    BY <1>2, <2>1, <2>2, <2>4 DEF InSession
  <2> QED BY <1>2, <1>4, <2>1, <2>5, <2>6, <2>7 DEF InSession
<1> QED BY <1>6, <1>7, <1>8, <1>9, <1>10

-----------------------------------------------------------------------------
\* A trip ends.  The jar is as it was, or has what an answer brings: a token that
\* nobody has spent, or nothing.
LEMMA ReturnBrowserInd ==
  ASSUME BrowserIndInv, TypeOK', NEW c \in Requests, trip[c] # "no",
         doing' = [doing EXCEPT ![c] = "nothing"], held' = [held EXCEPT ![c] = None],
         Travels(c, "no", None), UNCHANGED <<now, family, deadline, usedAt, revoked>>,
         \/ jar' = jar
         \/ jar' = None
         \/ doing[c] = "issued" /\ jar' = held[c],
         missed \subseteq missed', missed' \subseteq Tokens,
         jar' = jar /\ jar # None /\ Replaces(c, jar) => jar \in missed',
         home' \in Families \cup {None}, crossed' \in BOOLEAN,
         \A b \in Requests : b # c /\ doing[b] = "issued" /\ cookie[b] = None =>
                               family[held[b]] # home',
         InSession'
  PROVE  BrowserTypeOK' /\ Trips' /\ Fresh' /\ Spent' /\ InSession'
<1>1. /\ doing \in [Requests -> {"nothing", "denied", "issued", "claim", "issue",
                                 "reuse", "logout", "login", "reset"}]
      /\ held \in [Requests -> Tokens \cup {None}]
      /\ trip \in [Requests -> {"no", "sent", "served", "leaving"}]
      /\ cookie \in [Requests -> Tokens \cup {None}] /\ None \notin Tokens
      /\ sentAt \in [Requests -> 0 .. now] /\ now \in Nat /\ jar \in Tokens \cup {None}
  BY BrowserTypes DEF BrowserTypeOK, TypeOK
<1>2. Trips /\ TripOf(c) /\ Fresh /\ Spent
  BY DEF BrowserIndInv, Trips
<1>3. /\ trip' = [trip EXCEPT ![c] = "no"] /\ cookie' = [cookie EXCEPT ![c] = None]
      /\ sentAt' = [sentAt EXCEPT ![c] = 0]
  BY DEF Travels
<1>4. \A b \in Requests \ {c} :
        /\ doing'[b] = doing[b] /\ held'[b] = held[b] /\ trip'[b] = trip[b]
        /\ cookie'[b] = cookie[b] /\ sentAt'[b] = sentAt[b]
  BY <1>1, <1>3
<1>5. /\ doing'[c] = "nothing" /\ held'[c] = None /\ trip'[c] = "no" /\ cookie'[c] = None
  BY <1>1, <1>3
<1>6. jar' # jar /\ jar' # None => doing[c] = "issued" /\ jar' = held[c] /\ held[c] \in Tokens
  BY <1>2 DEF TripOf
<1>7. BrowserTypeOK'
  <2>1. sentAt' \in [Requests -> 0 .. now']
    <3>1. 0 \in 0 .. now
      BY <1>1
    <3> QED BY <1>1, <1>3, <3>1
  <2>2. jar' \in Tokens \cup {None}
    BY <1>1, <1>6
  <2> QED BY <1>1, <1>3, <2>1, <2>2 DEF BrowserTypeOK
<1>8. Trips'
  <2>1. \A b \in Requests \ {c} : TripOf(b)'
    BY <1>2, <1>3, <1>4 DEF Trips, TripOf, Exists
  <2>2. TripOf(c)'
    BY <1>5 DEF TripOf
  <2>3. jar' # None => Exists(jar)'
    BY <1>2, <1>3, <1>6 DEF Trips, TripOf, Exists
  <2>4. \A t \in Tokens : ~Exists(t)' => usedAt'[t] = Never /\ ~revoked'[t]
    BY <1>2, <1>3 DEF Trips, Exists
  <2> QED BY <2>1, <2>2, <2>3, <2>4 DEF Trips
<1>9. Fresh'
  <2> SUFFICES ASSUME NEW b \in Requests, doing'[b] = "issued" PROVE FreshOf(b)'
    BY DEF Fresh, FreshOf
  <2>1. b # c /\ doing[b] = "issued" /\ FreshOf(b) /\ held[b] \in Tokens
    BY <1>2, <1>4, <1>5 DEF Fresh, Trips, TripOf
  <2>2. jar' # held[b]
    BY <1>1, <1>6, <2>1, <1>2 DEF Fresh, FreshOf
  <2>3. \A e \in Requests : cookie'[e] # held[b]
    BY <1>1, <1>4, <1>5, <2>1 DEF FreshOf
  <2>4. \A e \in Requests : e # b /\ doing'[e] = "issued" => held'[e] # held[b]
    BY <1>4, <1>5, <2>1 DEF FreshOf
  <2>5. cookie[b] = None => ~revoked'[held[b]] /\ family[held[b]] # home'
    BY <2>1 DEF FreshOf
  <2>6. /\ held'[b] = held[b] /\ cookie'[b] = cookie[b]
        /\ RowsOf(family[held[b]])' = RowsOf(family[held[b]])
    BY <1>3, <1>4, <2>1 DEF RowsOf
  <2>7. /\ usedAt'[held[b]] = Never
        /\ cookie[b] # None => family'[held[b]] = family'[cookie[b]]
        /\ cookie[b] = None => RowsOf(family[held[b]]) = {held[b]}
    BY <1>3, <2>1 DEF FreshOf
  <2> QED BY <1>3, <2>2, <2>3, <2>4, <2>5, <2>6, <2>7 DEF FreshOf
<1>10. Spent'
  <2>1. jar' # jar /\ jar' # None => usedAt'[jar'] = Never
    BY <1>2, <1>3, <1>6 DEF Fresh, FreshOf
  <2>2. ASSUME jar' \in Tokens \ missed', usedAt'[jar'] # Never
        PROVE  \E b \in Requests : Replaces(b, jar)'
    <3>1. jar' = jar /\ jar \in Tokens \ missed /\ usedAt[jar] # Never
      BY <1>1, <2>1, <2>2
    <3>2. PICK b \in Requests : Replaces(b, jar)
      BY <1>2, <3>1 DEF Spent
    <3>3. b # c
      BY <1>1, <2>2, <3>1, <3>2
    <3> QED BY <1>3, <1>4, <3>1, <3>2, <3>3 DEF Replaces
  <2>3. \A b \in Requests : UnderWay(b)' => b # c /\ UnderWay(b)
    BY <1>4, <1>5 DEF UnderWay
  <2>4. \A b \in Requests : UnderWay(b)' => 2 * (now' - sentAt'[b]) <= Leeway
    BY <1>2, <1>4, <2>3 DEF Spent
  <2>5. \A b \in Requests :
          UnderWay(b)' /\ usedAt'[cookie'[b]] # Never =>
            2 * (sentAt'[b] - usedAt'[cookie'[b]]) <= Leeway
    BY <1>2, <1>4, <2>3 DEF Spent
  <2> QED BY <2>2, <2>4, <2>5 DEF Spent
<1> QED BY <1>7, <1>8, <1>9, <1>10

\* An answer that does not come changes nothing about the session.
LEMMA AwayBrowserInd ==
  ASSUME BrowserIndInv, NEW c \in Requests, trip[c] # "no", Travels(c, "no", None),
         doing' = [doing EXCEPT ![c] = "nothing"],
         UNCHANGED <<now, family, deadline, revoked, home, crossed, jar>>,
         missed \subseteq missed'
  PROVE  /\ InSession' /\ home' \in Families \cup {None} /\ crossed' \in BOOLEAN
         /\ \A b \in Requests : b # c /\ doing[b] = "issued" /\ cookie[b] = None =>
                                  family[held[b]] # home'
<1>1. /\ doing \in [Requests -> {"nothing", "denied", "issued", "claim", "issue",
                                 "reuse", "logout", "login", "reset"}]
      /\ trip \in [Requests -> {"no", "sent", "served", "leaving"}]
      /\ cookie \in [Requests -> Tokens \cup {None}]
      /\ home \in Families \cup {None} /\ crossed \in BOOLEAN
  BY BrowserTypes DEF BrowserTypeOK, TypeOK
<1>2. /\ doing'[c] = "nothing" /\ trip'[c] = "no"
      /\ \A b \in Requests \ {c} : /\ doing'[b] = doing[b] /\ trip'[b] = trip[b]
                                   /\ cookie'[b] = cookie[b]
  BY <1>1 DEF Travels
<1>3. InSession
  BY DEF BrowserIndInv
<1>4. InSession'
  BY <1>2, <1>3 DEF InSession, Over, Killed, Alive, RowsOf
<1>5. Fresh
  BY DEF BrowserIndInv
<1> QED BY <1>1, <1>4, <1>5 DEF Fresh, FreshOf

LEMMA DeliverBrowserInd ==
  ASSUME BrowserIndInv, TypeOK', NEW c \in Requests, Deliver(c)
  PROVE  BrowserTypeOK' /\ Trips' /\ Fresh' /\ Spent' /\ InSession'
<1>1. /\ doing[c] \in {"denied", "issued"} /\ Travels(c, "no", None)
      /\ doing' = [doing EXCEPT ![c] = "nothing"] /\ held' = [held EXCEPT ![c] = None]
      /\ doing[c] = "issued" => jar' = held[c]
      /\ doing[c] = "denied" => jar' = jar \/ jar' = None
      /\ UNCHANGED <<now, family, deadline, usedAt, revoked, missed>>
      /\ Noted(c)
  BY DEF Deliver, Respond, Ends, Goes, rowVars
<1>2. Trips /\ TripOf(c) /\ FreshOf(c) /\ Fresh /\ InSession
  BY DEF BrowserIndInv, Trips, Fresh
<1>3. /\ held \in [Requests -> Tokens \cup {None}]
      /\ doing \in [Requests -> {"nothing", "denied", "issued", "claim", "issue",
                                 "reuse", "logout", "login", "reset"}]
      /\ family \in [Tokens -> Families \cup {None}]
      /\ trip \in [Requests -> {"no", "sent", "served", "leaving"}] /\ None \notin Tokens
      /\ cookie \in [Requests -> Tokens \cup {None}]
      /\ home \in Families \cup {None} /\ crossed \in BOOLEAN
      /\ missed \subseteq Tokens
  BY BrowserTypes DEF BrowserTypeOK, TypeOK
<1>4. trip[c] = "served"
  BY <1>1, <1>2, <1>3 DEF TripOf
<1>5. /\ doing[c] = "issued" => held[c] \in Tokens /\ family[held[c]] \in Families
      /\ doing[c] = "denied" => cookie[c] \in Tokens
  BY <1>1, <1>2, <1>3 DEF TripOf, Exists
<1>6. /\ doing'[c] = "nothing" /\ trip'[c] = "no"
      /\ \A e \in Requests \ {c} : /\ doing'[e] = doing[e] /\ cookie'[e] = cookie[e]
                                   /\ trip'[e] = trip[e]
  BY <1>1, <1>3 DEF Travels
<1>7. \A e \in Requests : doing'[e] = "denied" => /\ e # c /\ doing[e] = "denied"
                                                  /\ cookie'[e] = cookie[e] /\ cookie[e] \in Tokens
  BY <1>2, <1>6 DEF Trips, TripOf
<1>8. \A e \in Requests : trip'[e] = "leaving" => /\ e # c /\ trip[e] = "leaving"
                                                  /\ doing'[e] = doing[e]
                                                  /\ cookie'[e] = cookie[e] /\ cookie[e] \in Tokens
  BY <1>2, <1>6 DEF Trips, TripOf
<1>9. jar' = jar /\ jar # None /\ Replaces(c, jar) => jar \in missed'
  <2>1. doing[c] = "issued" => jar' # jar
    BY <1>1, <1>2 DEF FreshOf
  <2> QED BY <1>1, <2>1 DEF Replaces
<1>10. CASE cookie[c] = None
  <2>1. /\ doing[c] = "issued" /\ home' = family[held[c]] /\ crossed' = FALSE
        /\ RowsOf(family[held[c]]) = {held[c]} /\ ~revoked[held[c]]
    BY <1>1, <1>2, <1>3, <1>5, <1>10 DEF Noted, FreshOf
  <2>2. PICK f \in Families : f = family[held[c]]
    BY <1>5, <2>1
  <2>3. RowsOf(f)' = {held[c]}
    BY <1>1, <2>1, <2>2 DEF RowsOf
  <2>4. home' = f /\ RowsOf(home)' = RowsOf(f)'
    BY <2>1, <2>2 DEF RowsOf
  <2>5. Alive'
    BY <1>1, <1>5, <2>1, <2>2, <2>3, <2>4 DEF Alive
  <2>6. ASSUME NEW e \in Requests, cookie[e] \in Tokens, cookie'[e] = cookie[e]
        PROVE  family'[cookie'[e]] # f
    <3>1. cookie[e] # held[c]
      BY <1>2, <2>1, <2>6 DEF FreshOf
    <3> QED BY <1>1, <2>1, <2>2, <2>6, <3>1 DEF RowsOf
  <2>7. InSession'
    <3>1. \A e \in Requests : doing'[e] = "denied" => family'[cookie'[e]] # f
      BY <1>7, <2>6
    <3>2. \A e \in Requests : trip'[e] = "leaving" => family'[cookie'[e]] # f
      BY <1>8, <2>6
    <3> QED BY <2>3, <2>4, <2>5, <3>1, <3>2 DEF InSession
  <2>8. ASSUME NEW b \in Requests, b # c, doing[b] = "issued"
        PROVE  family[held[b]] # f
    <3>1. held[b] # held[c] /\ held[b] \in Tokens
      BY <1>2, <2>1, <2>8 DEF FreshOf, Trips, TripOf
    <3> QED BY <2>1, <2>2, <3>1 DEF RowsOf
  <2> QED BY <1>1, <1>3, <1>4, <1>9, <2>1, <2>2, <2>4, <2>7, <2>8, ReturnBrowserInd
<1>11. CASE cookie[c] # None
  <2>1. home' = home /\ crossed' = (crossed \/ Foreign(c))
    BY <1>1, <1>11 DEF Noted
  <2>2. RowsOf(home)' = RowsOf(home) /\ (Over' <=> Over) /\ (Killed' <=> Killed)
    BY <1>1, <2>1 DEF RowsOf, Over, Killed
  <2>3. ASSUME home # None, ~crossed' PROVE Over' \/ Killed' \/ Alive'
    <3>1. ~crossed /\ family[cookie[c]] = home /\ (Over \/ Killed \/ Alive)
      BY <1>2, <2>1, <2>3 DEF Foreign, InSession
    <3>2. CASE doing[c] = "denied"
      BY <1>2, <2>2, <2>3, <3>1, <3>2 DEF InSession
    <3>3. CASE doing[c] = "issued"
      <4>1. family[held[c]] = home /\ jar' = held[c] /\ held[c] \in Tokens
        BY <1>1, <1>2, <1>5, <1>11, <3>1, <3>3 DEF FreshOf
      <4>2. Alive => Alive'
        BY <1>1, <2>1, <2>2, <4>1 DEF Alive
      <4> QED BY <2>2, <3>1, <4>2
    <3> QED BY <1>1, <3>2, <3>3
  <2>4. InSession'
    BY <1>1, <1>2, <1>7, <1>8, <2>1, <2>2, <2>3 DEF InSession
  <2>5. crossed' \in BOOLEAN
    BY <1>3, <2>1
  <2>6. \A b \in Requests : b # c /\ doing[b] = "issued" /\ cookie[b] = None => family[held[b]] # home'
    BY <1>2, <2>1 DEF Fresh, FreshOf
  <2> QED BY <1>1, <1>3, <1>4, <1>9, <2>1, <2>4, <2>5, <2>6, ReturnBrowserInd
<1> QED BY <1>10, <1>11

\* A request that is lost on its way, dies, or whose answer is lost.
LEMMA LostBrowserInd ==
  ASSUME BrowserIndInv, TypeOK', NEW c \in Requests, Lose(c) \/ Die(c) \/ Vanish(c)
  PROVE  BrowserTypeOK' /\ Trips' /\ Fresh' /\ Spent' /\ InSession'
<1>1. /\ doing \in [Requests -> {"nothing", "denied", "issued", "claim", "issue",
                                 "reuse", "logout", "login", "reset"}]
      /\ held \in [Requests -> Tokens \cup {None}]
      /\ trip \in [Requests -> {"no", "sent", "served", "leaving"}] /\ None \notin Tokens
      /\ cookie \in [Requests -> Tokens \cup {None}] /\ missed \subseteq Tokens
  BY BrowserTypes DEF BrowserTypeOK, TypeOK
<1>2. TripOf(c)
  BY DEF BrowserIndInv, Trips
<1>3. Travels(c, "no", None) /\ UNCHANGED <<now, family, deadline, usedAt, revoked, jar, home, crossed>>
  BY DEF Lose, Die, Vanish, Respond, Fail, vars, rowVars
<1>4. trip[c] # "no"
  BY <1>2 DEF Lose, Die, Vanish, Respond, Fail, TripOf
<1>5. doing' = [doing EXCEPT ![c] = "nothing"] /\ held' = [held EXCEPT ![c] = None]
  <2>1. CASE Lose(c) \/ Die(c)
    BY <2>1 DEF Lose, Die, Respond, Fail, Ends, Goes
  <2>2. CASE Vanish(c)
    <3>1. doing' = doing /\ held' = held /\ doing[c] = "nothing" /\ held[c] = None
      BY <1>2, <2>2 DEF Vanish, TripOf, vars, requestVars
    <3> QED BY <1>1, <3>1
  <2> QED BY <2>1, <2>2
<1>6. /\ missed \subseteq missed' /\ missed' \subseteq Tokens
      /\ jar' = jar /\ jar # None /\ Replaces(c, jar) => jar \in missed'
  <2>1. CASE Lose(c) \/ Die(c)
    <3>1. Misses(c)
      BY <2>1 DEF Lose, Die
    <3> QED BY <1>1, <3>1 DEF Misses, Replaces
  <2>2. CASE Vanish(c)
    BY <1>1, <2>2 DEF Vanish, Replaces
  <2> QED BY <2>1, <2>2
<1>7. /\ InSession' /\ home' \in Families \cup {None} /\ crossed' \in BOOLEAN
      /\ \A b \in Requests : b # c /\ doing[b] = "issued" /\ cookie[b] = None =>
                               family[held[b]] # home'
  BY <1>3, <1>4, <1>5, <1>6, AwayBrowserInd
<1> QED BY <1>3, <1>4, <1>5, <1>6, <1>7, ReturnBrowserInd

\* The answer to a logout: it clears the cookie, of the session the browser is in
\* only if the logout was of another one, or comes to nothing.
LEMMA ClearedBrowserInd ==
  ASSUME BrowserIndInv, TypeOK', NEW c \in Requests, Cleared(c)
  PROVE  BrowserTypeOK' /\ Trips' /\ Fresh' /\ Spent' /\ InSession'
<1>1. /\ doing \in [Requests -> {"nothing", "denied", "issued", "claim", "issue",
                                 "reuse", "logout", "login", "reset"}]
      /\ held \in [Requests -> Tokens \cup {None}]
      /\ trip \in [Requests -> {"no", "sent", "served", "leaving"}] /\ None \notin Tokens
      /\ cookie \in [Requests -> Tokens \cup {None}]
      /\ home \in Families \cup {None} /\ crossed \in BOOLEAN
      /\ missed \subseteq Tokens
  BY BrowserTypes DEF BrowserTypeOK, TypeOK
<1>2. TripOf(c) /\ Fresh /\ InSession
  BY DEF BrowserIndInv, Trips
<1>3. /\ trip[c] = "leaving" /\ doing[c] = "nothing" /\ held[c] = None /\ Travels(c, "no", None)
      /\ UNCHANGED <<now, family, deadline, usedAt, revoked, home, missed>>
      /\ doing' = doing /\ held' = held
      /\ \/ jar' = None /\ crossed' = (crossed \/ Foreign(c))
         \/ jar' = jar /\ crossed' = crossed
  BY <1>2 DEF Cleared, TripOf, vars, rowVars, requestVars
<1>4. doing' = [doing EXCEPT ![c] = "nothing"] /\ held' = [held EXCEPT ![c] = None]
  BY <1>1, <1>3
<1>5. jar' = jar /\ jar # None /\ Replaces(c, jar) => jar \in missed'
  BY <1>3 DEF Replaces
<1>6. \A b \in Requests : b # c /\ doing[b] = "issued" /\ cookie[b] = None => family[held[b]] # home'
  BY <1>2, <1>3 DEF Fresh, FreshOf
<1>7. CASE jar' = jar /\ crossed' = crossed
  BY <1>1, <1>3, <1>4, <1>5, <1>7, AwayBrowserInd, ReturnBrowserInd
<1>8. CASE jar' = None /\ crossed' = (crossed \/ Foreign(c))
  <2>1. /\ trip'[c] = "no"
        /\ \A e \in Requests \ {c} : trip'[e] = trip[e] /\ cookie'[e] = cookie[e]
    BY <1>1, <1>3 DEF Travels
  <2>2. home # None => crossed'
    BY <1>2, <1>3, <1>8 DEF InSession, Foreign
  <2>3. InSession'
    <3>1. RowsOf(home)' = RowsOf(home)
      BY <1>3 DEF RowsOf
    <3>2. \A e \in Requests : trip'[e] = "leaving" => /\ trip[e] = "leaving"
                                                      /\ cookie'[e] = cookie[e]
      BY <2>1
    <3> QED BY <1>2, <1>3, <2>2, <3>1, <3>2 DEF InSession
  <2>4. crossed' \in BOOLEAN
    BY <1>1, <1>8
  <2> QED BY <1>1, <1>3, <1>4, <1>5, <1>6, <1>8, <2>3, <2>4, ReturnBrowserInd
<1> QED BY <1>3, <1>7, <1>8

\* A logout revokes its family, and the user is no longer in that session.
LEMMA SignedOutBrowserInd ==
  ASSUME BrowserIndInv, TypeOK', NEW c \in Requests, SignedOut(c)
  PROVE  BrowserTypeOK' /\ Trips' /\ Fresh' /\ Spent' /\ InSession'
<1>1. /\ held \in [Requests -> Tokens \cup {None}]
      /\ doing \in [Requests -> {"nothing", "denied", "issued", "claim", "issue",
                                 "reuse", "logout", "login", "reset"}]
      /\ revoked \in [Tokens -> BOOLEAN]
      /\ trip \in [Requests -> {"no", "sent", "served", "leaving"}] /\ None \notin Tokens
      /\ cookie \in [Requests -> Tokens \cup {None}]
      /\ home \in Families \cup {None} /\ crossed \in BOOLEAN /\ None \notin Families
  BY BrowserTypes DEF BrowserTypeOK, TypeOK
<1>2. Trips /\ TripOf(c) /\ Fresh /\ Spent /\ InSession
  BY DEF BrowserIndInv, Trips
<1>3. /\ doing[c] = "logout" /\ trip[c] = "leaving" /\ held[c] = cookie[c]
      /\ cookie[c] \in Tokens /\ Exists(cookie[c])
  BY <1>1, <1>2 DEF SignedOut, Logout, TripOf
<1>4. /\ doing' = [doing EXCEPT ![c] = "nothing"] /\ held' = [held EXCEPT ![c] = None]
      /\ UNCHANGED <<now, family, deadline, usedAt, jar, trip, cookie, sentAt, crossed, missed>>
      /\ revoked' = [t \in Tokens |-> revoked[t] \/ family[t] = family[cookie[c]]]
      /\ home' = IF Foreign(c) THEN home ELSE None
  BY <1>3 DEF SignedOut, Logout, Revoke, Ends, Goes
<1>5. /\ doing'[c] = "nothing" /\ held'[c] = None
      /\ \A b \in Requests \ {c} : doing'[b] = doing[b] /\ held'[b] = held[b]
  BY <1>1, <1>4
<1>6. BrowserTypeOK'
  BY <1>1, <1>4 DEF BrowserIndInv, BrowserTypeOK
<1>7. Trips'
  <2>1. \A b \in Requests \ {c} : TripOf(b)'
    BY <1>2, <1>4, <1>5 DEF Trips, TripOf, Exists
  <2>2. TripOf(c)'
    BY <1>2, <1>3, <1>4, <1>5 DEF TripOf, Exists
  <2>3. \A t \in Tokens : ~Exists(t)' => usedAt'[t] = Never /\ ~revoked'[t]
    BY <1>2, <1>3, <1>4 DEF Trips, Exists
  <2>4. jar' # None => Exists(jar)'
    BY <1>2, <1>4 DEF Trips, Exists
  <2> QED BY <2>1, <2>2, <2>3, <2>4 DEF Trips
<1>8. Fresh'
  <2> SUFFICES ASSUME NEW b \in Requests, doing'[b] = "issued" PROVE FreshOf(b)'
    BY DEF Fresh, FreshOf
  <2>1. b # c /\ doing[b] = "issued" /\ FreshOf(b) /\ held[b] \in Tokens /\ Exists(held[b])
    BY <1>2, <1>5 DEF Fresh, Trips, TripOf
  <2>2. \A e \in Requests : e # b /\ doing'[e] = "issued" => held'[e] # held[b]
    BY <1>5, <2>1 DEF FreshOf
  <2>3. cookie[b] = None => ~revoked'[held[b]] /\ family[held[b]] # home'
    <3>1. cookie[b] = None => cookie[c] \notin RowsOf(family[held[b]])
      BY <2>1 DEF FreshOf
    <3>2. cookie[b] = None => family[held[b]] # family[cookie[c]]
      BY <1>3, <3>1 DEF RowsOf
    <3>3. cookie[b] = None => ~revoked[held[b]] /\ family[held[b]] # home
      BY <2>1 DEF FreshOf
    <3>4. family[held[b]] # None
      BY <2>1 DEF Exists
    <3> QED BY <1>4, <2>1, <3>2, <3>3, <3>4
  <2> QED BY <1>4, <1>5, <2>1, <2>2, <2>3 DEF FreshOf, RowsOf
<1>9. Spent'
  <2>1. \A b \in Requests : UnderWay(b)' <=> UnderWay(b)
    BY <1>4 DEF UnderWay
  <2>2. ASSUME jar \in Tokens \ missed, usedAt[jar] # Never
        PROVE  \E b \in Requests : Replaces(b, jar)'
    <3>1. PICK b \in Requests : Replaces(b, jar)
      BY <1>2, <2>2 DEF Spent
    <3>2. b # c
      BY <1>3, <3>1 DEF Replaces
    <3> QED BY <1>4, <1>5, <3>1, <3>2 DEF Replaces
  <2> QED BY <1>2, <1>4, <2>1, <2>2 DEF Spent
<1>10. InSession'
  <2> SUFFICES ASSUME home' # None PROVE InSession'
    BY DEF InSession
  <2>1. home' = home /\ home # None /\ family[cookie[c]] # home
    BY <1>4 DEF Foreign
  <2>2. RowsOf(home)' = RowsOf(home) /\ (Over' <=> Over) /\ (Killed => Killed')
    BY <1>4, <2>1 DEF RowsOf, Over, Killed
  <2>3. Alive => Alive'
    BY <1>1, <1>4, <2>1, <2>2 DEF Alive, RowsOf
  <2>4. \A e \in Requests : doing'[e] = "denied" => doing[e] = "denied"
    BY <1>5
  <2>5. \A e \in Requests : trip[e] = "leaving" /\ doing'[e] = "nothing" =>
                              family[cookie[e]] # home
    BY <1>2, <1>5, <2>1 DEF InSession
  <2>6. ~crossed => Over' \/ Killed' \/ Alive'
    BY <1>2, <2>1, <2>2, <2>3 DEF InSession
  <2>7. \A e \in Requests :
          ~crossed /\ doing'[e] = "denied" /\ family[cookie[e]] = home => Over' \/ Killed'
    BY <1>2, <2>1, <2>2, <2>4 DEF InSession
  <2>8. RowsOf(home)' # {}
    BY <1>2, <2>1, <2>2 DEF InSession
  <2> QED BY <1>4, <2>1, <2>5, <2>6, <2>7, <2>8 DEF InSession
<1> QED BY <1>6, <1>7, <1>8, <1>9, <1>10

-----------------------------------------------------------------------------
LEMMA NextBrowserInd ==
  ASSUME BrowserIndInv, [BrowserNext]_allVars
  PROVE  BrowserIndInv'
<1>1. SessionsIndInv'
  BY BrowserStep, SessionsInvariantStep DEF BrowserIndInv
<1>2. TypeOK' /\ OneDeadlinePerFamily'
  BY <1>1 DEF SessionsIndInv, SessionInv
<1>3. BrowserTypeOK' /\ Trips' /\ Fresh' /\ Spent' /\ InSession'
  <2>1. CASE BrowserTick
    BY <2>1, TickBrowserInd
  <2>2. ASSUME NEW c \in Requests, NEW u \in Users, SignIn(c, u)
        PROVE  BrowserTypeOK' /\ Trips' /\ Fresh' /\ Spent' /\ InSession'
    <3>1. /\ trip[c] = "no" /\ Travels(c, "served", None)
          /\ UNCHANGED <<now, rowVars, jar, home, crossed, missed>>
          /\ doing' = [doing EXCEPT ![c] = "login"] /\ held' = [held EXCEPT ![c] = None]
      BY <2>2 DEF SignIn, LoginCheck, Goes
    <3> QED BY <1>2, <3>1, DepartureBrowserInd
  <2>3. ASSUME NEW c \in Requests, Send(c)
        PROVE  BrowserTypeOK' /\ Trips' /\ Fresh' /\ Spent' /\ InSession'
    <3>1. /\ trip[c] = "no" /\ Travels(c, "sent", jar) /\ jar # None
          /\ UNCHANGED <<now, rowVars, jar, home, crossed, missed>>
          /\ held' = held /\ doing' = doing
      BY <2>3 DEF Send, vars, requestVars
    <3>2. doing[c] = "nothing"
      BY <3>1 DEF BrowserIndInv, Trips, TripOf
    <3>3. doing' = [doing EXCEPT ![c] = "nothing"]
      BY <3>1, <3>2, BrowserTypes DEF TypeOK
    <3> QED BY <1>2, <3>1, <3>3, DepartureBrowserInd
  <2>4. ASSUME NEW c \in Requests, SignOut(c)
        PROVE  BrowserTypeOK' /\ Trips' /\ Fresh' /\ Spent' /\ InSession'
    <3>1. /\ trip[c] = "no" /\ Travels(c, "leaving", jar) /\ jar # None
          /\ UNCHANGED <<now, rowVars, jar, home, crossed, missed>>
          /\ doing' = [doing EXCEPT ![c] = "logout"] /\ held' = [held EXCEPT ![c] = jar]
      BY <2>4 DEF SignOut, LogoutRead, Goes
    <3> QED BY <1>2, <3>1, DepartureBrowserInd
  <2>5. ASSUME NEW c \in Requests, Serve(c)
        PROVE  BrowserTypeOK' /\ Trips' /\ Fresh' /\ Spent' /\ InSession'
    BY <1>2, <2>5, KillBrowserInd, ClaimBrowserInd, InsertBrowserInd DEF Serve
  <2>6. ASSUME NEW c \in Requests, Arrive(c) \/ Deliver(c) \/ SignedOut(c) \/ Cleared(c)
        PROVE  BrowserTypeOK' /\ Trips' /\ Fresh' /\ Spent' /\ InSession'
    BY <1>2, <2>6, ArriveBrowserInd, DeliverBrowserInd, SignedOutBrowserInd, ClearedBrowserInd
  <2>7. ASSUME NEW c \in Requests, Lose(c) \/ Die(c) \/ Vanish(c)
        PROVE  BrowserTypeOK' /\ Trips' /\ Fresh' /\ Spent' /\ InSession'
    BY <1>2, <2>7, LostBrowserInd
  <2>8. CASE UNCHANGED allVars
    <3>1. UNCHANGED <<now, family, deadline, usedAt, revoked, doing, held, trip, cookie, sentAt,
                      jar, home, crossed, missed>>
      BY <2>8 DEF allVars, vars, rowVars, requestVars, browserVars
    <3>2. BrowserTypeOK'
      BY <1>2, <3>1 DEF BrowserIndInv, BrowserTypeOK
    <3>3. Trips' /\ Fresh'
      BY <3>1 DEF BrowserIndInv, Trips, TripOf, Fresh, FreshOf, Exists, RowsOf
    <3>4. Spent'
      BY <3>1 DEF BrowserIndInv, Spent, UnderWay, Replaces
    <3>5. InSession'
      BY <3>1 DEF BrowserIndInv, InSession, Over, Killed, Alive, RowsOf
    <3> QED BY <3>2, <3>3, <3>4, <3>5
  <2> QED BY <2>1, <2>2, <2>3, <2>4, <2>5, <2>6, <2>7, <2>8 DEF BrowserNext
<1> QED BY <1>1, <1>3 DEF BrowserIndInv

LEMMA BrowserInvariant == BrowserSpec => []BrowserIndInv
<1>1. BrowserIndInv /\ [BrowserNext]_allVars => BrowserIndInv'
  BY NextBrowserInd
<1> QED BY InitBrowserInd, <1>1, PTL DEF BrowserSpec

\* The sessions of one browser are sessions of the service, whatever becomes of
\* its requests and of their answers: so RotationIsBounded and SignOutsLast hold
\* of the requests that the console sends (session_service.py:127).
THEOREM BrowserUsesSessions == BrowserSpec => Spec
<1>1. BrowserIndInv /\ [BrowserNext]_allVars => [Next]_vars
  BY BrowserStep
<1> QED BY BrowserStart, BrowserInvariant, <1>1, PTL DEF BrowserSpec, Spec

\* For any number of tabs, users and sign-ins, and however slow, lost or failed
\* its requests: a tab is taken for a thief only over a cookie of which a refresh
\* was lost after it was read or was out for more than half the leeway; a spent
\* cookie stays in the jar only after such a loss; and no late answer of the
\* session that the user is in signs the browser out or brings a dead cookie back
\* (session_service.py:23, api.ts:236, routers/auth.py:324).
THEOREM HonestBrowserIsSafe == BrowserSpec => []BrowserInv
<1>1. BrowserIndInv => BrowserInv
  <2> SUFFICES ASSUME BrowserIndInv PROVE BrowserInv
    OBVIOUS
  <2>1. OnlyMissedCookiesAreAccused
    BY DEF BrowserIndInv, Trips, TripOf, OnlyMissedCookiesAreAccused
  <2>2. SpentCookieIsBeingReplaced
    <3>1. jar # None => jar \in Tokens
      BY BrowserTypes DEF BrowserTypeOK
    <3> QED BY <3>1 DEF BrowserIndInv, Spent, Replaces, SpentCookieIsBeingReplaced
  <2>3. SignedInMeansLive
    <3> SUFFICES ASSUME home # None, ~crossed
                 PROVE  \/ jar # None /\ family[jar] = home /\ ~revoked[jar]
                        \/ \A t \in RowsOf(home) : deadline[t] <= now
                        \/ \E s, t \in RowsOf(home) : revoked[s] /\ t \in missed
      BY DEF SignedInMeansLive
    <3>1. Over \/ Killed \/ Alive
      BY DEF BrowserIndInv, InSession
    <3> QED BY <3>1, BrowserTypes DEF Over, Killed, Alive, RowsOf
  <2> QED BY <2>1, <2>2, <2>3 DEF BrowserIndInv, BrowserInv
<1> QED BY <1>1, BrowserInvariant, PTL
=================================================================================
