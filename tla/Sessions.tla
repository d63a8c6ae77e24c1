------------------------------- MODULE Sessions -------------------------------
(***************************************************************************)
(* platform.user_sessions and the requests that write it: refresh          *)
(* (SessionService.rotate), logout (SessionService.revoke), login and      *)
(* password reset.  A request is a sequence of statements that commit one  *)
(* by one; any other request may run, and time may pass, between two of    *)
(* them, and a request may die after any of them.  A token once issued may *)
(* be presented by anyone, at any time, any number of times.               *)
(***************************************************************************)
EXTENDS Integers

CONSTANTS
  Users, Families, Tokens, \* Tokens: refresh tokens, each the key of its row
  Owner,    \* the user a family would belong to
  Requests, \* concurrent requests
  Leeway,   \* reuse_leeway_seconds, in ticks
  Ttl,      \* ttl_seconds, in ticks
  Horizon,  \* bound on the clock
  ResetMax, \* bound on password resets of a user
  Failing,  \* whether requests may die half way
  None

ASSUME SessionAssumption ==
  /\ Owner \in [Families -> Users]
  /\ Leeway \in Nat /\ Ttl \in Nat \ {0} /\ Horizon \in Nat /\ ResetMax \in Nat
  /\ Failing \in BOOLEAN
  /\ None \notin Families \cup Tokens \cup Users

VARIABLES
  now,
  family, deadline, usedAt, revoked, \* the rows; family[t] = None: no row
  password, \* the generation of a user's password
  doing,    \* a request: what it does next
  held,     \* the token it presented or was issued
  who,      \* the user a login or reset is about
  \* history variables
  readAt,   \* when a request read the row of its token
  proved,   \* the password generation a login compared with
  parent, askedAt, \* the token a token was exchanged for, and readAt then
  born,     \* the password generation a family's login proved
  sealed,   \* families revoked while no rotation of theirs was in flight
  locked    \* the generation set by the user's last reset that ended while
            \* no login or rotation of the user was in flight

rowVars == <<family, deadline, usedAt, revoked>>
requestVars == <<doing, held, who, readAt, proved>>
history == <<parent, askedAt, born, sealed, locked>>
vars == <<now, rowVars, password, requestVars, history>>

Never == -1

TypeOK ==
  /\ now \in 0 .. Horizon
  /\ family \in [Tokens -> Families \cup {None}]
  /\ deadline \in [Tokens -> 0 .. Horizon + Ttl]
  /\ usedAt \in [Tokens -> {Never} \cup 0 .. now]
  /\ revoked \in [Tokens -> BOOLEAN]
  /\ password \in [Users -> 0 .. ResetMax]
  /\ doing \in [Requests -> {"nothing", "denied", "issued", "claim", "issue",
                             "reuse", "logout", "login", "reset"}]
  /\ held \in [Requests -> Tokens \cup {None}]
  /\ who \in [Requests -> Users \cup {None}]
  /\ readAt \in [Requests -> 0 .. Horizon]
  /\ proved \in [Requests -> 0 .. ResetMax]
  /\ parent \in [Tokens -> Tokens \cup {None}]
  /\ askedAt \in [Tokens -> 0 .. Horizon]
  /\ born \in [Families -> 0 .. ResetMax]
  /\ sealed \subseteq Families
  /\ locked \in [Users -> 0 .. ResetMax]

Init ==
  /\ now = 0
  /\ family = [t \in Tokens |-> None]
  /\ deadline = [t \in Tokens |-> 0]
  /\ usedAt = [t \in Tokens |-> Never]
  /\ revoked = [t \in Tokens |-> FALSE]
  /\ password = [u \in Users |-> 0]
  /\ doing = [c \in Requests |-> "nothing"]
  /\ held = [c \in Requests |-> None]
  /\ who = [c \in Requests |-> None]
  /\ readAt = [c \in Requests |-> 0]
  /\ proved = [c \in Requests |-> 0]
  /\ parent = [t \in Tokens |-> None]
  /\ askedAt = [t \in Tokens |-> 0]
  /\ born = [f \in Families |-> 0]
  /\ sealed = {}
  /\ locked = [u \in Users |-> 0]

-----------------------------------------------------------------------------
Exists(t) == family[t] # None
UserOf(t) == Owner[family[t]]
RowsOf(f) == {t \in Tokens : family[t] = f}

UserFamilies(u) == {f \in Families : Owner[f] = u}

\* Request c goes on with d, about token t and user u.
Goes(c, d, t, u) ==
  /\ doing' = [doing EXCEPT ![c] = d]
  /\ held' = [held EXCEPT ![c] = t]
  /\ who' = [who EXCEPT ![c] = u]

\* Request c is over.
Ends(c) ==
  /\ Goes(c, "nothing", None, None)
  /\ readAt' = [readAt EXCEPT ![c] = 0]
  /\ proved' = [proved EXCEPT ![c] = 0]

\* A rotation of a family that has read its row and not yet issued.
Rotating(f) ==
  \E c \in Requests : doing[c] \in {"claim", "issue"} /\ family[held[c]] = f

LoggingIn(u) == \E c \in Requests : doing[c] = "login" /\ who[c] = u

\* INSERT of the row of a fresh token.
Create(c, t, f, d) ==
  /\ ~Exists(t)
  /\ family' = [family EXCEPT ![t] = f]
  /\ deadline' = [deadline EXCEPT ![t] = d]
  /\ parent' = [parent EXCEPT ![t] = held[c]]
  /\ askedAt' = [askedAt EXCEPT ![t] = readAt[c]]
  /\ Goes(c, "issued", t, None)
  /\ readAt' = [readAt EXCEPT ![c] = 0]
  /\ proved' = [proved EXCEPT ![c] = 0]
  /\ UNCHANGED <<now, usedAt, revoked, password, sealed, locked>>

\* The UPDATE of revoke_family and revoke_all_for_user.
Revoke(F) ==
  /\ revoked' = [t \in Tokens |-> revoked[t] \/ family[t] \in F]
  /\ sealed' = sealed \cup {f \in F : RowsOf(f) # {} /\ ~Rotating(f)}
  /\ UNCHANGED <<now, family, deadline, usedAt, parent, askedAt, born>>

-----------------------------------------------------------------------------
\* Refresh.

VerdictLateLeeway(t, csrf) == \* mutant: the leeway starts at expiry, not at use
  CASE revoked[t] -> "denied"
    [] usedAt[t] # Never /\ now > deadline[t] + Leeway -> "reuse"
    [] deadline[t] <= now -> "denied"
    [] ~csrf -> "denied"
    [] OTHER -> IF usedAt[t] = Never THEN "claim" ELSE "issue"

VerdictStrict(t, csrf) == \* mutant: < in the place of <=
  CASE revoked[t] -> "denied"
    [] usedAt[t] # Never /\ now >= usedAt[t] + Leeway -> "reuse"
    [] deadline[t] <= now -> "denied"
    [] ~csrf -> "denied"
    [] OTHER -> IF usedAt[t] = Never THEN "claim" ELSE "issue"

\* What rotate makes of the row it reads; csrf: the CSRF token matches.
Verdict(t, csrf) ==
  CASE revoked[t] -> "denied"
    [] usedAt[t] # Never /\ now > usedAt[t] + Leeway -> "reuse"
    [] deadline[t] <= now -> "denied"
    [] ~csrf -> "denied"
    [] OTHER -> IF usedAt[t] = Never THEN "claim" ELSE "issue"

\* rotate up to its first write.
Present(c, t, csrf) ==
  /\ doing[c] = "nothing"
  /\ Exists(t)
  /\ LET verdict == Verdict(t, csrf)
     IN /\ Goes(c, verdict, IF verdict = "denied" THEN None ELSE t, None)
        /\ readAt' = IF verdict \in {"claim", "issue"}
                     THEN [readAt EXCEPT ![c] = now] ELSE readAt
  /\ UNCHANGED <<now, rowVars, password, proved, history>>

\* An already-rotated token came back after the leeway: the family dies.
KillFamily(c) ==
  /\ doing[c] = "reuse"
  /\ Revoke({family[held[c]]})
  /\ Goes(c, "denied", None, None)
  /\ UNCHANGED <<password, readAt, proved, locked>>

\* SessionRepository.claim.  Losing it -- to another refresh or to a
\* revocation -- makes no difference to rotate.
Claim(c) ==
  /\ doing[c] = "claim"
  /\ LET t == held[c]
     IN usedAt' = IF usedAt[t] = Never /\ ~revoked[t]
                  THEN [usedAt EXCEPT ![t] = now] ELSE usedAt
  /\ Goes(c, "issue", held[c], None)
  /\ UNCHANGED <<now, family, deadline, revoked, password, readAt, proved, history>>

IssueExtended(c) == \* mutant: expires_at is not passed on
  /\ doing[c] = "issue"
  /\ \E t \in Tokens : Create(c, t, family[held[c]], now + Ttl)
  /\ UNCHANGED born

\* issue, in the family of the presented token and with its deadline.
Issue(c) ==
  /\ doing[c] = "issue"
  /\ \E t \in Tokens : Create(c, t, family[held[c]], deadline[held[c]])
  /\ UNCHANGED born

-----------------------------------------------------------------------------
\* Logout, login, password reset.

\* revoke reads the row of the token, whatever its state ...
LogoutRead(c, t) ==
  /\ doing[c] = "nothing"
  /\ Exists(t)
  /\ Goes(c, "logout", t, None)
  /\ UNCHANGED <<now, rowVars, password, readAt, proved, history>>

\* ... and revokes its family.
Logout(c) ==
  /\ doing[c] = "logout"
  /\ Revoke({family[held[c]]})
  /\ Ends(c)
  /\ UNCHANGED <<password, locked>>

\* AuthService.login compares the password with the hash it reads; a family
\* starts afterwards.
LoginCheck(c, u) ==
  /\ doing[c] = "nothing"
  /\ Goes(c, "login", None, u)
  /\ proved' = [proved EXCEPT ![c] = password[u]]
  /\ UNCHANGED <<now, rowVars, password, readAt, history>>

LoginIssue(c) ==
  /\ doing[c] = "login"
  /\ \E t \in Tokens, f \in UserFamilies(who[c]) :
       /\ RowsOf(f) = {}
       /\ Create(c, t, f, now + Ttl)
       /\ born' = [born EXCEPT ![f] = proved[c]]

\* reset_password with an accepted code: the new hash is written ...
ResetHash(c, u) ==
  /\ doing[c] = "nothing"
  /\ password[u] < ResetMax
  /\ password' = [password EXCEPT ![u] = @ + 1]
  /\ Goes(c, "reset", None, u)
  /\ UNCHANGED <<now, rowVars, readAt, proved, history>>

ResetRevokesOne(c) == \* mutant: only one device is signed out
  /\ doing[c] = "reset"
  /\ \E f \in UserFamilies(who[c]) : Revoke({f})
  /\ locked' = [locked EXCEPT ![who[c]] = password[who[c]]]
  /\ Ends(c)
  /\ UNCHANGED password

\* ... and then every session of the user is revoked.
ResetRevoke(c) ==
  /\ doing[c] = "reset"
  /\ LET u == who[c]
     IN /\ Revoke(UserFamilies(u))
        /\ locked' = IF LoggingIn(u) \/ \E f \in UserFamilies(u) : Rotating(f)
                     THEN locked ELSE [locked EXCEPT ![u] = password[u]]
  /\ Ends(c)
  /\ UNCHANGED password
-----------------------------------------------------------------------------
\* The response goes out.
Respond(c) ==
  /\ doing[c] \in {"denied", "issued"}
  /\ Ends(c)
  /\ UNCHANGED <<now, rowVars, password, history>>

\* The process dies, or a statement raises, between two statements.
Fail(c) ==
  /\ Failing
  /\ doing[c] \notin {"nothing", "denied", "issued"}
  /\ Ends(c)
  /\ UNCHANGED <<now, rowVars, password, history>>

Tick ==
  /\ now < Horizon
  /\ now' = now + 1
  /\ UNCHANGED <<rowVars, password, requestVars, history>>

Starts(c) ==
  \/ \E t \in Tokens : LogoutRead(c, t) \/ \E csrf \in BOOLEAN : Present(c, t, csrf)
  \/ \E u \in Users : LoginCheck(c, u) \/ ResetHash(c, u)

Proceeds(c) ==
  \/ KillFamily(c) \/ Claim(c) \/ Issue(c) \/ Logout(c)
  \/ LoginIssue(c) \/ ResetRevoke(c)

Next == Tick \/ \E c \in Requests : Starts(c) \/ Proceeds(c) \/ Respond(c) \/ Fail(c)

Spec == Init /\ [][Next]_vars

-----------------------------------------------------------------------------
\* "A stolen cookie cannot be refreshed indefinitely" (session_service.py:108,
\* 0005_sessions.sql: "rotation never extends it"): every token of a family,
\* however often the family was rotated, dies with the family's first token.
OneDeadlinePerFamily ==
  \A s, t \in Tokens : Exists(s) /\ family[s] = family[t] => deadline[s] = deadline[t]

\* "Replay outside the window is still fatal to the family"
\* (session_service.py:26): a token is exchanged only by requests that asked
\* no later than the leeway after its one use, however many requests race and
\* however long each of them takes from its read to its INSERT.
ExchangesAreContemporary ==
  \A t \in Tokens :
    Exists(t) /\ parent[t] # None =>
      \/ usedAt[parent[t]] # Never /\ askedAt[t] <= usedAt[parent[t]] + Leeway
      \/ revoked[parent[t]]

\* Types; every family keeps its one deadline; and every exchange was asked for
\* within the leeway of its parent's use.
SessionInv == TypeOK /\ OneDeadlinePerFamily /\ ExchangesAreContemporary

\* A family that was revoked -- by logout, by reuse detection or by a password
\* reset -- while no rotation of it was between its read and its INSERT has no
\* live row ever again.  (With one in flight it may: see MCSessions.)
SealedFamiliesStayDead ==
  \A t \in Tokens : Exists(t) /\ family[t] \in sealed => revoked[t]

\* After a password reset that ended while no login or rotation of the user
\* was in flight, every live session stems from a login with the new password.
ResetLocksOutWhenQuiet ==
  \A t \in Tokens : Exists(t) /\ ~revoked[t] => born[family[t]] >= locked[UserOf(t)]

\* Who was signed out stays signed out, whatever requests run afterwards, on
\* every device and after every step of a rotation.
SignedOutForGood == SealedFamiliesStayDead /\ ResetLocksOutWhenQuiet
=============================================================================
