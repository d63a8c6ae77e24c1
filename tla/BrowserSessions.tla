--------------------------- MODULE BrowserSessions ---------------------------
(***************************************************************************)
(* One browser with several tabs in front of the session service: tabs     *)
(* share a cookie jar, a refresh sends the cookie the jar holds at that    *)
(* moment, and its answer replaces the cookie when it arrives, in whatever *)
(* order answers arrive -- if it arrives: the console gives up on it, the  *)
(* network loses it, the tab is reloaded, or the request dies or fails     *)
(* after it has spent the cookie.                                          *)
(***************************************************************************)
EXTENDS Sessions

CONSTANT Patience \* AbortSignal.timeout of the console's refresh, in ticks

ASSUME BrowserAssumption == Patience \in Nat

VARIABLES
  jar,    \* the refresh cookie
  trip,   \* a request: no, sent, served, or a logout that is leaving
  cookie, \* the cookie it was sent with
  sentAt, \* when
  \* history variables
  home,    \* the family the user has last signed in to, and not out of since
  crossed, \* since then an answer to a request of another family has arrived
  missed   \* cookies sent with a refresh whose answer was lost after the
           \* server had read them, or was out for more than half the leeway

browserVars == <<jar, trip, cookie, sentAt, home, crossed, missed>>
allVars == <<vars, browserVars>>

BrowserTypeOK ==
  /\ TypeOK
  /\ jar \in Tokens \cup {None}
  /\ trip \in [Requests -> {"no", "sent", "served", "leaving"}]
  /\ cookie \in [Requests -> Tokens \cup {None}]
  /\ sentAt \in [Requests -> 0 .. now]
  /\ home \in Families \cup {None}
  /\ crossed \in BOOLEAN
  /\ missed \subseteq Tokens

BrowserInit ==
  /\ Init
  /\ jar = None
  /\ trip = [c \in Requests |-> "no"]
  /\ cookie = [c \in Requests |-> None]
  /\ sentAt = [c \in Requests |-> 0]
  /\ home = None
  /\ crossed = FALSE
  /\ missed = {}

-----------------------------------------------------------------------------
Travels(c, state, t) ==
  /\ trip' = [trip EXCEPT ![c] = state]
  /\ cookie' = [cookie EXCEPT ![c] = t]
  /\ sentAt' = [sentAt EXCEPT ![c] = IF t = None THEN 0 ELSE now]

\* The user signs in, in a tab that has no session: it may not know of one that
\* another tab has opened, or that a refresh would have restored.
SignIn(c, u) ==
  /\ trip[c] = "no"
  /\ LoginCheck(c, u)
  /\ Travels(c, "served", None)
  /\ UNCHANGED <<jar, home, crossed, missed>>

\* A tab restores or renews its session.
Send(c) ==
  /\ jar # None /\ trip[c] = "no"
  /\ Travels(c, "sent", jar)
  /\ UNCHANGED <<vars, jar, home, crossed, missed>>

\* The request reaches the server, however long it was on its way: the console
\* giving up on it does not call it back.
Arrive(c) ==
  /\ trip[c] = "sent"
  /\ Present(c, cookie[c], TRUE)
  /\ trip' = [trip EXCEPT ![c] = "served"]
  /\ UNCHANGED <<jar, cookie, sentAt, home, crossed, missed>>

Serve(c) ==
  /\ KillFamily(c) \/ Claim(c) \/ Issue(c) \/ LoginIssue(c)
  /\ UNCHANGED browserVars

\* What the arrival of an answer means to the session the user is in.
Foreign(c) == home # None /\ family[cookie[c]] # home
Noted(c) ==
  IF cookie[c] = None
  THEN home' = family[held[c]] /\ crossed' = FALSE
  ELSE home' = home /\ crossed' = (crossed \/ Foreign(c))

DeliverKeeps(c) == \* mutant: refresh does not set the cookies
  /\ Respond(c)
  /\ cookie[c] # None => now <= sentAt[c] + Patience
  /\ IF doing[c] = "issued"
     THEN jar' = IF cookie[c] = None THEN held[c] ELSE jar
     ELSE jar' \in {jar, None}
  /\ Noted(c)
  /\ Travels(c, "no", None)
  /\ UNCHANGED missed

\* An answer arrives, a refresh's while the console waits for it, and sets the
\* cookie, whatever the jar holds by then.  A refusal clears it or leaves it:
\* the router clears it on the response it was given and then raises, and what
\* is answered to an exception is the framework's.
Deliver(c) ==
  /\ Respond(c)
  /\ cookie[c] # None => now <= sentAt[c] + Patience
  /\ IF doing[c] = "issued" THEN jar' = held[c] ELSE jar' \in {jar, None}
  /\ Noted(c)
  /\ Travels(c, "no", None)
  /\ UNCHANGED missed

\* The answer to c, if it is to a refresh, does not come.
Misses(c) == missed' = IF trip[c] = "served" THEN missed \cup ({cookie[c]} \ {None}) ELSE missed

\* An answer is not taken in: the console has given up, the network has lost it,
\* the tab was reloaded, or session_for_user raised after the rotation.
Lose(c) ==
  /\ Respond(c)
  /\ Misses(c)
  /\ Travels(c, "no", None)
  /\ UNCHANGED <<jar, home, crossed>>

\* The request dies, or a statement of it raises, between two statements.
Die(c) ==
  /\ Fail(c)
  /\ Misses(c)
  /\ Travels(c, "no", None)
  /\ UNCHANGED <<jar, home, crossed>>

\* The user signs out ...
SignOut(c) ==
  /\ jar # None /\ trip[c] = "no"
  /\ LogoutRead(c, jar)
  /\ Travels(c, "leaving", jar)
  /\ UNCHANGED <<jar, home, crossed, missed>>

\* ... the family is revoked ...
SignedOut(c) ==
  /\ Logout(c)
  /\ home' = IF Foreign(c) THEN home ELSE None
  /\ UNCHANGED <<jar, trip, cookie, sentAt, crossed, missed>>

\* ... and the answer clears the cookie, whatever the jar holds by then, or is
\* lost, or the request was before it was served.
Cleared(c) ==
  /\ trip[c] = "leaving" /\ doing[c] = "nothing"
  /\ \/ jar' = None /\ crossed' = (crossed \/ Foreign(c))
     \/ UNCHANGED <<jar, crossed>>
  /\ Travels(c, "no", None)
  /\ UNCHANGED <<vars, home, missed>>

\* The network loses a refresh on its way to the server.
Vanish(c) ==
  /\ trip[c] = "sent"
  /\ Travels(c, "no", None)
  /\ UNCHANGED <<vars, jar, home, crossed, missed>>

\* Refreshes that will have been out for more than half the leeway.
Overdue ==
  {c \in Requests : /\ trip[c] \in {"sent", "served"} /\ cookie[c] # None
                    /\ 2 * (now + 1 - sentAt[c]) > Leeway}

BrowserTick ==
  /\ Tick
  /\ missed' = missed \cup {cookie[c] : c \in Overdue}
  /\ UNCHANGED <<jar, trip, cookie, sentAt, home, crossed>>

BrowserNext ==
  \/ BrowserTick
  \/ \E c \in Requests :
       \/ \E u \in Users : SignIn(c, u)
       \/ Send(c) \/ Vanish(c) \/ Arrive(c) \/ Serve(c)
       \/ Deliver(c) \/ Lose(c) \/ Die(c)
       \/ SignOut(c) \/ SignedOut(c) \/ Cleared(c)

BrowserSpec == BrowserInit /\ [][BrowserNext]_allVars

-----------------------------------------------------------------------------
\* "Treating those as attacks logs honest users out constantly"
\* (session_service.py:23): a tab of the browser is taken for a thief only over
\* a cookie of which some refresh went wrong -- its answer was lost after the
\* server had read the cookie, or it was out for more than half the leeway --
\* whatever the order in which requests are served and answers arrive.
OnlyMissedCookiesAreAccused == \A c \in Requests : doing[c] = "reuse" => held[c] \in missed

\* A cookie that was spent stays in the jar only while a request that was sent
\* with it, and whose answer will replace it, is under way -- or after the
\* answer to such a request was lost: then it stays, and is accused after the
\* leeway (see MCBrowserSessions).
SpentCookieIsBeingReplaced ==
  jar # None /\ usedAt[jar] # Never =>
    \/ \E c \in Requests :
         trip[c] = "served" /\ cookie[c] = jar /\ doing[c] \in {"issue", "issued"}
    \/ jar \in missed

\* A browser that is signed in holds a live cookie of that session until the
\* user signs out, its deadline passes, or it is taken for stolen over a missed
\* cookie of its own: no answer of that session that is late clears the cookie
\* or puts a revoked one into the jar.  (One to a request of another session
\* may: see MCBrowserSessions.)
SignedInMeansLive ==
  home # None /\ ~crossed =>
    \/ jar # None /\ family[jar] = home /\ ~revoked[jar]
    \/ \A t \in RowsOf(home) : deadline[t] <= now
    \/ \E s, t \in RowsOf(home) : revoked[s] /\ t \in missed

\* Types; no honest tab is accused or left with a spent cookie unless an answer
\* to it went astray; and a late answer neither signs the browser out of the
\* session it belongs to nor brings a dead cookie back (session_service.py:23,
\* routers/auth.py:324).
BrowserInv ==
  /\ BrowserTypeOK
  /\ OnlyMissedCookiesAreAccused
  /\ SpentCookieIsBeingReplaced
  /\ SignedInMeansLive
=============================================================================
