-------------------------- MODULE MCBrowserSessions --------------------------
(***************************************************************************)
(* Instances of BrowserSessions for TLC.                                   *)
(***************************************************************************)
EXTENDS BrowserSessions, TLC, FiniteSets

CONSTANT u1

AllMine == [f \in Families |-> u1]

BrowserSymmetry ==
  Permutations(Families) \cup Permutations(Tokens) \cup Permutations(Requests)

\* What the actions and BrowserInv read: the history of Sessions apart, no part
\* of which a guard reads.
Seen == <<now, rowVars, doing, held, who, browserVars>>

\* Bound: at most one cookie is missed.
OneMissed == Cardinality(missed) <= 1

-----------------------------------------------------------------------------
\* session_service.py:19-24: reuse "well after it was rotated" is "theft or a
\* cloned cookie", and the leeway keeps honest users from being logged out.
\* (The answer to a refresh that has spent the cookie is lost -- api.ts:236 gives
\* up on it after 20 seconds, session_for_user fails, the tab is reloaded -- and
\* the browser, which still holds the spent cookie, presents it after the leeway.)
HonestBrowserNotAccused == \A c \in Requests : doing[c] # "reuse"

\* auth.tsx:118-119: "a failed renewal mid-session should not look like a silent
\* logout".  (The late answer to a request of the session before clears the
\* cookie of the one that the user has signed in to since.)
SignedInStaysIn ==
  home # None =>
    \/ jar # None /\ ~revoked[jar]
    \/ \A t \in RowsOf(home) : deadline[t] <= now
=============================================================================
