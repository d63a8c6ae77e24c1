------------------------------ MODULE MCSessions ------------------------------
(***************************************************************************)
(* Instances of Sessions for TLC.                                          *)
(***************************************************************************)
EXTENDS Sessions, TLC

CONSTANT u1

AllMine == [f \in Families |-> u1]

SessionSymmetry ==
  Permutations(Families) \cup Permutations(Tokens) \cup Permutations(Requests)

-----------------------------------------------------------------------------
\* sessions.py:59: of two refreshes that race on a cookie one is handed a
\* session and the other is treated as reuse.  (Both are handed one.)
OneExchangePerToken ==
  \A s, t \in Tokens : parent[s] # None /\ parent[s] = parent[t] => s = t

\* session_service.py:188: logout revokes the whole family "so sibling tabs
\* die too".  (A sibling's rotation in flight inserts a live row afterwards.)
RevokedFamilyHasNoLiveRow ==
  \A s, t \in Tokens :
    Exists(s) /\ family[s] = family[t] /\ revoked[s] => revoked[t]

\* routers/auth.py:267: after a reset no session of whoever knew the old
\* password is left running.  (One that was in flight is.)
ResetLocksOut ==
  \A t \in Tokens :
    /\ Exists(t) /\ ~revoked[t]
    /\ \A c \in Requests : doing[c] # "reset"
    => born[family[t]] = password[UserOf(t)]
=============================================================================
