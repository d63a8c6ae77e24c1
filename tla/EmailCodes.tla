------------------------------ MODULE EmailCodes ------------------------------
(***************************************************************************)
(* The six-digit codes mailed to one user for one purpose (verification or *)
(* password reset): platform.email_verifications and the requests that     *)
(* issue and check codes.  Each statement commits by itself; any other     *)
(* request runs between two of them, and a request may die there.          *)
(***************************************************************************)
EXTENDS Integers, FiniteSets

CONSTANTS
  Codes,       \* the rows, each with a code of its own
  Clients,     \* concurrent requests
  MaxAttempts, \* MAX_ATTEMPTS
  MaxSends,    \* MAX_SENDS_PER_HOUR
  GuessMax,    \* bound on the checks that are begun
  None

ASSUME EmailCodeAssumption ==
  /\ IsFiniteSet(Clients) /\ IsFiniteSet(Codes)
  /\ MaxAttempts \in Nat \ {0} /\ MaxSends \in Nat \ {0} /\ GuessMax \in Nat
  /\ None \notin Codes

VARIABLES
  state,    \* a row: none, live (consumed_at IS NULL) or consumed
  attempts, \* its attempts
  rank,     \* its place in the order of created_at
  expired,  \* the rows past expires_at
  old,      \* the rows created more than an hour ago
  mailed,   \* the codes that reached the user
  doing,    \* a request: what it does next
  row,      \* the row it has read or written
  guess,    \* the code a check was given; None: a wrong one
  verified, \* users.email_verified_at is set
  begun,    \* what remains of GuessMax
  \* history variables
  compared, \* how often a row's code was compared with a guess
  accepted  \* the rows whose code was accepted

rowVars == <<state, attempts, rank, expired, old>>
requestVars == <<doing, row, guess, begun>>
codesVars == <<rowVars, mailed, requestVars, verified, compared, accepted>>

CodesTypeOK ==
  /\ state \in [Codes -> {"none", "live", "consumed"}]
  /\ attempts \in [Codes -> 0 .. GuessMax]
  /\ rank \in [Codes -> 0 .. Cardinality(Codes)]
  /\ expired \subseteq Codes /\ old \subseteq expired /\ mailed \subseteq Codes
  /\ doing \in [Clients -> {"nothing", "supersede", "insert", "mail", "read", "attempt",
                             "compare", "consume", "verify"}]
  /\ row \in [Clients -> Codes \cup {None}]
  /\ guess \in [Clients -> Codes \cup {None}]
  /\ verified \in BOOLEAN
  /\ begun \in 0 .. GuessMax
  /\ compared \in [Codes -> 0 .. GuessMax]
  /\ accepted \subseteq Codes

CodesInit ==
  /\ state = [k \in Codes |-> "none"]
  /\ attempts = [k \in Codes |-> 0]
  /\ rank = [k \in Codes |-> 0]
  /\ expired = {} /\ old = {} /\ mailed = {}
  /\ doing = [c \in Clients |-> "nothing"]
  /\ row = [c \in Clients |-> None]
  /\ guess = [c \in Clients |-> None]
  /\ verified = FALSE
  /\ begun = GuessMax
  /\ compared = [k \in Codes |-> 0]
  /\ accepted = {}

-----------------------------------------------------------------------------
Rows == {k \in Codes : state[k] # "none"}
LiveCodes == {k \in Codes : state[k] = "live"}
Recent == Rows \ old

Goes(c, d) == doing' = [doing EXCEPT ![c] = d]

Ends(c) ==
  /\ Goes(c, "nothing")
  /\ row' = [row EXCEPT ![c] = None]
  /\ guess' = [guess EXCEPT ![c] = None]

-----------------------------------------------------------------------------
\* _issue and create_email_verification.

IssueUnlimited(c) == \* mutant: the count is not looked at
  /\ doing[c] = "nothing"
  /\ Goes(c, "supersede")
  /\ UNCHANGED <<rowVars, mailed, row, guess, begun, verified, compared, accepted>>

\* count_recent_verifications; a request that is refused changes nothing.
Issue(c) ==
  /\ doing[c] = "nothing"
  /\ Cardinality(Recent) < MaxSends
  /\ Goes(c, "supersede")
  /\ UNCHANGED <<rowVars, mailed, row, guess, begun, verified, compared, accepted>>

SupersedeNone(c) == \* mutant: resend leaves the previous code working
  /\ doing[c] = "supersede"
  /\ Goes(c, "insert")
  /\ UNCHANGED <<rowVars, mailed, row, guess, begun, verified, compared, accepted>>

Supersede(c) ==
  /\ doing[c] = "supersede"
  /\ state' = [k \in Codes |-> IF k \in Rows THEN "consumed" ELSE "none"]
  /\ Goes(c, "insert")
  /\ UNCHANGED <<attempts, rank, expired, old, mailed, row, guess, begun, verified,
                 compared, accepted>>

Insert(c, k) ==
  /\ doing[c] = "insert" /\ state[k] = "none"
  /\ state' = [state EXCEPT ![k] = "live"]
  /\ rank' = [rank EXCEPT ![k] = Cardinality(Rows) + 1]
  /\ Goes(c, "mail")
  /\ row' = [row EXCEPT ![c] = k]
  /\ UNCHANGED <<attempts, expired, old, mailed, guess, begun, verified, compared, accepted>>

\* EmailSender.send.
Mail(c) ==
  /\ doing[c] = "mail"
  /\ mailed' = mailed \cup {row[c]}
  /\ Ends(c)
  /\ UNCHANGED <<rowVars, begun, verified, compared, accepted>>

-----------------------------------------------------------------------------
\* _check.

Try(c, g) ==
  /\ doing[c] = "nothing" /\ begun > 0
  /\ g \in mailed \cup {None}
  /\ begun' = begun - 1
  /\ Goes(c, "read")
  /\ guess' = [guess EXCEPT ![c] = g]
  /\ UNCHANGED <<rowVars, mailed, row, verified, compared, accepted>>

Latest == CHOOSE k \in LiveCodes : \A l \in LiveCodes : rank[l] <= rank[k]

\* get_live_email_verification and what is asked of the row.
Read(c) ==
  /\ doing[c] = "read"
  /\ IF LiveCodes # {} /\ attempts[Latest] < MaxAttempts /\ Latest \notin expired
     THEN /\ Goes(c, "attempt")
          /\ row' = [row EXCEPT ![c] = Latest]
          /\ UNCHANGED guess
     ELSE Ends(c)
  /\ UNCHANGED <<rowVars, mailed, begun, verified, compared, accepted>>

AttemptIfWrong(c) == \* mutant: a right guess is not counted
  /\ doing[c] = "attempt"
  /\ attempts' = IF guess[c] = row[c] THEN attempts ELSE [attempts EXCEPT ![row[c]] = @ + 1]
  /\ Goes(c, "compare")
  /\ UNCHANGED <<state, rank, expired, old, mailed, row, guess, begun, verified, compared,
                 accepted>>

\* record_verification_attempt.
Attempt(c) ==
  /\ doing[c] = "attempt"
  /\ attempts' = [attempts EXCEPT ![row[c]] = @ + 1]
  /\ Goes(c, "compare")
  /\ UNCHANGED <<state, rank, expired, old, mailed, row, guess, begun, verified, compared,
                 accepted>>

Compare(c) ==
  /\ doing[c] = "compare"
  /\ compared' = [compared EXCEPT ![row[c]] = @ + 1]
  /\ IF guess[c] = row[c] THEN Goes(c, "consume") /\ UNCHANGED <<row, guess>> ELSE Ends(c)
  /\ UNCHANGED <<rowVars, mailed, begun, verified, accepted>>

\* consume_email_verification.
Consume(c) ==
  /\ doing[c] = "consume"
  /\ state' = [state EXCEPT ![row[c]] = "consumed"]
  /\ accepted' = accepted \cup {row[c]}
  /\ Goes(c, "verify")
  /\ UNCHANGED <<attempts, rank, expired, old, mailed, row, guess, begun, verified, compared>>

\* mark_email_verified.
Verify(c) ==
  /\ doing[c] = "verify"
  /\ verified' = TRUE
  /\ Ends(c)
  /\ UNCHANGED <<rowVars, mailed, begun, compared, accepted>>

-----------------------------------------------------------------------------
Expire(k) ==
  /\ k \in Rows \ expired
  /\ expired' = expired \cup {k}
  /\ UNCHANGED <<state, attempts, rank, old, mailed, requestVars, verified, compared, accepted>>

\* An hour has passed.
Age(k) ==
  /\ k \in expired \ old
  /\ \A l \in Recent : rank[k] <= rank[l]
  /\ old' = old \cup {k}
  /\ UNCHANGED <<state, attempts, rank, expired, mailed, requestVars, verified, compared,
                 accepted>>

\* The request dies, or the mail cannot be sent.
Die(c) ==
  /\ doing[c] # "nothing"
  /\ Ends(c)
  /\ UNCHANGED <<rowVars, mailed, begun, verified, compared, accepted>>

CodesNext ==
  \/ \E c \in Clients :
       \/ Issue(c) \/ Supersede(c) \/ (\E k \in Codes : Insert(c, k)) \/ Mail(c)
       \/ \E g \in Codes \cup {None} : Try(c, g)
       \/ Read(c) \/ Attempt(c) \/ Compare(c) \/ Consume(c) \/ Verify(c) \/ Die(c)
  \/ \E k \in Codes : Expire(k) \/ Age(k)

CodesSpec == CodesInit /\ [][CodesNext]_codesVars

-----------------------------------------------------------------------------
\* See CodeInv.
GuessesAreCounted ==
  \A k \in Codes :
    /\ compared[k] <= attempts[k]
    /\ attempts[k] <= MaxAttempts + Cardinality(Clients) - 1

\* See CodeInv.
SendsAreBounded == Cardinality(Recent) <= MaxSends + Cardinality(Clients) - 1

Issuing == {c \in Clients : doing[c] = "insert"}

\* "superseding any earlier live one" (repositories/tenants.py:187): live codes
\* besides the latest are of requests that overlapped; a code requested when
\* nothing else was in flight leaves every earlier one dead.
OnlyOverlappingCodesLive == Cardinality(LiveCodes) + Cardinality(Issuing) <= Cardinality(Clients)

\* See CodeInv.
AcceptedIsSpent ==
  /\ \A k \in accepted : state[k] = "consumed"
  /\ verified => accepted # {}

\* Types; "count the attempt before comparing, so a crash mid-verify cannot be
\* used to get a free guess" (email_verification_service.py:146): every
\* comparison was counted, and concurrent checks stretch MAX_ATTEMPTS by at
\* most one less than their number, and so do concurrent sends
\* MAX_SENDS_PER_HOUR (:31); and an accepted code is never live again, so that
\* only a check that had read it before can accept it once more; and only
\* requests that overlapped leave a code live besides the latest.
CodeInv ==
  /\ CodesTypeOK /\ GuessesAreCounted /\ SendsAreBounded
  /\ AcceptedIsSpent /\ OnlyOverlappingCodesLive
=============================================================================
