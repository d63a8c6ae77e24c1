------------------------------- MODULE Accounts -------------------------------
(***************************************************************************)
(* The accounts of one e-mail address.  Its owner, who reads its mail and  *)
(* holds its Google identity, and another person may both sign up with it. *)
(* Signing up, the Google callback, login, reset and provisioning are      *)
(* sequences of statements without a transaction; a request may die        *)
(* between two.  EmailCodes models the codes, Sessions the sessions.       *)
(***************************************************************************)
EXTENDS Integers, Sequences, FiniteSets

CONSTANTS
  Users,      \* the ids that are generated
  Callers,    \* concurrent requests
  Owner, Other,
  TrialPlans, \* TRIAL_PLANS: modules, in the order of their trials
  FlowMax,    \* bound on the Google flows begun
  CallMax,    \* bound on the requests begun
  Nobody

ASSUME AccountsAssumption ==
  /\ Owner # Other /\ Nobody \notin Users \cup {Owner, Other}
  /\ TrialPlans \in Seq(STRING) /\ FlowMax \in Nat /\ CallMax \in Nat
  /\ IsFiniteSet(Users) /\ IsFiniteSet(Callers)

People == {Owner, Other}
Trials == {TrialPlans[j] : j \in DOMAIN TrialPlans}

VARIABLES
  email,     \* a user: "none" (no row), "address" or "blank"
  confirmed,  \* users with email_verified_at
  password,  \* whose password a user has
  linked,    \* the user of the Google identity
  founded,   \* the workspaces created for a user
  owned,     \* those it has the owner's membership of
  trials,    \* the trials of those workspaces
  signedIn,  \* <<person, user>>: a session
  flow,      \* the OAuth state: "none", "open" or "burnt"
  codeSpent, \* Google has redeemed the code of the flow
  flows, calls,
  call,      \* a request
  \* history variables
  broken,    \* users whose creation died
  late,      \* users whose password a sign-up set after the owner's proof of the address
  exposed,   \* users that a reset verified while they had the other's password,
             \* until a reset is through
  crowded    \* users that two requests were provisioning at once

workspaceVars == <<founded, owned, trials>>
userVars == <<email, confirmed, password, linked, workspaceVars, signedIn>>
flowVars == <<flow, codeSpent, flows>>
pastVars == <<broken, late, exposed, crowded>>
accountVars == <<userVars, flowVars, calls, call, pastVars>>

NoCall == [does |-> "nothing", by |-> Nobody, user |-> Nobody, google |-> FALSE, left |-> <<>>]

AccountsTypeOK ==
  /\ email \in [Users -> {"none", "address", "blank"}]
  /\ confirmed \subseteq Users /\ password \in [Users -> People \cup {Nobody}]
  /\ linked \in Users \cup {Nobody}
  /\ \A u \in Users : founded[u] \in Nat /\ owned[u] \in Nat /\ trials[u] \subseteq Trials
  /\ signedIn \subseteq People \X Users
  /\ \A c \in Callers : call[c].by \in People \cup {Nobody} /\ call[c].user \in Users \cup {Nobody}

AccountsInit ==
  /\ email = [u \in Users |-> "none"] /\ confirmed = {} /\ linked = Nobody
  /\ password = [u \in Users |-> Nobody]
  /\ founded = [u \in Users |-> 0] /\ owned = [u \in Users |-> 0]
  /\ trials = [u \in Users |-> {}] /\ signedIn = {}
  /\ flow = "none" /\ codeSpent = FALSE /\ flows = 0 /\ calls = 0
  /\ call = [c \in Callers |-> NoCall]
  /\ broken = {} /\ late = {} /\ exposed = {} /\ crowded = {}

-----------------------------------------------------------------------------
Known == {u \in Users : email[u] = "address"}
The(S) == CHOOSE u \in S : TRUE

Begins(c, what, p, u) ==
  /\ call[c] = NoCall /\ calls < CallMax
  /\ calls' = calls + 1
  /\ call' = [call EXCEPT ![c] = [NoCall EXCEPT !.does = what, !.by = p, !.user = u,
                                        !.google = (what = "burn")]]

At(c, what) == call[c].does = what
GoesOn(c, what) == call' = [call EXCEPT ![c].does = what]
GoesFor(c, what, u) == call' = [call EXCEPT ![c].does = what, ![c].user = u]
Leaves(c) == call' = [call EXCEPT ![c] = NoCall]
Enters(c) == signedIn' = signedIn \cup {<<call[c].by, call[c].user>>}

\* Requests that create the account or a workspace of u, and are not done.
Creating(u) ==
  {c \in Callers : call[c].user = u
     /\ call[c].does \in {"password", "mark", "link",
                          "provision", "blank", "found", "own", "trials"}}

\* Google is taking over the account of u, whose password was cleared.
Claimed(u) ==
  u \in confirmed \/ \E c \in Callers : call[c].user = u /\ call[c].does \in {"upsert", "claim"}

-----------------------------------------------------------------------------
\* AuthService.signup.
BeginSignup(c, p) ==
  /\ Known = {} /\ Begins(c, "insert", p, Nobody)
  /\ UNCHANGED <<userVars, flowVars, pastVars>>

\* upsert_user under a new id; users.email is unique.
InsertUser(c, u) ==
  /\ At(c, "insert") /\ email[u] = "none"
  /\ IF Known = {}
     THEN /\ email' = [email EXCEPT ![u] = "address"]
          /\ GoesFor(c, "password", u)
     ELSE Leaves(c) /\ UNCHANGED email
  /\ UNCHANGED <<confirmed, password, linked, workspaceVars, signedIn, flowVars, calls, pastVars>>

\* set_password_hash, for a sign-up or a reset.
SetPassword(c) ==
  LET u == call[c].user IN
  /\ call[c].does \in {"password", "reset"}
  /\ password' = [password EXCEPT ![u] = call[c].by]
  /\ GoesOn(c, IF At(c, "reset") THEN "revoke" ELSE "provision")
  /\ late' = IF At(c, "password") /\ Claimed(u) THEN late \cup {u} ELSE late
  /\ UNCHANGED <<email, confirmed, linked, workspaceVars, signedIn, flowVars, calls, broken,
                 exposed, crowded>>

\* provision_tenant: the user's row once more, under the e-mail of the caller;
\* the workspace; its owner.
Provision(c) ==
  LET u == call[c].user IN
  /\ At(c, "provision") /\ Known \subseteq {u}
  /\ email' = [email EXCEPT ![u] = "address"]
  /\ call' = [call EXCEPT ![c].does = "found", ![c].left = TrialPlans]
  /\ UNCHANGED <<confirmed, password, linked, workspaceVars, signedIn, flowVars, calls, pastVars>>

Found(c) ==
  /\ At(c, "found")
  /\ founded' = [founded EXCEPT ![call[c].user] = @ + 1]
  /\ GoesOn(c, "own")
  /\ UNCHANGED <<email, confirmed, password, linked, owned, trials, signedIn, flowVars, calls,
                 pastVars>>

Own(c) ==
  /\ At(c, "own")
  /\ owned' = [owned EXCEPT ![call[c].user] = @ + 1]
  /\ GoesOn(c, "trials")
  /\ UNCHANGED <<email, confirmed, password, linked, founded, trials, signedIn, flowVars, calls,
                 pastVars>>

\* _start_trials, one subscription.
StartTrial(c) ==
  LET u == call[c].user IN
  /\ At(c, "trials") /\ call[c].left # <<>>
  /\ trials' = [trials EXCEPT ![u] = @ \cup {Head(call[c].left)}]
  /\ call' = [call EXCEPT ![c].left = Tail(@)]
  /\ UNCHANGED <<email, confirmed, password, linked, founded, owned, signedIn, flowVars, calls,
                 pastVars>>

\* The end: a sign-up is sent a code and no session, a Google user is signed in.
EndCreation(c) ==
  /\ At(c, "trials") /\ call[c].left = <<>>
  /\ Leaves(c)
  /\ IF call[c].google THEN Enters(c) ELSE UNCHANGED signedIn
  /\ UNCHANGED <<email, confirmed, password, linked, workspaceVars, flowVars, calls, pastVars>>

-----------------------------------------------------------------------------
\* GoogleOAuthService.begin.
BeginFlow ==
  /\ flows < FlowMax
  /\ flows' = flows + 1 /\ flow' = "open" /\ codeSpent' = FALSE
  /\ UNCHANGED <<userVars, calls, call, pastVars>>

\* The callback finds its state; then it deletes it, and Google redeems a code once.
Callback(c) ==
  /\ flow = "open" /\ Begins(c, "burn", Owner, Nobody)
  /\ UNCHANGED <<userVars, flowVars, pastVars>>

Burn(c) ==
  /\ At(c, "burn")
  /\ flow' = "burnt" /\ GoesOn(c, "redeem")
  /\ UNCHANGED <<userVars, codeSpent, flows, calls, pastVars>>

Redeem(c) ==
  /\ At(c, "redeem")
  /\ codeSpent' = TRUE
  /\ IF codeSpent THEN Leaves(c) ELSE GoesOn(c, "identity")
  /\ UNCHANGED <<userVars, flow, flows, calls, pastVars>>

\* signin_with_google: by identity, else by address, else a new user.
ByIdentity(c) ==
  /\ At(c, "identity")
  /\ IF linked # Nobody THEN GoesFor(c, "enter", linked) ELSE GoesOn(c, "address")
  /\ UNCHANGED <<userVars, flowVars, calls, pastVars>>

ByAddress(c) ==
  /\ At(c, "address")
  /\ IF Known = {} THEN GoesOn(c, "new")
     ELSE GoesFor(c, IF The(Known) \in confirmed THEN "upsert" ELSE "clear", The(Known))
  /\ UNCHANGED <<userVars, flowVars, calls, pastVars>>

KeepPassword(c) == \* mutant: the unproven password stays
  /\ At(c, "clear")
  /\ GoesOn(c, "upsert")
  /\ UNCHANGED <<userVars, flowVars, calls, pastVars>>

\* clear_password_hash: the account was not verified when it was read.
ClearPassword(c) ==
  /\ At(c, "clear")
  /\ password' = [password EXCEPT ![call[c].user] = Nobody]
  /\ GoesOn(c, "upsert")
  /\ UNCHANGED <<email, confirmed, linked, workspaceVars, signedIn, flowVars, calls, pastVars>>

\* upsert_user: of the account that was found, or of a new one.
Upsert(c) ==
  /\ At(c, "upsert")
  /\ IF Known \subseteq {call[c].user}
     THEN email' = [email EXCEPT ![call[c].user] = "address"] /\ GoesOn(c, "claim")
     ELSE Leaves(c) /\ UNCHANGED email
  /\ UNCHANGED <<confirmed, password, linked, workspaceVars, signedIn, flowVars, calls, pastVars>>

InsertNew(c, u) ==
  /\ At(c, "new") /\ email[u] = "none"
  /\ IF Known = {}
     THEN email' = [email EXCEPT ![u] = "address"] /\ GoesFor(c, "mark", u)
     ELSE Leaves(c) /\ UNCHANGED email
  /\ UNCHANGED <<confirmed, password, linked, workspaceVars, signedIn, flowVars, calls, pastVars>>

\* mark_email_verified, for Google's owner or a reset whose code was right.
MarkVerified(c) ==
  LET u == call[c].user IN
  /\ call[c].does \in {"claim", "mark", "verify"}
  /\ confirmed' = confirmed \cup {u}
  /\ \/ At(c, "claim") /\ GoesOn(c, "attach")
     \/ At(c, "mark") /\ GoesOn(c, "link")
     \/ At(c, "verify") /\ GoesOn(c, "reset")
  /\ exposed' = IF At(c, "verify") /\ password[u] = Other THEN exposed \cup {u} ELSE exposed
  /\ UNCHANGED <<email, password, linked, workspaceVars, signedIn, flowVars, calls,
                 broken, late, crowded>>

\* link_identity: an identity that is linked stays where it is.
Link(c) ==
  /\ call[c].does \in {"attach", "link"}
  /\ linked' = IF linked = Nobody THEN call[c].user ELSE linked
  /\ GoesOn(c, IF At(c, "attach") THEN "enter" ELSE "provision")
  /\ UNCHANGED <<email, confirmed, password, workspaceVars, signedIn, flowVars, calls, pastVars>>

\* A session is issued.
Enter(c) ==
  /\ At(c, "enter")
  /\ Enters(c) /\ Leaves(c)
  /\ UNCHANGED <<email, confirmed, password, linked, workspaceVars, flowVars, calls, pastVars>>

-----------------------------------------------------------------------------
\* login: the user is read, then the hash, and the answer is by what was read.
Login(c, p) ==
  /\ Known # {} /\ The(Known) \in confirmed /\ Begins(c, "compare", p, The(Known))
  /\ UNCHANGED <<userVars, flowVars, pastVars>>

ComparePassword(c) ==
  /\ At(c, "compare")
  /\ IF password[call[c].user] = call[c].by THEN GoesOn(c, "enter") ELSE Leaves(c)
  /\ UNCHANGED <<userVars, flowVars, calls, pastVars>>

\* verify_email, by the owner: it takes the mail and, for the user's id, the
\* sign-up's answer or the right password.
Confirm(u) ==
  /\ email[u] = "address" /\ password[u] = Owner
  /\ confirmed' = confirmed \cup {u}
  /\ signedIn' = signedIn \cup {<<Owner, u>>}
  /\ UNCHANGED <<email, password, linked, workspaceVars, flowVars, calls, call, pastVars>>

\* reset_password, by the owner: the code is right.  check_reset_code verifies
\* the address, then the hash is replaced, then the sessions are revoked.
Reset(c) ==
  /\ Known # {} /\ Begins(c, "verify", Owner, The(Known))
  /\ UNCHANGED <<userVars, flowVars, pastVars>>

\* The other person's login has its answer and is about to issue a session.
LoggingIn(u) == \E d \in Callers : At(d, "enter") /\ call[d].by = Other /\ call[d].user = u

\* revoke_all_for_user.
RevokeAll(c) ==
  LET u == call[c].user IN
  /\ At(c, "revoke")
  /\ signedIn' = {s \in signedIn : s[2] # u}
  /\ Leaves(c)
  /\ exposed' = IF LoggingIn(u) THEN exposed ELSE exposed \ {u}
  /\ UNCHANGED <<email, confirmed, password, linked, workspaceVars, flowVars, calls,
                 broken, late, crowded>>

\* provision: ensure_tenant upserts the user with the token's email, and the
\* tokens the platform issues carry none.
Ensure(c, p, u) ==
  /\ <<p, u>> \in signedIn /\ Begins(c, "ensure", p, u)
  /\ UNCHANGED <<userVars, flowVars, pastVars>>

Blank(c) ==
  LET u == call[c].user IN
  /\ call[c].does \in {"ensure", "blank"} /\ \A w \in Users \ {u} : email[w] # "blank"
  /\ email' = [email EXCEPT ![u] = "blank"]
  /\ GoesOn(c, IF At(c, "ensure") THEN "list" ELSE "found")
  /\ UNCHANGED <<confirmed, password, linked, workspaceVars, signedIn, flowVars, calls, pastVars>>

\* It has a workspace, or else provision_tenant, and no trials.
List(c) ==
  LET u == call[c].user IN
  /\ At(c, "list")
  /\ IF owned[u] > 0 THEN Leaves(c) /\ UNCHANGED crowded
     ELSE /\ GoesOn(c, "blank")
          /\ crowded' = IF Creating(u) # {} THEN crowded \cup {u} ELSE crowded
  /\ UNCHANGED <<userVars, flowVars, calls, broken, late, exposed>>

\* backfill_trials, for a workspace that lacks some.
Backfill(u) ==
  /\ owned[u] > 0 /\ trials[u] # Trials
  /\ trials' = [trials EXCEPT ![u] = Trials]
  /\ UNCHANGED <<email, confirmed, password, linked, founded, owned, signedIn, flowVars, calls,
                 call, pastVars>>

\* A request dies, a statement raises, or create_tenant loses the race for a slug.
RequestDies(c) ==
  /\ call[c] # NoCall
  /\ Leaves(c)
  /\ broken' = broken \cup {u \in Users : c \in Creating(u)}
  /\ UNCHANGED <<userVars, flowVars, calls, late, exposed, crowded>>

AccountsNext ==
  \/ BeginFlow
  \/ \E c \in Callers :
       \/ \E p \in People :
            BeginSignup(c, p) \/ Login(c, p) \/ \E u \in Users : Ensure(c, p, u)
       \/ \E u \in Users : InsertUser(c, u) \/ InsertNew(c, u)
       \/ SetPassword(c) \/ Provision(c) \/ Found(c) \/ Own(c) \/ StartTrial(c) \/ EndCreation(c)
       \/ Callback(c) \/ Burn(c) \/ Redeem(c) \/ ByIdentity(c) \/ ByAddress(c)
       \/ ClearPassword(c) \/ Upsert(c) \/ MarkVerified(c) \/ Link(c) \/ Enter(c)
       \/ ComparePassword(c) \/ Reset(c) \/ RevokeAll(c) \/ Blank(c) \/ List(c) \/ RequestDies(c)
  \/ \E u \in Users : Confirm(u) \/ Backfill(u)

AccountsSpec == AccountsInit /\ [][AccountsNext]_accountVars

-----------------------------------------------------------------------------
\* Types; "the impostor is locked out; the owner keeps the data"
\* (auth_service.py:206): a verified account has a password of the other person,
\* and the other person is signed in, only if a sign-up set its password after
\* the owner had proved the address, or while a reset that verified the address
\* with that password in place is not through (auth.py:262-269): it died, or a
\* login overtook its revocation.  An account that somebody is signed in to has
\* a workspace with every trial ("so the console isn't an empty shell",
\* auth_service.py:144) and no workspace is without its owner, unless the
\* request that creates it died or is still at work; and nobody owns two
\* workspaces unless two requests were provisioning at once.
OwnersAccount ==
  /\ AccountsTypeOK
  /\ \A u \in Users :
       /\ u \in confirmed /\ password[u] = Other => u \in late \cup exposed
       /\ <<Other, u>> \in signedIn => u \in late \cup exposed
       /\ (\E p \in People : <<p, u>> \in signedIn) =>
            (owned[u] > 0 /\ trials[u] = Trials) \/ u \in broken \/ Creating(u) # {}
       /\ founded[u] # owned[u] => u \in broken \/ Creating(u) # {}
       /\ owned[u] > 1 => u \in crowded

\* provision_tenant is "idempotent on the user record" (tenancy_service.py:108).
ProvisioningKeepsTheUser ==
  [][\A u \in Users : email[u] = "address" => email'[u] = "address"]_accountVars
=============================================================================
