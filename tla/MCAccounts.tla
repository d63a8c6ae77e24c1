------------------------------- MODULE MCAccounts -------------------------------
(***************************************************************************)
(* An instance for TLC of the accounts of one address, of the codes mailed *)
(* to it, and of the setting and the prompts that the platform owner       *)
(* edits.  They share no state: one of them, chosen at the start, moves,   *)
(* so that the states are those of each by itself.  Below are claims of    *)
(* the code's comments that the instance refutes (README.md tells how).    *)
(***************************************************************************)
EXTENDS EmailCodes, Accounts, RuntimeConfig, TLC

CONSTANTS k1, k2, k3, u1, u2

VARIABLE part

PlanModules == <<"contract_compliance", "grant_intelligence">>

HomeOf == [r \in Visits |-> CHOOSE i \in Instances : TRUE]

\* Callers, clients, visits and editors have the same names.
Symmetry == Permutations(Callers)

PeopleInit ==
  /\ part \in {"codes", "accounts", "setting", "prompts"}
  /\ stored = Unset \* the first edit of two gives any other start
  /\ CodesInit /\ AccountsInit /\ ConfigInit /\ PromptInit

\* One unused id is as good as another.
InTurn ==
  /\ state'[k3] # "none" => state'[k2] # "none"
  /\ state'[k2] # "none" => state'[k1] # "none"
  /\ email'[u2] # "none" => email'[u1] # "none"

PeopleNext ==
  /\ UNCHANGED part
  /\ \/ part = "codes" /\ CodesNext /\ UNCHANGED <<accountVars, configVars, promptVars>>
     \/ part = "accounts" /\ AccountsNext /\ UNCHANGED <<codesVars, configVars, promptVars>>
     \/ part = "setting" /\ ConfigNext /\ UNCHANGED <<codesVars, accountVars, promptVars>>
     \/ part = "prompts" /\ PromptNext /\ UNCHANGED <<codesVars, accountVars, configVars>>
  /\ InTurn

PeopleSpec == PeopleInit /\ [][PeopleNext]_<<part, codesVars, accountVars, configVars, promptVars>>

-----------------------------------------------------------------------------
\* email_verification_service.py:29: ten guesses against a six-digit code.
AttemptLimit == \A k \in Codes : compared[k] <= MaxAttempts

\* repositories/tenants.py:187: a new code supersedes any earlier live one.
OneLiveCode == Cardinality(LiveCodes) <= 1

\* email_verification_service.py:31: sends allowed per hour.
SendLimit == Cardinality(Recent) <= MaxSends

\* auth_service.py:206: "the impostor is locked out; the owner keeps the data".
\* (A sign-up's password may land after the takeover; and a reset verifies the
\* address before it replaces the password, and may die in between.)
ImpostorLockedOut == \A u \in confirmed : password[u] # Other

\* config_registry.py:96: only one active version per prompt name.
OneActivePrompt == Cardinality(active) <= 1

\* extraction.py:5: no prompt is hardcoded, it is fetched live.
NoPromptIsHardcoded == prompt # 0
=============================================================================
